--------------------------- MODULE AgentServerProofs ---------------------------
(***************************************************************************)
(* Proofs about a request that reads the store in several calls while the  *)
(* watcher goes on adding events, for every set of events and questions,   *)
(* every size of the store and every interleaving.                         *)
(***************************************************************************)
EXTENDS AgentServer, StoreQueryProofs

\* f is a solution of the recursive definition of FoldLeft in matched.
MatchFold(f, ids, req) ==
    f = [s \in SUBSET DOMAIN ids |->
           IF s = {} THEN <<>>
           ELSE IF involves(ids[Max(s)], req) THEN Append(f[s \ {Max(s)}], ids[Max(s)])
                                              ELSE f[s \ {Max(s)}]]

LEMMA MatchFolds ==
    ASSUME NEW n \in Nat, NEW I, NEW ids \in [1 .. n -> I], NEW req
    PROVE  \E f : MatchFold(f, ids, req) /\ matched(ids, req) = f[1 .. n]
<1> DEFINE D == 1 .. n
           T == Seq(I)
           pick == [s \in SUBSET D |-> Max(s)]
           step == [w \in T \X D |-> IF involves(ids[w[2]], req) THEN Append(w[1], ids[w[2]]) ELSE w[1]]
<1>1. ASSUME NEW s \in SUBSET D, s # {} PROVE pick[s] \in s
  <2>1. s \subseteq 0 .. n
    OBVIOUS
  <2> QED BY <1>1, <2>1, MaxOfBounded
<1>2. ASSUME NEW t \in T, NEW x \in D
      PROVE  /\ step[<<t, x>>] \in T
             /\ step[<<t, x>>] = IF involves(ids[x], req) THEN Append(t, ids[x]) ELSE t
  <2>1. ids[x] \in I /\ <<t, x>> \in T \X D
    OBVIOUS
  <2>2. step[<<t, x>>] = IF involves(ids[x], req) THEN Append(t, ids[x]) ELSE t
    <3> HIDE DEF T
    <3> QED BY <2>1
  <2>3. Append(t, ids[x]) \in T
    BY <2>1
  <2> QED BY <2>2, <2>3
<1>3. IsFiniteSet(D) /\ <<>> \in T
  BY FS_Interval
<1> HIDE DEF pick, step, T
<1>4. PICK it : FoldOn(it, D, T, <<>>, pick, step)
  BY <1>1, <1>2, <1>3, FoldExists
<1>5. MatchFold(it, ids, req)
  <2>1. /\ it \in [SUBSET D -> T] /\ it[{}] = <<>>
        /\ \A s \in SUBSET D : s # {} => it[s] = step[<<it[s \ {pick[s]}], pick[s]>>]
    BY <1>4 DEF FoldOn
  <2>2. ASSUME NEW s \in SUBSET D, s # {}
        PROVE  it[s] = IF involves(ids[Max(s)], req) THEN Append(it[s \ {Max(s)}], ids[Max(s)])
                                                     ELSE it[s \ {Max(s)}]
    <3>1. pick[s] = Max(s)
      BY DEF pick
    <3>2. Max(s) \in D /\ it[s \ {Max(s)}] \in T
      BY <1>1, <2>1, <2>2, <3>1
    <3>3. it[s] = step[<<it[s \ {Max(s)}], Max(s)>>]
      BY <2>1, <2>2, <3>1, Zenon
    <3>4. step[<<it[s \ {Max(s)}], Max(s)>>]
             = IF involves(ids[Max(s)], req) THEN Append(it[s \ {Max(s)}], ids[Max(s)])
                                             ELSE it[s \ {Max(s)}]
      BY <1>2, <3>2, Zenon
    <3> QED BY <3>3, <3>4, Zenon
  <2>3. DOMAIN ids = D
    OBVIOUS
  <2> DEFINE g == [s \in SUBSET DOMAIN ids |->
                     IF s = {} THEN <<>>
                     ELSE IF involves(ids[Max(s)], req) THEN Append(it[s \ {Max(s)}], ids[Max(s)])
                                                        ELSE it[s \ {Max(s)}]]
  <2>4. it = g
    BY <2>1, <2>2, <2>3
  <2> QED BY <2>4 DEF MatchFold
<1> DEFINE f == CHOOSE f : f = [s \in SUBSET DOMAIN ids |->
                  IF s = {} THEN <<>>
                  ELSE IF involves(ids[Max(s)], req) THEN Append(f[s \ {Max(s)}], ids[Max(s)])
                                                     ELSE f[s \ {Max(s)}]]
<1>6. MatchFold(f, ids, req)
  BY <1>5, Zenon DEF MatchFold
<1>7. matched(ids, req) = f[DOMAIN ids]
  BY Zenon DEF matched, FoldLeft, MapThenFoldSet
<1>8. DOMAIN ids = 1 .. n
  OBVIOUS
<1> HIDE DEF f
<1> QED BY <1>6, <1>7, <1>8

\* The loop of GetEventsForObject keeps events that involve the object, each
\* once if each is listed once.
LEMMA MatchedOnes ==
    ASSUME NEW n \in Nat, NEW I, NEW ids \in [1 .. n -> I], NEW req,
           \A i, j \in 1 .. n : ids[i] = ids[j] => i = j
    PROVE  LET r == matched(ids, req) IN
           /\ r \in Seq(I)
           /\ \A i, j \in 1 .. Len(r) : r[i] = r[j] => i = j
           /\ \A j \in 1 .. Len(r) : involves(r[j], req)
<1> DEFINE ok(r, k) == /\ r \in Seq(I)
                       /\ \A i, j \in 1 .. Len(r) : r[i] = r[j] => i = j
                       /\ \A j \in 1 .. Len(r) : involves(r[j], req) /\ \E i \in 1 .. k : ids[i] = r[j]
<1>1. PICK f : MatchFold(f, ids, req) /\ matched(ids, req) = f[1 .. n]
  BY MatchFolds
<1> DEFINE P == {k \in Nat : k <= n => ok(f[1 .. k], k)}
<1>2. ASSUME NEW s \in SUBSET (1 .. n)
      PROVE  f[s] = IF s = {} THEN <<>>
                    ELSE IF involves(ids[Max(s)], req) THEN Append(f[s \ {Max(s)}], ids[Max(s)])
                                                       ELSE f[s \ {Max(s)}]
  <2>1. DOMAIN ids = 1 .. n
    OBVIOUS
  <2> QED BY <1>1, <2>1 DEF MatchFold
<1>3. 0 \in P
  <2>1. 1 .. 0 = {}
    OBVIOUS
  <2>2. f[1 .. 0] = <<>>
    BY <1>2, <2>1
  <2>3. <<>> \in Seq(I) /\ 1 .. Len(<<>>) = {}
    OBVIOUS
  <2> DEFINE e == f[1 .. 0]
  <2>4. e \in Seq(I) /\ \A j \in 1 .. Len(e) : FALSE
    BY <2>2, <2>3
  <2> HIDE DEF e
  <2>5. ok(e, 0)
    BY <2>4
  <2> QED BY <2>5 DEF e
<1>4. ASSUME NEW k \in P PROVE k + 1 \in P
  <2>1. k \in Nat /\ k + 1 \in Nat
    OBVIOUS
  <2> SUFFICES ASSUME k + 1 <= n PROVE ok(f[1 .. k + 1], k + 1)
    BY <2>1
  <2> DEFINE r == f[1 .. k]
             id == ids[k + 1]
  <2>2. ok(r, k)
    BY <2>1
  <2>3. 1 .. k + 1 \in SUBSET (1 .. n) /\ k + 1 \in 1 .. n /\ 1 .. k \subseteq 1 .. n
    BY <2>1
  <2>4. f[1 .. k + 1] = IF involves(id, req) THEN Append(r, id) ELSE r
    <3> DEFINE s == 1 .. k + 1
    <3>1. s # {} /\ Max(s) = k + 1 /\ s \ {k + 1} = 1 .. k /\ s \in SUBSET (1 .. n)
      BY <2>1, <2>3, LastOf
    <3> HIDE DEF s
    <3>2. f[s] = IF s = {} THEN <<>>
                 ELSE IF involves(ids[Max(s)], req) THEN Append(f[s \ {Max(s)}], ids[Max(s)])
                                                    ELSE f[s \ {Max(s)}]
      BY <1>2, <3>1
    <3>3. f[s] = IF involves(id, req) THEN Append(r, id) ELSE r
      BY <3>1, <3>2
    <3> QED BY <3>3 DEF s
  <2>5. id \in I /\ \A i \in 1 .. k : ids[i] # id
    <3>1. \A i \in 1 .. k : i \in 1 .. n /\ i # k + 1
      BY <2>1, <2>3
    <3> QED BY <2>3, <3>1
  <2>6. \A i \in 1 .. k : i \in 1 .. k + 1
    BY <2>1
  <2>7. k + 1 \in 1 .. k + 1
    BY <2>1
  <2> HIDE DEF r, id
  <2>8. CASE involves(id, req)
    <3> DEFINE q == Append(r, id)
    <3>1. q \in Seq(I) /\ Len(q) = Len(r) + 1 /\ q[Len(r) + 1] = id /\ Len(r) \in Nat
          /\ \A j \in 1 .. Len(r) : q[j] = r[j]
      BY <2>2, <2>5
    <3> HIDE DEF q
    <3>2. \A j \in 1 .. Len(r) + 1 : j \in 1 .. Len(r) \/ j = Len(r) + 1
      BY <3>1
    <3>3. \A j \in 1 .. Len(r) : r[j] # id
      BY <2>2, <2>5
    <3>4. \A i, j \in 1 .. Len(q) : q[i] = q[j] => i = j
      BY <2>2, <3>1, <3>2, <3>3, SMTT(30)
    <3>5. \A j \in 1 .. Len(q) : involves(q[j], req) /\ \E i \in 1 .. k + 1 : ids[i] = q[j]
      BY <2>2, <2>6, <2>7, <2>8, <3>1, <3>2, SMTT(30) DEF id
    <3>6. f[1 .. k + 1] = q
      BY <2>4, <2>8 DEF q
    <3> QED BY <3>1, <3>4, <3>5, <3>6
  <2>9. CASE ~ involves(id, req)
    BY <2>2, <2>4, <2>6, <2>9
  <2> QED BY <2>8, <2>9
<1>5. n \in P
  <2>1. P \subseteq Nat
    OBVIOUS
  <2> HIDE DEF P
  <2> QED BY <1>3, <1>4, <2>1, Induction
<1>6. ok(f[1 .. n], n)
  BY <1>5
<1> QED BY <1>1, <1>6

-----------------------------------------------------------------------------
(***************************************************************************)
(* The plan                                                                *)
(***************************************************************************)
Collecting(step) == step.Method \in {"ListEvents", "GetEventsForObject"}

\* What a handler of the agent relies on in a step.
StepOK(step) ==
    /\ step.Since \in Nat /\ step.Limit \in Int
    /\ step.Method = "ListEvents" => step.Kind = "" /\ step.Name = ""
    /\ step.Method = "GetEventsForObject" => step.Reason = "" /\ step.Since = 0

\* No event satisfies both of two steps that collect events.
Disjoint(a, b) == Collecting(a) /\ Collecting(b) => a.Reason \notin {"", b.Reason}

\* A summary is asked for before the events it sums up.
Summarized(a, b) ==
    /\ ~ (a.Method = "ListEvents" /\ b.Method = "GetNamespaceSummary")
    /\ a.Method = "GetNamespaceSummary" /\ b.Method = "ListEvents" =>
         b.Namespace = a.Namespace /\ b.Since = a.Since

Planned(plan) ==
    /\ Len(plan) \in Nat /\ DOMAIN plan = 1 .. Len(plan)
    /\ \A i \in 1 .. Len(plan) : StepOK(plan[i])
    /\ \A i, j \in 1 .. Len(plan) : i # j => Disjoint(plan[i], plan[j])
    /\ \A i, j \in 1 .. Len(plan) : i < j => Summarized(plan[i], plan[j])

\* The planner picks one of its handlers or refuses.
LEMMA PlanCases ==
    ASSUME NEW q
    PROVE  \/ Plan(q) = <<>> \/ Plan(q) = namespaceOverview(q)
           \/ Plan(q) = explainObjectIssue(q) \/ Plan(q) = explainRestarts(q)
           \/ Plan(q) = buildTimeline(q)
<1>1. heuristic(q) \in {<<>>, namespaceOverview(q), explainObjectIssue(q)}
  BY DEF heuristic
<1>2. Plan(q) \in {<<>>, namespaceOverview(q), explainObjectIssue(q),
                   explainRestarts(q), buildTimeline(q), heuristic(q)}
  BY DEF Plan
<1> QED BY <1>1, <1>2

Summarizes(step, ns, since) ==
    /\ step.Method = "GetNamespaceSummary" /\ step.Namespace = ns /\ step.Since = since
    /\ step.Limit = 0

Lists(step, ns, since) ==
    /\ step.Method = "ListEvents" /\ step.Namespace = ns /\ step.Since = since
    /\ step.Kind = "" /\ step.Name = "" /\ step.Limit \in Int

\* What is true of a summary and of the listings of its events.
LEMMA SummaryAndLists ==
    ASSUME NEW ns, NEW since \in Nat
    PROVE  /\ \A s : Summarizes(s, ns, since) \/ Lists(s, ns, since) => StepOK(s)
           /\ \A s, t : Summarizes(s, ns, since) => Disjoint(s, t) /\ Disjoint(t, s)
           /\ \A s, t : s.Reason \notin {"", t.Reason} => Disjoint(s, t)
           /\ \A s, t : Lists(t, ns, since) /\ (Summarizes(s, ns, since) \/ Lists(s, ns, since))
                          => Summarized(s, t)
<1>1. \A s : Summarizes(s, ns, since) => StepOK(s)
  BY DEF Summarizes, StepOK
<1>2. \A s : Lists(s, ns, since) => StepOK(s)
  BY DEF Lists, StepOK
<1>3. \A s, t : Summarizes(s, ns, since) => Disjoint(s, t) /\ Disjoint(t, s)
  BY DEF Summarizes, Disjoint, Collecting
<1>4. \A s, t : s.Reason \notin {"", t.Reason} => Disjoint(s, t)
  BY DEF Disjoint
<1>5. \A s, t : Lists(t, ns, since) /\ Summarizes(s, ns, since) => Summarized(s, t)
  BY DEF Lists, Summarizes, Summarized
<1>6. \A s, t : Lists(t, ns, since) /\ Lists(s, ns, since) => Summarized(s, t)
  BY DEF Lists, Summarized
<1> QED BY <1>1, <1>2, <1>3, <1>4, <1>5, <1>6, Zenon

LEMMA AfterFirst ==
    ASSUME NEW n \in Nat
    PROVE  /\ \A i \in 1 .. n : i = 1 \/ i \in 2 .. n
           /\ \A i, j \in 1 .. n : i < j => j \in 2 .. n
OBVIOUS

Prepended(p, x, r, n) ==
    /\ Len(p) = n + 1 /\ DOMAIN p = 1 .. n + 1 /\ p[1] = x
    /\ \A i \in 2 .. n + 1 : p[i] = r[i - 1]

LEMMA Prepends ==
    ASSUME NEW S, NEW x \in S, NEW n \in Nat, NEW r \in [1 .. n -> S]
    PROVE  Prepended(<<x>> \o r, x, r, n)
<1>1. r \in Seq(S) /\ Len(r) = n /\ <<x>> \in Seq(S) /\ Len(<<x>>) = 1
  OBVIOUS
<1> QED BY <1>1 DEF Prepended

\* A summary followed by listings of different reasons makes a plan.
LEMMA SummaryFirst ==
    ASSUME NEW n \in Nat, NEW plan, DOMAIN plan = 1 .. n, Len(plan) = n,
           NEW ns, NEW since \in Nat, Summarizes(plan[1], ns, since),
           \A i \in 2 .. n : Lists(plan[i], ns, since),
           \A i, j \in 2 .. n : i # j => plan[i].Reason \notin {"", plan[j].Reason}
    PROVE  Planned(plan)
<1>1. \A i \in 1 .. n : i = 1 \/ i \in 2 .. n
  BY AfterFirst, Zenon
<1>2. \A i, j \in 1 .. n : i < j => j \in 2 .. n
  BY AfterFirst, Zenon
<1>3. \A i \in 1 .. n : Summarizes(plan[i], ns, since) \/ Lists(plan[i], ns, since)
  BY <1>1, Zenon
<1>4. \A i \in 1 .. n : StepOK(plan[i])
  BY <1>3, SummaryAndLists, Zenon
<1>5. \A i, j \in 1 .. n : i # j => Disjoint(plan[i], plan[j])
  BY <1>1, SummaryAndLists, Zenon
<1>6. \A i, j \in 1 .. n : i < j => Summarized(plan[i], plan[j])
  BY <1>2, <1>3, SummaryAndLists, Zenon
<1> QED BY <1>4, <1>5, <1>6, Zenon DEF Planned

\* What every plan has that the planner makes (planner.go): the calls of one
\* plan that collect events ask for different reasons, and its summary comes
\* first and is of the same events.
LEMMA PlansPlanned ==
    ASSUME NEW q, q.Since \in Nat, q.Limit \in Int
    PROVE  Planned(Plan(q))
<1> DEFINE ns == q.Namespace
           since == q.Since
           first == [blank EXCEPT !.Method = "GetNamespaceSummary", !.Namespace = ns,
                                  !.Since = since]
<1>0. Summarizes(first, ns, since)
  BY DEF Summarizes, blank
<1>1. Planned(<<>>)
  <2> DEFINE plan == <<>>
  <2>1. Len(plan) = 0 /\ DOMAIN plan = 1 .. Len(plan)
    OBVIOUS
  <2> HIDE DEF plan
  <2>2. Len(plan) \in Nat /\ \A i \in 1 .. Len(plan) : FALSE
    BY <2>1
  <2>3. Planned(plan)
    BY <2>1, <2>2, Zenon DEF Planned
  <2> QED BY <2>3 DEF plan
<1>2. Planned(namespaceOverview(q))
  <2> DEFINE second == [blank EXCEPT !.Method = "ListEvents", !.Namespace = ns,
                                     !.Since = since, !.Limit = q.Limit]
             plan == <<first, second>>
  <2>1. Lists(second, ns, since)
    BY DEF Lists, blank
  <2>2. namespaceOverview(q) = plan
    BY DEF namespaceOverview
  <2> HIDE DEF first, second, ns, since
  <2>3. plan[1] = first /\ plan[2] = second /\ Len(plan) = 2 /\ DOMAIN plan = 1 .. 2
    OBVIOUS
  <2> HIDE DEF plan
  <2>4. \A i \in 2 .. 2 : i = 2
    OBVIOUS
  <2>5. since \in Nat /\ 2 \in Nat
    BY DEF since
  <2>6. Planned(plan)
    BY <1>0, <2>1, <2>3, <2>4, <2>5, SummaryFirst, Zenon
  <2> QED BY <2>2, <2>6, Zenon
<1>3. Planned(explainObjectIssue(q))
  <2>1. CASE ~ namesObject(q)
    BY <1>1, <2>1, Zenon DEF explainObjectIssue
  <2>2. CASE namesObject(q)
    <3> DEFINE a == objectStep(q, "GetEventsForObject")
               b == objectStep(q, "ResolveOwnerChain")
               c == objectStep(q, "GetObjectSnapshot")
               plan == <<a, b, c>>
               other(s) == s.Method \notin {"ListEvents", "GetEventsForObject", "GetNamespaceSummary"}
    <3>1. StepOK(a) /\ StepOK(b) /\ StepOK(c) /\ ~ (a.Method = "ListEvents") /\ other(b) /\ other(c)
      BY DEF StepOK, objectStep, blank
    <3>2. explainObjectIssue(q) = plan
      BY <2>2, Zenon DEF explainObjectIssue
    <3> HIDE DEF a, b, c
    <3>3. plan[1] = a /\ plan[2] = b /\ plan[3] = c /\ Len(plan) = 3 /\ DOMAIN plan = 1 .. 3
      OBVIOUS
    <3> HIDE DEF plan
    <3>4. \A i \in 1 .. 3 : i = 1 \/ i = 2 \/ i = 3
      OBVIOUS
    <3>5. \A i, j \in 1 .. 3 : i < j => (j = 2 \/ j = 3)
      OBVIOUS
    <3>6. \A s, t : other(t) => Disjoint(s, t) /\ Disjoint(t, s)
      BY DEF Disjoint, Collecting
    <3>7. \A s, t : other(t) => Summarized(s, t)
      BY DEF Summarized
    <3> HIDE DEF other
    <3>8. \A i \in 1 .. 3 : StepOK(plan[i])
      BY <3>1, <3>3, <3>4, Zenon
    <3>9. \A i, j \in 1 .. 3 : i # j => Disjoint(plan[i], plan[j])
      BY <3>1, <3>3, <3>4, <3>6, Zenon
    <3>10. \A i, j \in 1 .. 3 : i < j => Summarized(plan[i], plan[j])
      BY <3>1, <3>3, <3>5, <3>7, Zenon
    <3>11. 3 \in Nat
      OBVIOUS
    <3>12. Planned(plan)
      BY <3>3, <3>8, <3>9, <3>10, <3>11, Zenon DEF Planned
    <3> QED BY <3>2, <3>12, Zenon
  <2> QED BY <2>1, <2>2
<1>4. Planned(explainRestarts(q))
  <2> DEFINE list(i) == [blank EXCEPT !.Method = "ListEvents", !.Namespace = ns,
                                      !.Reason = restartReasons[i], !.Since = since]
             rest == [i \in 1 .. 5 |-> list(i)]
             plan == <<first>> \o rest
  <2>1. /\ Len(restartReasons) = 5
        /\ restartReasons[1] = "BackOff" /\ restartReasons[2] = "OOMKilling"
        /\ restartReasons[3] = "Failed" /\ restartReasons[4] = "Unhealthy"
        /\ restartReasons[5] = "FailedMount"
    BY DEF restartReasons
  <2>2. explainRestarts(q) = plan
    BY <2>1, Zenon DEF explainRestarts
  <2>3. \A i \in 1 .. 5 : Lists(rest[i], ns, since) /\ rest[i].Reason = restartReasons[i]
    <3>1. \A i : Lists(list(i), ns, since) /\ list(i).Reason = restartReasons[i]
      BY DEF blank, Lists
    <3> HIDE DEF list
    <3> QED BY <3>1
  <2> DEFINE S == {first} \cup {list(i) : i \in 1 .. 5}
  <2>4. first \in S /\ rest \in [1 .. 5 -> S]
    <3> HIDE DEF list, first
    <3> QED OBVIOUS
  <2> HIDE DEF first, rest, ns, since, S
  <2>5. /\ Len(plan) = 6 /\ DOMAIN plan = 1 .. 6 /\ plan[1] = first
        /\ \A i \in 2 .. 6 : plan[i] = rest[i - 1]
    <3>1. 5 \in Nat /\ 5 + 1 = 6
      OBVIOUS
    <3>2. Prepended(plan, first, rest, 5)
      BY <2>4, <3>1, Prepends
    <3> HIDE DEF plan
    <3> QED BY <3>1, <3>2 DEF Prepended
  <2> HIDE DEF plan
  <2>6. \A i, j \in 1 .. 5 : i # j => restartReasons[i] \notin {"", restartReasons[j]}
    <3>1. \A i \in 1 .. 5 : i = 1 \/ i = 2 \/ i = 3 \/ i = 4 \/ i = 5
      OBVIOUS
    <3> QED BY <2>1, <3>1
  <2>7. \A i \in 2 .. 6 : i - 1 \in 1 .. 5 /\ \A j \in 2 .. 6 : i # j => i - 1 # j - 1
    OBVIOUS
  <2>8. \A i \in 2 .. 6 : Lists(plan[i], ns, since) /\ plan[i].Reason = restartReasons[i - 1]
    BY <2>3, <2>5, <2>7, Zenon
  <2>9. \A i, j \in 2 .. 6 : i # j => plan[i].Reason \notin {"", plan[j].Reason}
    BY <2>6, <2>7, <2>8, Zenon
  <2>10. since \in Nat /\ 6 \in Nat
    BY DEF since
  <2>11. Planned(plan)
    BY <1>0, <2>5, <2>8, <2>9, <2>10, SummaryFirst, Zenon
  <2> QED BY <2>2, <2>11, Zenon
<1>5. Planned(buildTimeline(q))
  <2> DEFINE only == [blank EXCEPT !.Method = "ListEvents", !.Namespace = ns,
                                   !.Reason = q.Reason, !.Since = since, !.Limit = q.Limit]
             plan == <<only>>
  <2>1. Lists(only, ns, since)
    BY DEF Lists, blank
  <2>2. buildTimeline(q) = plan
    BY Zenon DEF buildTimeline
  <2>3. StepOK(only)
    BY <2>1, SummaryAndLists
  <2> HIDE DEF only
  <2>4. plan[1] = only /\ Len(plan) = 1 /\ DOMAIN plan = 1 .. 1
    OBVIOUS
  <2> HIDE DEF plan
  <2>5. 1 \in Nat /\ \A i \in 1 .. 1 : i = 1
    OBVIOUS
  <2>6. \A i, j \in 1 .. 1 : ~ (i < j)
    OBVIOUS
  <2>7. Planned(plan)
    BY <2>3, <2>4, <2>5, <2>6, Zenon DEF Planned
  <2> QED BY <2>2, <2>7, Zenon
<1> QED BY <1>1, <1>2, <1>3, <1>4, <1>5, PlanCases

-----------------------------------------------------------------------------
(***************************************************************************)
(* The handlers                                                            *)
(***************************************************************************)
Item == [id : Nat, event : NormalizedEvent]

\* d holds events the step asks for as they are stored now, each once.
Reads(d, step) ==
    /\ d \in Seq(Item)
    /\ \A i, j \in 1 .. Len(d) : d[i].id = d[j].id => i = j
    /\ \A k \in 1 .. Len(d) : /\ d[k].id \in DOMAIN byID /\ d[k].event = byID[d[k].id]
                              /\ AskedFor(step, d[k].event)

\* d leaves out none of the stored events that the step asks for.
ReadsAll(d, step) ==
    \A x \in DOMAIN byID : AskedFor(step, byID[x]) => \E k \in 1 .. Len(d) : d[k].id = x

\* A time and an event survive their conversions to a message and back.
LEMMA Timestamp ==
    ASSUME NEW t \in Nat
    PROVE  timeOrZero(toTimestampPB(t)) = t /\ timeOrZero(<<t>>) = t
<1>1. <<t>> # <<>> /\ <<t>>[1] = t
  OBVIOUS
<1> QED BY <1>1 DEF timeOrZero, toTimestampPB

LEMMA RoundTrip ==
    ASSUME NEW e \in NormalizedEvent
    PROVE  fromProtoEvent(toProtoEvent(e)) = e
<1> DEFINE p == toProtoEvent(e)
           f == fromProtoEvent(p)
<1>1. e.FirstSeen \in Nat /\ e.LastSeen \in Nat
  BY DEF NormalizedEvent
<1>2. timeOrZero(<<e.FirstSeen>>) = e.FirstSeen /\ timeOrZero(<<e.LastSeen>>) = e.LastSeen
  BY <1>1, Timestamp
<1>3. p = [[e EXCEPT !.FirstSeen = <<e.FirstSeen>>] EXCEPT !.LastSeen = <<e.LastSeen>>]
  BY DEF toProtoEvent, NormalizedEvent
<1>4. /\ DOMAIN p = DOMAIN e /\ p.FirstSeen = <<e.FirstSeen>> /\ p.LastSeen = <<e.LastSeen>>
      /\ \A x \in DOMAIN e : x # "FirstSeen" /\ x # "LastSeen" => p[x] = e[x]
      /\ "FirstSeen" \in DOMAIN e /\ "LastSeen" \in DOMAIN e
  BY <1>3 DEF NormalizedEvent
<1> HIDE DEF p
<1>5. f = [[p EXCEPT !.FirstSeen = timeOrZero(p.FirstSeen)] EXCEPT !.LastSeen = timeOrZero(p.LastSeen)]
  BY <1>4 DEF fromProtoEvent
<1>6. /\ DOMAIN f = DOMAIN e /\ \A x \in DOMAIN e : f[x] = e[x]
  BY <1>2, <1>4, <1>5
<1>7. f = [x \in DOMAIN f |-> f[x]]
  BY <1>5
<1>8. e = [x \in DOMAIN e |-> e[x]]
  BY DEF NormalizedEvent
<1> HIDE DEF f
<1>9. f = e
  BY <1>6, <1>7, <1>8
<1> QED BY <1>9 DEF f, p

\* What the executor decodes from a reply are the events as they are stored.
LEMMA Decodes ==
    ASSUME IInv, NEW ids \in Seq(DOMAIN byID), NEW d, d = decoded(reply(ids))
    PROVE  /\ d \in Seq(Item) /\ Len(d) = Len(ids)
           /\ \A k \in 1 .. Len(ids) : d[k].id = ids[k] /\ d[k].event = byID[ids[k]]
<1> DEFINE n == Len(ids)
           item(k) == [id |-> ids[k], event |-> byID[ids[k]]]
           sent(k) == [id |-> ids[k], event |-> toProtoEvent(byID[ids[k]])]
<1>1. n \in Nat /\ DOMAIN ids = 1 .. n /\ \A k \in 1 .. n : ids[k] \in DOMAIN byID
  OBVIOUS
<1>2. \A i \in DOMAIN byID : i \in Nat /\ byID[i] \in NormalizedEvent
  BY DEF IInv, TypeOK, PartialFcn
<1>3. \A k \in 1 .. n : item(k) \in Item
  <2> HIDE DEF n
  <2> QED BY <1>1, <1>2 DEF Item
<1>4. \A k \in 1 .. n : [sent(k) EXCEPT !.event = fromProtoEvent(@)] = item(k)
  <2> TAKE k \in 1 .. n
  <2>1. fromProtoEvent(toProtoEvent(byID[ids[k]])) = byID[ids[k]]
    BY <1>1, <1>2, RoundTrip
  <2> QED BY <2>1
<1>5. reply(ids) = [k \in 1 .. n |-> sent(k)]
  BY <1>1 DEF reply
<1> HIDE DEF sent, item, n
<1>6. d = [k \in 1 .. n |-> [sent(k) EXCEPT !.event = fromProtoEvent(@)]]
  BY <1>5 DEF decoded
<1>7. d = [k \in 1 .. n |-> item(k)]
  BY <1>4, <1>6
<1>8. d \in Seq(Item) /\ Len(d) = n
  BY <1>1, <1>3, <1>7
<1>9. \A k \in 1 .. n : d[k] = item(k)
  BY <1>7
<1>10. \A k : item(k).id = ids[k] /\ item(k).event = byID[ids[k]]
  BY DEF item
<1>11. \A k \in 1 .. n : d[k].id = ids[k] /\ d[k].event = byID[ids[k]]
  BY <1>9, <1>10, Zenon
<1> QED BY <1>8, <1>11 DEF n

\* A limit of 0 stays one when it is cut to 32 bits.
LEMMA WrapZero == wrap(0) = 0
<1>1. 0 \in Int /\ 0 \in Nat /\ 0 <= MaxInt32
  BY MaxInt32Assumption
<1>2. /\ wrap(0) \in Int /\ -(MaxInt32 + 1) <= wrap(0) /\ wrap(0) <= MaxInt32
      /\ \E q \in Int : 0 = wrap(0) + (int32Width * q)
  BY <1>1, Wrapped
<1>3. PICK q \in Int : 0 = wrap(0) + (int32Width * q)
  BY <1>2
<1> DEFINE b == wrap(0)
<1> HIDE DEF b
<1>4. b \in Int /\ -(MaxInt32 + 1) <= b /\ b <= MaxInt32 /\ 0 = b + (int32Width * q)
  BY <1>2, <1>3 DEF b
<1>5. b = 0
  BY <1>1, <1>4, Congruent
<1> QED BY <1>5 DEF b

\* The request RunListEvents makes for a step.
listRequest(step) ==
    [Namespace |-> step.Namespace, Reason |-> step.Reason,
     Since |-> toTimestampPB(step.Since), Limit |-> wrap(step.Limit)]

\* ListEvents returns what the step asks for, and all of it if it has no limit.
LEMMA ListReads ==
    ASSUME IInv, NEW step, StepOK(step), step.Method = "ListEvents",
           NEW r \in ListEvents(listRequest(step))
    PROVE  /\ Reads(decoded(r), step)
           /\ step.Limit = 0 => ReadsAll(decoded(r), step)
<1> DEFINE f == listFilter(listRequest(step))
           d == decoded(r)
<1>1. PICK ids \in Query(f) : r = reply(ids)
  BY Zenon DEF ListEvents
<1>2. step.Kind = "" /\ step.Name = ""
  BY DEF StepOK
<1>3. step.Since \in Nat /\ step.Limit \in Int
  BY DEF StepOK
<1>4. f.Since = step.Since /\ f.Limit = wrap(step.Limit)
  BY <1>3, Timestamp DEF listFilter, listRequest
<1>5. f.Namespace = step.Namespace /\ f.ObjectUID = "" /\ f.Reason = step.Reason
  BY DEF listFilter, listRequest
<1>6. f.Limit \in Int /\ (step.Limit = 0 => f.Limit = 0)
  BY <1>3, <1>4, Wrapped, WrapZero
<1> HIDE DEF f
<1>7. Answers(ids, f.Limit, Scan(f))
  BY <1>1, <1>3, <1>4, <1>6, QueryAnswers
<1>8. \A x \in DOMAIN byID : byID[x] \in NormalizedEvent
  BY DEF IInv, TypeOK, PartialFcn
<1>9. \A x \in DOMAIN byID : Matches(f, byID[x]) <=> AskedFor(step, byID[x])
  <2> TAKE x \in DOMAIN byID
  <2>1. byID[x].LastSeen \in Nat
    BY <1>8 DEF NormalizedEvent
  <2>2. (f.Since = 0 \/ byID[x].LastSeen >= f.Since) <=> step.Since <= byID[x].LastSeen
    BY <1>3, <1>4, <2>1
  <2> QED BY <1>2, <1>5, <2>2, Zenon DEF Matches, AskedFor
<1>10. /\ ids \in Seq(Scan(f)) /\ \A i, j \in 1 .. Len(ids) : ids[i] = ids[j] => i = j
       /\ f.Limit = 0 => \A x \in Scan(f) : \E j \in 1 .. Len(ids) : ids[j] = x
  BY <1>7 DEF Answers
<1>11. /\ ids \in Seq(DOMAIN byID)
       /\ \A k \in 1 .. Len(ids) : ids[k] \in DOMAIN byID /\ AskedFor(step, byID[ids[k]])
       /\ Len(ids) \in Nat
  <2>1. \A x \in Scan(f) : x \in DOMAIN byID /\ AskedFor(step, byID[x])
    BY <1>9 DEF Scan
  <2> HIDE DEF d
  <2> QED BY <1>10, <2>1
<1>12. d = decoded(reply(ids))
  BY <1>1
<1> HIDE DEF d
<1>13. /\ d \in Seq(Item) /\ Len(d) = Len(ids)
       /\ \A k \in 1 .. Len(ids) : d[k].id = ids[k] /\ d[k].event = byID[ids[k]]
  BY <1>11, <1>12, Decodes
<1>14. Reads(d, step)
  BY <1>10, <1>11, <1>13 DEF Reads
<1>15. ASSUME step.Limit = 0 PROVE ReadsAll(d, step)
  <2>1. \A x \in DOMAIN byID : AskedFor(step, byID[x]) => \E j \in 1 .. Len(ids) : ids[j] = x
    BY <1>6, <1>9, <1>10, <1>15 DEF Scan
  <2> QED BY <1>13, <2>1 DEF ReadsAll
<1> QED BY <1>14, <1>15 DEF d

\* The request RunGetEventsForObject makes for a step.
objectRequest(step) == [Namespace |-> step.Namespace, Kind |-> step.Kind, Name |-> step.Name]

\* GetEventsForObject returns what the step asks for.
LEMMA ObjectReads ==
    ASSUME IInv, NEW step, StepOK(step), step.Method = "GetEventsForObject",
           NEW r \in GetEventsForObject(objectRequest(step))
    PROVE  Reads(decoded(r), step)
<1> DEFINE req == objectRequest(step)
           f == [Namespace |-> req.Namespace, ObjectUID |-> "", Reason |-> "", Since |-> 0,
                 Limit |-> 0]
           d == decoded(r)
<1>1. PICK ids \in Query(f) : r = reply(matched(ids, req))
  BY Zenon DEF GetEventsForObject
<1>2. f.Since = 0 /\ f.Limit = 0 /\ step.Since = 0
  BY DEF StepOK
<1>3. /\ f.Namespace = step.Namespace /\ req.Kind = step.Kind /\ req.Name = step.Name
      /\ step.Reason = ""
  BY DEF StepOK, objectRequest
<1> HIDE DEF f, req
<1>4. Answers(ids, f.Limit, Scan(f))
  <2>1. f.Since \in Nat /\ f.Limit \in Int
    BY <1>2
  <2> QED BY <1>1, <2>1, QueryAnswers
<1> DEFINE n == Len(ids)
           m == matched(ids, req)
<1>5. /\ n \in Nat /\ ids \in [1 .. n -> Scan(f)]
      /\ \A i, j \in 1 .. n : ids[i] = ids[j] => i = j
  BY <1>4 DEF Answers
<1> HIDE DEF n
<1>6. /\ m \in Seq(Scan(f))
      /\ \A i, j \in 1 .. Len(m) : m[i] = m[j] => i = j
      /\ \A j \in 1 .. Len(m) : involves(m[j], req)
  BY <1>5, MatchedOnes
<1> HIDE DEF m
<1>7. \A x \in Scan(f) : /\ x \in DOMAIN byID /\ byID[x].LastSeen \in Nat
                         /\ step.Namespace \in {"", byID[x].Namespace}
  BY <1>3 DEF Scan, Matches, IInv, TypeOK, PartialFcn, NormalizedEvent
<1>8. /\ m \in Seq(DOMAIN byID) /\ Len(m) \in Nat
      /\ \A k \in 1 .. Len(m) : m[k] \in Scan(f)
  <2>1. Scan(f) \subseteq DOMAIN byID /\ m \in Seq(Scan(f))
    BY <1>6 DEF Scan
  <2> QED BY <2>1
<1>9. \A k \in 1 .. Len(m) : m[k] \in DOMAIN byID /\ AskedFor(step, byID[m[k]])
  <2> TAKE k \in 1 .. Len(m)
  <2>1. /\ m[k] \in DOMAIN byID /\ byID[m[k]].LastSeen \in Nat
        /\ step.Namespace \in {"", byID[m[k]].Namespace}
        /\ byID[m[k]].InvolvedObjectKind = step.Kind /\ byID[m[k]].InvolvedObjectName = step.Name
    BY <1>3, <1>6, <1>7, <1>8, Zenon DEF involves
  <2>2. step.Since <= byID[m[k]].LastSeen
    <3>1. byID[m[k]].LastSeen \in Nat
      BY <2>1
    <3> QED BY <1>2, <3>1
  <2> QED BY <1>3, <2>1, <2>2, Zenon DEF AskedFor
<1>10. d = decoded(reply(m))
  BY <1>1 DEF m
<1> HIDE DEF d
<1>11. /\ d \in Seq(Item) /\ Len(d) = Len(m)
       /\ \A k \in 1 .. Len(m) : d[k].id = m[k] /\ d[k].event = byID[m[k]]
  BY <1>8, <1>10, Decodes
<1>12. Reads(d, step)
  BY <1>6, <1>9, <1>11 DEF Reads
<1> QED BY <1>12 DEF d


-----------------------------------------------------------------------------
(***************************************************************************)
(* The store between two calls                                             *)
(***************************************************************************)
\* new is a later state of the episode old.
Grew(old, new) ==
    /\ dedupKey(old) = dedupKey(new) /\ old.Namespace = new.Namespace
    /\ old.InvolvedObjectName = new.InvolvedObjectName
    /\ old.Count <= new.Count /\ old.LastSeen <= new.LastSeen
    /\ old.FirstSeen # 0 => new.FirstSeen \in 1 .. old.FirstSeen

LEMMA EventTyped ==
    ASSUME NEW e \in NormalizedEvent
    PROVE  e.Count \in Nat /\ e.FirstSeen \in Nat /\ e.LastSeen \in Nat
BY DEF NormalizedEvent

LEMMA GrewSame ==
    ASSUME NEW e \in NormalizedEvent
    PROVE  Grew(e, e)
<1>1. e.Count <= e.Count /\ e.LastSeen <= e.LastSeen
      /\ (e.FirstSeen # 0 => e.FirstSeen \in 1 .. e.FirstSeen)
  BY EventTyped
<1> QED BY <1>1, Zenon DEF Grew

LEMMA GrewOn ==
    ASSUME NEW a \in NormalizedEvent, NEW b \in NormalizedEvent, NEW c \in NormalizedEvent,
           Grew(a, b), Grew(b, c)
    PROVE  Grew(a, c)
<1>1. /\ a.Count \in Nat /\ a.FirstSeen \in Nat /\ a.LastSeen \in Nat
      /\ b.Count \in Nat /\ b.FirstSeen \in Nat /\ b.LastSeen \in Nat
      /\ c.Count \in Nat /\ c.FirstSeen \in Nat /\ c.LastSeen \in Nat
  BY EventTyped
<1>2. /\ a.Count <= b.Count /\ a.LastSeen <= b.LastSeen
      /\ a.FirstSeen # 0 => b.FirstSeen \in 1 .. a.FirstSeen
      /\ b.Count <= c.Count /\ b.LastSeen <= c.LastSeen
      /\ b.FirstSeen # 0 => c.FirstSeen \in 1 .. b.FirstSeen
  BY Zenon DEF Grew
<1>3. /\ a.Count <= c.Count /\ a.LastSeen <= c.LastSeen
      /\ a.FirstSeen # 0 => c.FirstSeen \in 1 .. a.FirstSeen
  BY <1>1, <1>2
<1> QED BY <1>3, Zenon DEF Grew

\* Every stored episode lasts from its first to its last time.
Times == \A i \in DOMAIN byID : byID[i].FirstSeen <= byID[i].LastSeen

\* What the watcher may do to the store between two calls of a request: IDs
\* are never used again, and the episodes that remain have grown.
Advances ==
    /\ nextID' \in Nat /\ nextID <= nextID'
    /\ \A i \in DOMAIN byID' : i \in DOMAIN byID \/ nextID <= i
    /\ \A i \in DOMAIN byID \cap DOMAIN byID' : Grew(byID[i], byID'[i])
    /\ Times => Times'

LEMMA StoredTyped ==
    ASSUME IInv
    PROVE  /\ nextID \in Nat
           /\ \A i \in DOMAIN byID : i \in Nat /\ i < nextID /\ byID[i] \in NormalizedEvent
<1>1. maxSize \in Nat /\ nextID \in Nat /\ DOMAIN byID = oldest .. nextID - 1
  BY MaxSizePositive DEF IInv, RingWindow, TypeOK
<1>2. \A i \in DOMAIN byID : i \in Nat /\ byID[i] \in NormalizedEvent
  BY DEF IInv, TypeOK, PartialFcn
<1>3. \A i \in DOMAIN byID : i < nextID
  BY <1>1, <1>2
<1> QED BY <1>1, <1>2, <1>3

LEMMA AddAdvances ==
    ASSUME IInv, NEW e \in Incoming, Add(e)
    PROVE  Advances
<1>1. e \in NormalizedEvent /\ e.FirstSeen <= e.LastSeen
  BY IncomingAssumption, TimesAssumption
<1>2. /\ nextID \in Nat
      /\ \A i \in DOMAIN byID : i \in Nat /\ i < nextID /\ byID[i] \in NormalizedEvent
  BY StoredTyped
<1>3. CASE Update(e)
  <2> DEFINE id == latestID(e)
             x == byID[id]
             y == updated(x, e)
  <2>1. /\ id \in DOMAIN byID /\ isSameBurst(e, x) /\ nextID' = nextID
        /\ byID' = [byID EXCEPT ![id] = y]
    BY <1>3 DEF Update, Continues
  <2>2. x \in NormalizedEvent
    BY <1>2, <2>1
  <2> HIDE DEF id, x
  <2>3. /\ y.Namespace = x.Namespace /\ y.InvolvedObjectName = x.InvolvedObjectName
        /\ dedupKey(y) = dedupKey(x)
    BY <1>1, <2>2 DEF updated, NormalizedEvent, dedupKey
  <2>4. /\ y.Count = e.Count
        /\ y.LastSeen = IF e.LastSeen > x.LastSeen THEN e.LastSeen ELSE x.LastSeen
        /\ y.FirstSeen = IF e.FirstSeen # 0 /\ (x.FirstSeen = 0 \/ e.FirstSeen < x.FirstSeen)
                         THEN e.FirstSeen ELSE x.FirstSeen
    BY <1>1, <2>2, UpdatedEvent
  <2>5. x.Count <= e.Count /\ x.Count \in Nat /\ e.Count \in Nat
    BY <1>1, <2>1, <2>2, EventTyped DEF isSameBurst
  <2>6. /\ x.LastSeen \in Nat /\ x.FirstSeen \in Nat /\ e.LastSeen \in Nat /\ e.FirstSeen \in Nat
        /\ e.FirstSeen <= e.LastSeen
    BY <1>1, <2>2, EventTyped
  <2> HIDE DEF y
  <2>7. /\ x.LastSeen <= y.LastSeen
        /\ x.FirstSeen # 0 => y.FirstSeen \in 1 .. x.FirstSeen
        /\ x.FirstSeen <= x.LastSeen => y.FirstSeen <= y.LastSeen
    BY <2>4, <2>6
  <2>8. x.Count <= y.Count
    BY <2>4, <2>5
  <2>9. Grew(x, y)
    BY <2>3, <2>7, <2>8, Zenon DEF Grew
  <2>10. DOMAIN byID' = DOMAIN byID /\ \A i \in DOMAIN byID : byID'[i] = IF i = id THEN y ELSE byID[i]
    BY <2>1
  <2>11. \A i \in DOMAIN byID : Grew(byID[i], byID'[i])
    BY <1>2, <2>9, <2>10, GrewSame, Zenon DEF x
  <2>12. Times => Times'
    BY <2>1, <2>7, <2>10, Zenon DEF Times, x
  <2>13. nextID' \in Nat /\ nextID <= nextID'
    BY <1>2, <2>1
  <2> QED BY <2>10, <2>11, <2>12, <2>13, Zenon DEF Advances
<1>4. CASE Insert(e)
  <2> DEFINE m == IF full THEN evict(order[head]) ELSE maps
  <2>1. /\ \A i \in DOMAIN m.byID : m.byID[i] = byID[i]
        /\ DOMAIN m.byID = {i \in DOMAIN byID : i > nextID - maxSize}
    BY <1>4, AfterEvict
  <2>2. byID' = put(m.byID, nextID, e) /\ nextID' = nextID + 1
    BY <1>4 DEF Insert
  <2> HIDE DEF m
  <2>3. /\ \A i \in DOMAIN byID' : i = nextID \/ (i \in DOMAIN byID /\ i # nextID /\ byID'[i] = byID[i])
        /\ byID'[nextID] = e
    <3>1. nextID \notin DOMAIN byID
      BY <1>2
    <3>2. DOMAIN byID' = DOMAIN m.byID \cup {nextID}
      BY <2>2 DEF put
    <3>3. \A i \in DOMAIN byID' : byID'[i] = IF i = nextID THEN e ELSE m.byID[i]
      BY <2>2 DEF put
    <3> QED BY <2>1, <3>1, <3>2, <3>3
  <2>4. nextID <= nextID /\ nextID' \in Nat /\ nextID <= nextID'
    BY <1>2, <2>2
  <2>5. \A i \in DOMAIN byID \cap DOMAIN byID' : byID'[i] = byID[i]
    <3>1. nextID \notin DOMAIN byID
      BY <1>2
    <3> QED BY <2>3, <3>1
  <2>6. \A i \in DOMAIN byID \cap DOMAIN byID' : Grew(byID[i], byID'[i])
    BY <1>2, <2>5, GrewSame
  <2>7. Times => Times'
    BY <1>1, <2>3, Zenon DEF Times
  <2>8. \A i \in DOMAIN byID' : i \in DOMAIN byID \/ nextID <= i
    BY <2>3, <2>4, Zenon
  <2> QED BY <2>4, <2>6, <2>7, <2>8, Zenon DEF Advances
<1> QED BY <1>3, <1>4 DEF Add

LEMMA SameAdvances ==
    ASSUME IInv, UNCHANGED vars
    PROVE  Advances
<1>1. nextID' = nextID /\ byID' = byID
  BY DEF vars
<1>2. /\ nextID \in Nat
      /\ \A i \in DOMAIN byID : i \in Nat /\ i < nextID /\ byID[i] \in NormalizedEvent
  BY StoredTyped
<1>3. nextID <= nextID
  BY <1>2
<1>4. \A i \in DOMAIN byID : Grew(byID[i], byID[i])
  BY <1>2, GrewSame
<1> QED BY <1>1, <1>2, <1>3, <1>4, Zenon DEF Advances, Times


-----------------------------------------------------------------------------
(***************************************************************************)
(* The inductive invariant of a request                                    *)
(***************************************************************************)
Shape(s) == s = [plan |-> s.plan, next |-> s.next, events |-> s.events, groups |-> s.groups,
                 stored |-> s.stored, answered |-> s.answered]

SessionOK ==
    /\ Shape(session) /\ Planned(session.plan)
    /\ session.next \in Nat \ {0}
    /\ session.answered \subseteq 1 .. Len(session.plan)
    /\ \A i \in session.answered : i < session.next
    /\ session.events \in Seq(Item)

\* A collected event was asked for by a call that succeeded, and its ID is not
\* one that a later event may get.
ItemOK(c, s, b, id) ==
    /\ c.id < id
    /\ \E i \in s.answered : Collecting(s.plan[i]) /\ AskedFor(s.plan[i], c.event)
    /\ c.event.FirstSeen <= c.event.LastSeen
    /\ c.id \in DOMAIN b => Grew(c.event, b[c.id])

EventsOK ==
    \A k \in 1 .. Len(session.events) : ItemOK(session.events[k], session, byID, nextID)

\* The episodes that were stored when the summary was made.
StoredOK ==
    /\ IsFiniteSet(DOMAIN session.stored)
    /\ \A i \in DOMAIN session.stored :
         /\ i \in Nat /\ session.stored[i] \in NormalizedEvent /\ i < nextID
         /\ i \in DOMAIN byID => Grew(session.stored[i], byID[i])

\* Does the step ask for the event, the reason aside?
About(step, e) == step.Namespace \in {"", e.Namespace} /\ step.Since <= e.LastSeen

\* The episodes that a summary counts for a reason.
Counted(st, step, r) == {i \in DOMAIN st : st[i].Reason = r /\ About(step, st[i])}

LineType == [count : Int, objects : SUBSET STRING, lastSeen : Seq(Nat)]

SumsStored(g, st, G) ==
    /\ G # {} /\ g \in LineType
    /\ g.count <= SumFunction([i \in G |-> st[i].Count])
    /\ g.objects = {st[i].InvolvedObjectName : i \in G}
    /\ \E i \in G : g.lastSeen = <<st[i].LastSeen>>

SummedBy(s, p) ==
    /\ s.plan[p].Method = "GetNamespaceSummary"
    /\ \A r \in DOMAIN s.groups :
         SumsStored(s.groups[r], s.stored, Counted(s.stored, s.plan[p], r))

Summed(s) == DOMAIN s.groups = {} \/ \E p \in s.answered : SummedBy(s, p)

\* Are all episodes of the reason still stored that were when the summary was made?
Present(r) == \A i \in DOMAIN session.stored : session.stored[i].Reason = r => i \in DOMAIN byID

CollectedFrom(i) ==
    \E k \in 1 .. Len(session.events) :
       session.events[k].id = i /\ Grew(session.stored[i], session.events[k].event)

\* Once the events of a reason are listed without a limit, every episode that the
\* summary counts is collected, as it was then or later.
Covers ==
    \A p \in session.answered, i \in DOMAIN session.stored :
       /\ session.plan[p].Method = "GetNamespaceSummary" /\ About(session.plan[p], session.stored[i])
       /\ Listed(session.stored[i].Reason) /\ Present(session.stored[i].Reason)
       => CollectedFrom(i)

SInv == /\ IInv /\ Times /\ SessionOK /\ CollectedOnce /\ EventsOK /\ StoredOK
        /\ Summed(session) /\ Covers

\* Initially nothing is asked or collected.
LEMMA ServerInitInv == ServerInit => SInv
<1> SUFFICES ASSUME ServerInit PROVE SInv
  OBVIOUS
<1>1. IInv
  BY InitInv DEF ServerInit
<1>2. PICK q \in Questions : session = newSession(Plan(q))
  BY DEF ServerInit
<1>3. q.Since \in Nat /\ q.Limit \in Int
  BY QuestionAssumption
<1>4. Planned(Plan(q))
  BY <1>3, PlansPlanned
<1>5. /\ Shape(session) /\ session.plan = Plan(q) /\ session.next = 1 /\ session.events = <<>>
      /\ DOMAIN session.groups = {} /\ DOMAIN session.stored = {} /\ session.answered = {}
  BY <1>2 DEF newSession, Shape, emptyMap
<1>6. SessionOK
  <2>1. session.next \in Nat \ {0} /\ session.events \in Seq(Item)
    BY <1>5
  <2> QED BY <1>4, <1>5, <2>1, Zenon DEF SessionOK
<1>7. Times
  BY DEF ServerInit, Init, emptyMap, Times
<1>8. DOMAIN session.events = {} /\ \A k \in 1 .. Len(session.events) : FALSE
  BY <1>5
<1>9. CollectedOnce /\ EventsOK
  BY <1>8, Zenon DEF CollectedOnce, EventsOK
<1>10. IsFiniteSet(DOMAIN session.stored)
  BY <1>5, FS_EmptySet
<1>11. StoredOK /\ Summed(session) /\ Covers
  BY <1>5, <1>10, Zenon DEF StoredOK, Summed, Covers
<1> QED BY <1>1, <1>6, <1>7, <1>9, <1>11 DEF SInv

\* The watcher adds an event between two calls.
LEMMA WatcherKeeps ==
    ASSUME SInv, IInv', Advances, session' = session
    PROVE  SInv'
<1>1. /\ nextID \in Nat
      /\ \A i \in DOMAIN byID : i \in Nat /\ i < nextID /\ byID[i] \in NormalizedEvent
  BY StoredTyped DEF SInv
<1>2. /\ nextID' \in Nat
      /\ \A i \in DOMAIN byID' : i \in Nat /\ i < nextID' /\ byID'[i] \in NormalizedEvent
  <2>1. (IInv => /\ nextID \in Nat
                 /\ \A i \in DOMAIN byID : i \in Nat /\ i < nextID /\ byID[i] \in NormalizedEvent)'
    BY StoredTyped, PTL
  <2> QED BY <2>1
<1>3. \A i \in Nat : i < nextID => i < nextID'
  BY <1>1, <1>2 DEF Advances
<1>4. \A i \in Nat : i < nextID /\ i \in DOMAIN byID' => i \in DOMAIN byID
  <2>1. \A i \in Nat : i < nextID => ~ (nextID <= i)
    BY <1>1
  <2> QED BY <2>1, Zenon DEF Advances
<1>5. ASSUME NEW i \in Nat, i < nextID, i \in DOMAIN byID', NEW a \in NormalizedEvent,
             i \in DOMAIN byID => Grew(a, byID[i])
      PROVE  Grew(a, byID'[i])
  <2>1. i \in DOMAIN byID /\ Grew(a, byID[i]) /\ Grew(byID[i], byID'[i])
    BY <1>4, <1>5, Zenon DEF Advances
  <2>2. byID[i] \in NormalizedEvent /\ byID'[i] \in NormalizedEvent
    BY <1>1, <1>2, <1>5, <2>1, Zenon
  <2> QED BY <2>1, <2>2, GrewOn
<1>6. Times' /\ SessionOK' /\ CollectedOnce' /\ Summed(session')
  BY Zenon DEF SInv, Advances, SessionOK, CollectedOnce
<1>7. EventsOK'
  <2> SUFFICES ASSUME NEW k \in 1 .. Len(session.events)
               PROVE  ItemOK(session.events[k], session, byID', nextID')
    BY Zenon DEF EventsOK
  <2> DEFINE c == session.events[k]
  <2>1. c \in Item /\ ItemOK(c, session, byID, nextID)
    BY DEF SInv, EventsOK, SessionOK
  <2>2. c.id \in Nat /\ c.event \in NormalizedEvent
    BY <2>1 DEF Item
  <2> HIDE DEF c
  <2>3. c.id < nextID' /\ (c.id \in DOMAIN byID' => Grew(c.event, byID'[c.id]))
    BY <1>3, <1>5, <2>1, <2>2, Zenon DEF ItemOK
  <2> QED BY <2>1, <2>3, Zenon DEF ItemOK, c
<1>8. StoredOK'
  <2>1. \A i \in DOMAIN session.stored :
          i < nextID' /\ (i \in DOMAIN byID' => Grew(session.stored[i], byID'[i]))
    BY <1>3, <1>5, Zenon DEF SInv, StoredOK
  <2> QED BY <2>1, Zenon DEF SInv, StoredOK
<1>9. Covers'
  <2>1. \A r : Present(r)' => Present(r)
    BY <1>4, Zenon DEF Present, SInv, StoredOK
  <2>2. \A r : Listed(r)' => Listed(r)
    BY Zenon DEF Listed
  <2> QED BY <2>1, <2>2, Zenon DEF SInv, Covers, CollectedFrom
<1> QED BY <1>6, <1>7, <1>8, <1>9, Zenon DEF SInv


\* A step that changes nothing but the position in the plan.
LEMMA PassKeeps ==
    ASSUME SInv, UNCHANGED vars, session'.next = session.next + 1, Shape(session'),
           session'.plan = session.plan, session'.events = session.events,
           session'.groups = session.groups, session'.stored = session.stored,
           session'.answered = session.answered
    PROVE  SInv'
<1>1. IInv'
  BY NextInv DEF SInv
<1>2. byID' = byID /\ nextID' = nextID
  BY DEF vars
<1>3. SessionOK'
  <2>1. session.next \in Nat /\ session.next + 1 \in Nat \ {0}
    BY DEF SInv, SessionOK
  <2>2. \A i \in session.answered : i < session.next + 1
    <3>1. \A i \in session.answered : i \in Int /\ i < session.next
      BY DEF SInv, SessionOK
    <3> QED BY <2>1, <3>1
  <2> QED BY <2>1, <2>2, Zenon DEF SInv, SessionOK
<1>4. Times' /\ CollectedOnce'
  BY <1>2, Zenon DEF SInv, Times, CollectedOnce
<1>5. EventsOK' /\ StoredOK'
  BY <1>2, Zenon DEF SInv, EventsOK, ItemOK, StoredOK
<1>6. Summed(session')
  BY Zenon DEF SInv, Summed, SummedBy
<1>7. Covers'
  <2>1. \A x : Listed(x)' => Listed(x)
    BY Zenon DEF Listed
  <2>2. \A x : Present(x)' => Present(x)
    BY <1>2, Zenon DEF Present
  <2>3. \A i : CollectedFrom(i) => CollectedFrom(i)'
    BY Zenon DEF CollectedFrom
  <2> QED BY <2>1, <2>2, <2>3, Zenon DEF SInv, Covers
<1> QED BY <1>1, <1>3, <1>4, <1>5, <1>6, <1>7, Zenon DEF SInv

\* A call that collects events.
LEMMA CollectKeeps ==
    ASSUME SInv, UNCHANGED vars, session.next <= Len(session.plan),
           NEW d, Collecting(session.plan[session.next]), Reads(d, session.plan[session.next]),
           session.plan[session.next].Method = "ListEvents" /\ session.plan[session.next].Limit = 0
             => ReadsAll(d, session.plan[session.next]),
           session'.next = session.next + 1, Shape(session'),
           session'.plan = session.plan, session'.events = session.events \o d,
           session'.groups = session.groups, session'.stored = session.stored,
           session'.answered = session.answered \cup {session.next}
    PROVE  SInv'
<1> DEFINE n == session.next
           step == session.plan[n]
           E == session.events
<1>1. IInv'
  BY NextInv DEF SInv
<1>2. byID' = byID /\ nextID' = nextID
  BY DEF vars
<1>3. session'.next = n + 1 /\ session'.events = E \o d /\ session'.answered = session.answered \cup {n}
  OBVIOUS
<1>4. /\ n \in Nat \ {0} /\ n <= Len(session.plan) /\ n \in 1 .. Len(session.plan)
      /\ \A i \in session.answered : i \in 1 .. Len(session.plan) /\ i < n
      /\ Planned(session.plan) /\ StepOK(step) /\ n \notin session.answered
  <2>1. n \in Nat \ {0} /\ Planned(session.plan) /\ Len(session.plan) \in Nat
    BY DEF SInv, SessionOK, Planned
  <2>2. n \in 1 .. Len(session.plan)
    BY <2>1
  <2>3. \A i \in session.answered : i \in 1 .. Len(session.plan) /\ i < n
    BY DEF SInv, SessionOK
  <2>4. StepOK(step)
    BY <2>1, <2>2, Zenon DEF Planned
  <2>5. ~ (n < n)
    BY <2>1
  <2> QED BY <2>1, <2>2, <2>3, <2>4, <2>5, Zenon
<1>5. /\ E \in Seq(Item) /\ d \in Seq(Item) /\ Len(E) \in Nat /\ Len(d) \in Nat
      /\ \A k \in 1 .. Len(E) : E[k] \in Item
      /\ \A k \in 1 .. Len(d) : d[k] \in Item
  BY DEF SInv, SessionOK, Reads
<1> DEFINE F == E \o d
<1> HIDE DEF n, step, E
<1>6. /\ F \in Seq(Item) /\ Len(F) = Len(E) + Len(d) /\ DOMAIN F = 1 .. Len(F)
      /\ \A k \in 1 .. Len(E) : k \in 1 .. Len(F) /\ F[k] = E[k]
      /\ \A k \in 1 .. Len(d) : Len(E) + k \in 1 .. Len(F) /\ F[Len(E) + k] = d[k]
  BY <1>5
<1>7. \A k \in 1 .. Len(F) : k \in 1 .. Len(E) \/ \E l \in 1 .. Len(d) : k = Len(E) + l
  <2> TAKE k \in 1 .. Len(F)
  <2>1. k \in 1 .. Len(E) \/ (k - Len(E) \in 1 .. Len(d) /\ k = Len(E) + (k - Len(E)))
    BY <1>5, <1>6
  <2> QED BY <2>1, Zenon
<1> HIDE DEF F
<1>8. /\ \A i, j \in 1 .. Len(d) : d[i].id = d[j].id => i = j
      /\ \A k \in 1 .. Len(d) : /\ d[k].id \in DOMAIN byID /\ d[k].event = byID[d[k].id]
                                /\ AskedFor(step, d[k].event)
  BY DEF Reads, step, n
<1>9. /\ nextID \in Nat
      /\ \A i \in DOMAIN byID : i \in Nat /\ i < nextID /\ byID[i] \in NormalizedEvent
  BY StoredTyped DEF SInv
<1>10. SessionOK'
  <2>1. n + 1 \in Nat \ {0} /\ \A i \in session.answered \cup {n} : i < n + 1
    BY <1>4
  <2>2. session.answered \cup {n} \subseteq 1 .. Len(session.plan)
    BY <1>4, Zenon
  <2> QED BY <1>3, <1>4, <1>6, <2>1, <2>2, Zenon DEF SessionOK, F
<1>11. ASSUME NEW k \in 1 .. Len(E), NEW l \in 1 .. Len(d) PROVE E[k].id # d[l].id
  <2> SUFFICES ASSUME E[k].id = d[l].id PROVE FALSE
    OBVIOUS
  <2> DEFINE e == E[k].event
             x == byID[d[l].id]
  <2>1. ItemOK(E[k], session, byID, nextID)
    BY DEF SInv, EventsOK, E
  <2>2. Grew(e, x) /\ AskedFor(step, x)
    BY <1>8, <2>1, Zenon DEF ItemOK
  <2>3. PICK i \in session.answered : Collecting(session.plan[i]) /\ AskedFor(session.plan[i], e)
    BY <2>1 DEF ItemOK
  <2>4. Disjoint(session.plan[i], step) /\ Disjoint(step, session.plan[i])
    BY <1>4, Zenon DEF Planned, step
  <2> DEFINE a == session.plan[i].Reason
             b == step.Reason
  <2>5. a \notin {"", b} /\ b \notin {"", a}
    BY <2>3, <2>4, Zenon DEF Disjoint, step, n
  <2>6. a \in {"", e.Reason} /\ b \in {"", x.Reason}
    BY <2>2, <2>3, Zenon DEF AskedFor
  <2>7. e.Reason = x.Reason
    BY <2>2 DEF Grew, dedupKey
  <2> QED BY <2>5, <2>6, <2>7, Zenon
<1>12. CollectedOnce'
  <2>1. \A i, j \in DOMAIN E : i # j => E[i].id # E[j].id
    BY Zenon DEF SInv, CollectedOnce, E
  <2>2. DOMAIN E = 1 .. Len(E)
    BY <1>5
  <2>3. ASSUME NEW i \in 1 .. Len(F), NEW j \in 1 .. Len(F), i # j PROVE F[i].id # F[j].id
    <3>1. CASE i \in 1 .. Len(E) /\ j \in 1 .. Len(E)
      BY <1>6, <2>1, <2>2, <2>3, <3>1, Zenon
    <3>2. CASE i \in 1 .. Len(E) /\ \E l \in 1 .. Len(d) : j = Len(E) + l
      <4>1. PICK l \in 1 .. Len(d) : j = Len(E) + l
        BY <3>2
      <4>2. F[j] = d[l] /\ F[i] = E[i]
        BY <1>6, <3>2, <4>1
      <4> QED BY <1>11, <3>2, <4>2
    <3>3. CASE j \in 1 .. Len(E) /\ \E l \in 1 .. Len(d) : i = Len(E) + l
      <4>1. PICK l \in 1 .. Len(d) : i = Len(E) + l
        BY <3>3
      <4>2. F[i] = d[l] /\ F[j] = E[j]
        BY <1>6, <3>3, <4>1
      <4> QED BY <1>11, <3>3, <4>2
    <3>4. CASE (\E l \in 1 .. Len(d) : i = Len(E) + l) /\ (\E l \in 1 .. Len(d) : j = Len(E) + l)
      <4>1. PICK l \in 1 .. Len(d) : i = Len(E) + l
        BY <3>4
      <4>2. PICK m \in 1 .. Len(d) : j = Len(E) + m
        BY <3>4
      <4>3. F[i] = d[l] /\ F[j] = d[m] /\ l # m
        BY <1>6, <2>3, <4>1, <4>2
      <4> QED BY <1>8, <4>3
    <3> QED BY <1>7, <3>1, <3>2, <3>3, <3>4, Zenon
  <2> QED BY <1>3, <1>6, <2>3, ZenonT(30) DEF CollectedOnce, F
<1>13. EventsOK'
  <2> DEFINE ok(c) == ItemOK(c, session', byID', nextID')
  <2>1. \A k \in 1 .. Len(E) : ok(E[k])
    BY <1>2, <1>3, Zenon DEF SInv, EventsOK, ItemOK, E
  <2>2. ASSUME NEW l \in 1 .. Len(d) PROVE ok(d[l])
    <3> DEFINE i == d[l].id
    <3>1. i \in DOMAIN byID /\ d[l].event = byID[i] /\ AskedFor(step, d[l].event)
      BY <1>8
    <3>2. i < nextID /\ byID[i] \in NormalizedEvent /\ byID[i].FirstSeen <= byID[i].LastSeen
      BY <1>9, <3>1, Zenon DEF SInv, Times
    <3>3. Grew(byID[i], byID[i])
      BY <3>2, GrewSame
    <3>4. n \in session'.answered /\ session'.plan[n] = step
      BY <1>3, Zenon DEF step
    <3>5. Collecting(step)
      BY Zenon DEF step, n
    <3> QED BY <1>2, <3>1, <3>2, <3>3, <3>4, <3>5, Zenon DEF ItemOK
  <2> HIDE DEF ok
  <2>3. \A k \in 1 .. Len(F) : ok(F[k])
    BY <1>6, <1>7, <2>1, <2>2, Zenon
  <2> QED BY <1>3, <2>3, Zenon DEF EventsOK, F, ok
<1>14. Times' /\ StoredOK' /\ Summed(session')
  <2>1. Times' /\ StoredOK'
    BY <1>2, <1>3, Zenon DEF SInv, Times, StoredOK
  <2>2. Summed(session')
    BY <1>3, Zenon DEF SInv, Summed, SummedBy
  <2> QED BY <2>1, <2>2
<1>15. Covers'
  <2> SUFFICES ASSUME NEW p \in session'.answered, NEW i \in DOMAIN session.stored,
                      session.plan[p].Method = "GetNamespaceSummary",
                      About(session.plan[p], session.stored[i]),
                      Listed(session.stored[i].Reason)', Present(session.stored[i].Reason)'
               PROVE  CollectedFrom(i)'
    BY <1>3, Zenon DEF Covers
  <2> DEFINE r == session.stored[i].Reason
  <2>1. Present(r) /\ i \in DOMAIN byID
    BY <1>2, <1>3, Zenon DEF Present
  <2>2. p \in session.answered
    <3>1. step.Method # "GetNamespaceSummary"
      BY DEF Collecting, step, n
    <3> QED BY <1>3, <3>1, Zenon DEF step
  <2>3. CASE Listed(r)
    <3>1. CollectedFrom(i)
      BY <2>1, <2>2, <2>3, Zenon DEF SInv, Covers
    <3> QED BY <1>3, <1>6, <3>1, Zenon DEF CollectedFrom, E, F
  <2>4. CASE ~ Listed(r)
    <3>1. step.Method = "ListEvents" /\ step.Limit = 0 /\ step.Reason \in {"", r}
      BY <1>3, <2>4, Zenon DEF Listed, step
    <3>2. ReadsAll(d, step) /\ step.Kind = "" /\ step.Name = ""
      BY <1>4, <3>1, Zenon DEF step, n, StepOK
    <3>3. step.Namespace = session.plan[p].Namespace /\ step.Since = session.plan[p].Since
      BY <1>4, <2>2, <3>1, Zenon DEF Planned, Summarized, step
    <3> DEFINE x == byID[i]
               e == session.stored[i]
    <3>4. Grew(e, x) /\ e \in NormalizedEvent /\ x \in NormalizedEvent
      BY <1>9, <2>1, Zenon DEF SInv, StoredOK
    <3>5. step.Since <= x.LastSeen
      <4>1. e.LastSeen \in Nat /\ x.LastSeen \in Nat
        BY <3>4, EventTyped
      <4>2. e.LastSeen <= x.LastSeen
        BY <3>4, Zenon DEF Grew
      <4>3. step.Since \in Nat
        BY <1>4 DEF StepOK
      <4>4. step.Since <= e.LastSeen
        BY <3>3, Zenon DEF About
      <4> HIDE DEF e, x
      <4> QED BY <4>1, <4>2, <4>3, <4>4
    <3>6. e.Namespace = x.Namespace /\ e.Reason = x.Reason
      BY <3>4 DEF Grew, dedupKey
    <3>7. step.Namespace \in {"", x.Namespace} /\ step.Reason \in {"", x.Reason}
      BY <3>1, <3>3, <3>6, Zenon DEF About
    <3>8. AskedFor(step, x)
      BY <3>2, <3>5, <3>7, Zenon DEF AskedFor
    <3>9. PICK l \in 1 .. Len(d) : d[l].id = i
      BY <2>1, <3>2, <3>8, Zenon DEF ReadsAll
    <3>10. d[l].event = x
      BY <1>8, <3>9, Zenon
    <3>11. F[Len(E) + l].id = i /\ F[Len(E) + l].event = x /\ Len(E) + l \in 1 .. Len(F)
      BY <1>6, <3>9, <3>10, Zenon
    <3>12. session'.events = F
      BY <1>3 DEF F
    <3> QED BY <1>3, <3>4, <3>11, <3>12, Zenon DEF CollectedFrom
  <2> QED BY <2>3, <2>4
<1> QED BY <1>1, <1>10, <1>12, <1>13, <1>14, <1>15, Zenon DEF SInv


-----------------------------------------------------------------------------
(***************************************************************************)
(* Sums                                                                    *)
(***************************************************************************)
\* A sum grows with the set it is taken over.
LEMMA SumMonotone ==
    ASSUME NEW T, IsFiniteSet(T), NEW d \in [T -> Nat], NEW tot, Totals(tot, T, d)
    PROVE  \A U \in SUBSET T : tot[U] <= tot[T]
<1> DEFINE P == {n \in Nat : \A U \in SUBSET T : Cardinality(T \ U) = n => tot[U] <= tot[T]}
<1>1. /\ \A s \in SUBSET T : tot[s] \in Nat
      /\ \A s \in SUBSET T : \A x \in s : tot[s] = tot[s \ {x}] + d[x]
  BY DEF Totals
<1>2. 0 \in P
  <2> SUFFICES ASSUME NEW U \in SUBSET T, Cardinality(T \ U) = 0 PROVE tot[U] <= tot[T]
    OBVIOUS
  <2>1. T \ U = {}
    BY FS_EmptySet, FS_Subset
  <2>2. U = T /\ tot[T] \in Nat
    BY <1>1, <2>1
  <2> QED BY <2>2
<1>3. ASSUME NEW n \in P PROVE n + 1 \in P
  <2>1. n \in Nat
    OBVIOUS
  <2> SUFFICES ASSUME NEW U \in SUBSET T, Cardinality(T \ U) = n + 1 PROVE tot[U] <= tot[T]
    BY <2>1
  <2>2. IsFiniteSet(T \ U) /\ T \ U # {}
    <3>1. IsFiniteSet(T \ U)
      BY FS_Subset
    <3>2. Cardinality({}) = 0 /\ n + 1 # 0
      BY <2>1, FS_EmptySet
    <3> QED BY <3>1, <3>2
  <2>3. PICK x : x \in T \ U
    BY <2>2
  <2> DEFINE V == U \cup {x}
  <2>4. Cardinality(T \ V) = n
    <3>1. T \ V = (T \ U) \ {x}
      OBVIOUS
    <3> HIDE DEF V
    <3>2. Cardinality((T \ U) \ {x}) = Cardinality(T \ U) - 1
      BY <2>2, <2>3, FS_RemoveElement
    <3>3. Cardinality(T \ V) = (n + 1) - 1
      BY <3>1, <3>2, Zenon
    <3>4. (n + 1) - 1 = n
      BY <2>1
    <3> QED BY <3>3, <3>4, Zenon
  <2>5. V \in SUBSET T /\ V \ {x} = U /\ x \in V /\ x \in T
    BY <2>3
  <2> HIDE DEF V
  <2>6. tot[V] <= tot[T]
    BY <2>4, <2>5
  <2>7. tot[V] = tot[U] + d[x] /\ tot[V] \in Nat /\ tot[U] \in Nat /\ tot[T] \in Nat /\ d[x] \in Nat
    BY <1>1, <2>5
  <2> QED BY <2>6, <2>7
<1>4. Nat \subseteq P
  <2>1. P \subseteq Nat
    OBVIOUS
  <2> HIDE DEF P
  <2> QED BY <1>2, <1>3, <2>1, Induction
<1>5. ASSUME NEW U \in SUBSET T PROVE tot[U] <= tot[T]
  <2>1. IsFiniteSet(T \ U)
    BY FS_Subset
  <2>2. Cardinality(T \ U) \in Nat
    BY <2>1, FS_CardinalityType
  <2> QED BY <1>4, <2>2
<1> QED BY <1>5

\* A sum whose terms are bounded by different terms of another one is bounded by it.
LEMMA SumDominated ==
    ASSUME NEW S, IsFiniteSet(S), NEW c \in [S -> Nat], NEW T, IsFiniteSet(T), NEW d \in [T -> Nat],
           NEW h \in [S -> T], \A x, y \in S : h[x] = h[y] => x = y,
           \A x \in S : c[x] <= d[h[x]]
    PROVE  SumFunction(c) <= SumFunction(d)
<1>1. PICK tc : Totals(tc, S, c) /\ SumFunction(c) = tc[S]
  BY SumTotals
<1>2. PICK td : Totals(td, T, d) /\ SumFunction(d) = td[T]
  BY SumTotals
<1> DEFINE img(s) == {h[x] : x \in s}
           P == {n \in Nat : \A s \in SUBSET S : Cardinality(s) = n => tc[s] <= td[img(s)]}
<1>3. /\ tc[{}] = 0 /\ \A s \in SUBSET S : tc[s] \in Nat
      /\ \A s \in SUBSET S : \A x \in s : tc[s] = tc[s \ {x}] + c[x]
  BY <1>1 DEF Totals
<1>4. /\ td[{}] = 0 /\ \A s \in SUBSET T : td[s] \in Nat
      /\ \A s \in SUBSET T : \A x \in s : td[s] = td[s \ {x}] + d[x]
  <2>1. td \in [SUBSET T -> Nat]
    BY <1>2, Zenon DEF Totals
  <2>2. \A s \in SUBSET T : td[s] \in Nat
    BY <2>1, Zenon
  <2> QED BY <1>2, <2>2, Zenon DEF Totals
<1>5. \A s \in SUBSET S : IsFiniteSet(s) /\ img(s) \in SUBSET T
  BY FS_Subset
<1>6. 0 \in P
  <2> SUFFICES ASSUME NEW s \in SUBSET S, Cardinality(s) = 0 PROVE tc[s] <= td[img(s)]
    OBVIOUS
  <2>1. s = {}
    BY <1>5, FS_EmptySet
  <2>2. img(s) = {}
    BY <2>1
  <2> HIDE DEF img
  <2> QED BY <1>3, <1>4, <2>1, <2>2
<1>7. ASSUME NEW n \in P PROVE n + 1 \in P
  <2>1. n \in Nat /\ n + 1 \in Nat
    OBVIOUS
  <2> SUFFICES ASSUME NEW s \in SUBSET S, Cardinality(s) = n + 1 PROVE tc[s] <= td[img(s)]
    BY <2>1, Zenon
  <2>2. s # {}
    <3>1. Cardinality({}) = 0 /\ n + 1 # 0
      BY <2>1, FS_EmptySet
    <3> QED BY <3>1
  <2>3. PICK x : x \in s
    BY <2>2
  <2> DEFINE t == s \ {x}
  <2>4. Cardinality(t) = n /\ t \in SUBSET S /\ x \in S
    <3>1. Cardinality(t) = Cardinality(s) - 1
      BY <1>5, <2>3, FS_RemoveElement
    <3> HIDE DEF t
    <3> QED BY <2>1, <2>3, <3>1 DEF t
  <2>5. tc[t] <= td[img(t)]
    <3> HIDE DEF t, img
    <3> QED BY <2>4
  <2>6. img(s) \ {h[x]} = img(t) /\ h[x] \in img(s)
    BY <2>3
  <2>7. img(s) \in SUBSET T /\ img(t) \in SUBSET T
    BY <1>5, <2>4
  <2> HIDE DEF img
  <2>8. tc[s] = tc[t] + c[x] /\ td[img(s)] = td[img(t)] + d[h[x]]
    <3>1. tc[s] = tc[t] + c[x]
      BY <1>3, <2>3, Zenon
    <3>2. td[img(s)] = td[img(s) \ {h[x]}] + d[h[x]]
      BY <1>4, <2>6, <2>7, Zenon
    <3> QED BY <2>6, <3>1, <3>2, Zenon
  <2>9. c[x] <= d[h[x]] /\ c[x] \in Nat /\ d[h[x]] \in Nat /\ tc[t] \in Nat /\ td[img(t)] \in Nat
    BY <1>3, <1>4, <2>4, <2>7
  <2> HIDE DEF t
  <2> QED BY <2>5, <2>8, <2>9
<1>8. Nat \subseteq P
  <2>1. P \subseteq Nat
    OBVIOUS
  <2> HIDE DEF P
  <2> QED BY <1>6, <1>7, <2>1, Induction
<1>9. tc[S] <= td[img(S)]
  <2>1. Cardinality(S) \in Nat
    BY FS_CardinalityType
  <2> HIDE DEF img
  <2> QED BY <1>8, <2>1
<1>10. img(S) \in SUBSET T
  BY <1>5
<1> HIDE DEF img
<1>11. td[img(S)] <= td[T]
  BY <1>2, <1>10, SumMonotone
<1>12. tc[S] \in Nat /\ td[img(S)] \in Nat /\ td[T] \in Nat
  BY <1>3, <1>4, <1>10
<1> QED BY <1>1, <1>2, <1>9, <1>11, <1>12

\* An int32 that differs from a total by whole widths is at most that total.
LEMMA CutAtMost ==
    ASSUME NEW a \in Nat, NEW b \in Int, b <= MaxInt32, NEW q \in Int, a = b + (int32Width * q)
    PROVE  b <= a
<1> DEFINE m == int32Width
<1>1. m \in Nat /\ m > 0 /\ MaxInt32 \in Nat /\ m = 2 * (MaxInt32 + 1)
  BY MaxInt32Assumption DEF int32Width
<1> HIDE DEF m
<1>2. m * q \in Int /\ a = b + (m * q)
  BY <1>1 DEF m
<1>3. q <= -1 => m * q <= -m
  BY <1>1
<1>4. q >= 0 => m * q >= 0
  BY <1>1
<1>5. q >= 0
  BY <1>1, <1>2, <1>3
<1> QED BY <1>2, <1>4, <1>5

\* Times of finitely many events have a newest one.
LEMMA MaxOfImage ==
    ASSUME NEW n \in Nat, NEW t \in [1 .. n -> Nat], NEW S, S \subseteq {t[i] : i \in 1 .. n}, S # {}
    PROVE  Max(S) \in Nat /\ \A y \in S : y <= Max(S)
<1> DEFINE P == {k \in Nat : k <= n => \E m \in Nat : \A i \in 1 .. k : t[i] <= m}
<1>1. 0 \in P
  <2>1. \A i \in 1 .. 0 : FALSE
    OBVIOUS
  <2> QED BY <2>1
<1>2. ASSUME NEW k \in P PROVE k + 1 \in P
  <2>1. k \in Nat
    OBVIOUS
  <2> SUFFICES ASSUME k + 1 <= n PROVE \E m \in Nat : \A i \in 1 .. k + 1 : t[i] <= m
    BY <2>1
  <2>2. PICK m \in Nat : \A i \in 1 .. k : t[i] <= m
    BY <2>1
  <2>3. t[k + 1] \in Nat /\ \A i \in 1 .. k : t[i] \in Nat
    BY <2>1
  <2> DEFINE z == t[k + 1]
             w == m + z
  <2>4. w \in Nat /\ m <= w /\ z <= w
    <3> HIDE DEF z
    <3> QED BY <2>3 DEF z
  <2> HIDE DEF w
  <2>5. \A i \in 1 .. k + 1 : i \in 1 .. k \/ i = k + 1
    BY <2>1
  <2>6. \A i \in 1 .. k + 1 : t[i] <= w
    BY <2>2, <2>3, <2>4, <2>5
  <2> QED BY <2>4, <2>6
<1>3. n \in P
  <2>1. P \subseteq Nat
    OBVIOUS
  <2> HIDE DEF P
  <2> QED BY <1>1, <1>2, <2>1, Induction
<1>4. PICK m \in Nat : \A i \in 1 .. n : t[i] <= m
  BY <1>3
<1>5. S \subseteq 0 .. m
  BY <1>4
<1>6. Max(S) \in S /\ \A y \in S : Max(S) >= y
  BY <1>5, MaxOfBounded
<1> DEFINE z == Max(S)
<1> HIDE DEF z
<1>7. z \in Nat /\ \A y \in S : z >= y /\ y \in Nat
  BY <1>5, <1>6 DEF z
<1>8. \A y \in S : y <= z
  BY <1>7
<1> QED BY <1>7, <1>8 DEF z


-----------------------------------------------------------------------------
(***************************************************************************)
(* The summary and the theorems                                            *)
(***************************************************************************)
\* The request RunGetNamespaceSummary makes for a step.
summaryRequest(step) == [Namespace |-> step.Namespace, Since |-> toTimestampPB(step.Since)]

\* GetNamespaceSummary sums up the stored episodes the step asks for.
LEMMA SummaryReads ==
    ASSUME IInv, NEW step, StepOK(step), NEW g \in GetNamespaceSummary(summaryRequest(step))
    PROVE  \A r \in DOMAIN g : SumsStored(g[r], byID, Counted(byID, step, r))
<1> DEFINE ns == step.Namespace
           since == step.Since
           E == Scan(summaryFilter(ns, since))
<1>1. since \in Nat
  BY DEF StepOK
<1>2. summaryRequest(step).Namespace = ns /\ sinceOf(summaryRequest(step)) = since
  BY <1>1, Timestamp DEF summaryRequest, sinceOf
<1>3. PICK s \in SummarizeNamespace(ns, since) :
        g = [r \in DOMAIN s |-> [s[r] EXCEPT !.lastSeen = <<@>>]]
  BY <1>2, Zenon DEF GetNamespaceSummary
<1> HIDE DEF since, ns
<1>4. /\ DOMAIN s = {byID[i].Reason : i \in E}
      /\ \A r \in DOMAIN s : /\ s[r] \in GroupType
                             /\ SumsUp(s[r], Of(E, r), totalOf(Of(E, r)))
                             /\ totalOf(Of(E, r)) \in Nat
  BY <1>1, SummaryAnswers
<1>5. \A i \in DOMAIN byID : byID[i].LastSeen \in Nat
  BY StoredTyped, EventTyped
<1>6. \A i : i \in E <=> i \in DOMAIN byID /\ About(step, byID[i])
  <2> DEFINE f == summaryFilter(ns, since)
  <2>1. f.Since = since
    BY DEF summaryFilter
  <2>2. f.Namespace = ns /\ f.ObjectUID = "" /\ f.Reason = ""
    BY DEF summaryFilter
  <2> HIDE DEF f, E
  <2>3. \A i \in DOMAIN byID : (f.Since = 0 \/ byID[i].LastSeen >= f.Since) <=> since <= byID[i].LastSeen
    BY <1>1, <1>5, <2>1
  <2>4. \A i \in DOMAIN byID : Matches(f, byID[i]) <=> About(step, byID[i])
    BY <2>2, <2>3, Zenon DEF Matches, About, ns, since
  <2> QED BY <2>4, Zenon DEF E, Scan, f
<1> HIDE DEF E
<1>7. ASSUME NEW r \in DOMAIN g
      PROVE  SumsStored(g[r], byID, Counted(byID, step, r))
  <2> DEFINE G == Counted(byID, step, r)
             a == s[r]
             b == g[r]
  <2>1. r \in DOMAIN s
    BY <1>3, <1>7
  <2>2. Of(E, r) = G
    <3>1. \A i : i \in Of(E, r) <=> i \in G
      BY <1>6, Zenon DEF Of, Counted
    <3> QED BY <3>1, Zenon
  <2>3. G # {}
    <3>1. PICK i \in E : byID[i].Reason = r
      BY <1>4, <2>1
    <3>2. i \in Of(E, r)
      BY <3>1 DEF Of
    <3> QED BY <2>2, <3>2, Zenon
  <2> HIDE DEF G
  <2>4. a \in GroupType /\ SumsUp(a, G, totalOf(G)) /\ totalOf(G) \in Nat
    BY <1>4, <2>1, <2>2, Zenon
  <2>5. b = [a EXCEPT !.lastSeen = <<@>>]
    BY <1>3, <2>1
  <2> HIDE DEF a, b
  <2>6. b.count = a.count /\ b.objects = a.objects /\ b.lastSeen = <<a.lastSeen>>
    BY <2>4, <2>5 DEF GroupType
  <2>7. b \in LineType
    <3>1. a.count \in Int /\ a.objects \in SUBSET STRING /\ a.lastSeen \in Nat
      BY <2>4 DEF GroupType
    <3>2. <<a.lastSeen>> \in Seq(Nat)
      BY <3>1
    <3>3. b = [count |-> a.count, objects |-> a.objects, lastSeen |-> <<a.lastSeen>>]
      BY <2>4, <2>5 DEF GroupType
    <3> QED BY <3>1, <3>2, <3>3, Zenon DEF LineType
  <2>8. a.count <= totalOf(G)
    <3>1. PICK q \in Int : totalOf(G) = a.count + (int32Width * q)
      BY <2>4 DEF SumsUp
    <3>2. a.count \in Int /\ a.count <= MaxInt32
      BY <2>4 DEF SumsUp
    <3> QED BY <2>4, <3>1, <3>2, CutAtMost
  <2>9. totalOf(G) = SumFunction([i \in G |-> byID[i].Count])
    BY Zenon DEF totalOf
  <2>10. a.objects = {byID[i].InvolvedObjectName : i \in G}
         /\ \E i \in G : byID[i].LastSeen = a.lastSeen
    BY <2>3, <2>4, Zenon DEF SumsUp
  <2>11. b.count <= SumFunction([i \in G |-> byID[i].Count])
    BY <2>6, <2>8, <2>9, Zenon
  <2>12. SumsStored(b, byID, G)
    BY <2>3, <2>6, <2>7, <2>10, <2>11, Zenon DEF SumsStored
  <2> QED BY <2>12 DEF b, G
<1> QED BY <1>7

\* A call that sums up a namespace.
LEMMA SummaryKeeps ==
    ASSUME SInv, UNCHANGED vars, session.next <= Len(session.plan),
           session.plan[session.next].Method = "GetNamespaceSummary",
           session'.groups \in GetNamespaceSummary(summaryRequest(session.plan[session.next])),
           session'.next = session.next + 1, Shape(session'),
           session'.plan = session.plan, session'.events = session.events,
           session'.stored = byID, session'.answered = session.answered \cup {session.next}
    PROVE  SInv'
<1> DEFINE n == session.next
           step == session.plan[n]
<1>1. IInv'
  BY NextInv DEF SInv
<1>2. byID' = byID /\ nextID' = nextID
  BY DEF vars
<1>3. /\ n \in Nat \ {0} /\ n \in 1 .. Len(session.plan)
      /\ \A i \in session.answered : i \in 1 .. Len(session.plan) /\ i < n
      /\ Planned(session.plan) /\ StepOK(step)
  <2>1. n \in Nat \ {0} /\ Planned(session.plan) /\ Len(session.plan) \in Nat
    BY DEF SInv, SessionOK, Planned
  <2>2. n \in 1 .. Len(session.plan)
    BY <2>1
  <2>3. \A i \in session.answered : i \in 1 .. Len(session.plan) /\ i < n
    BY DEF SInv, SessionOK
  <2>4. StepOK(step)
    BY <2>1, <2>2, Zenon DEF Planned
  <2> QED BY <2>1, <2>2, <2>3, <2>4, Zenon
<1>4. /\ nextID \in Nat
      /\ \A i \in DOMAIN byID : i \in Nat /\ i < nextID /\ byID[i] \in NormalizedEvent
  BY StoredTyped DEF SInv
<1>5. SessionOK'
  <2>1. n + 1 \in Nat \ {0} /\ \A i \in session.answered \cup {n} : i < n + 1
    BY <1>3
  <2>2. session.answered \cup {n} \subseteq 1 .. Len(session.plan)
    BY <1>3, Zenon
  <2>3. session.events \in Seq(Item)
    BY DEF SInv, SessionOK
  <2> QED BY <1>3, <2>1, <2>2, <2>3, Zenon DEF SessionOK
<1>6. Times' /\ CollectedOnce'
  BY <1>2, Zenon DEF SInv, Times, CollectedOnce
<1>7. EventsOK'
  BY <1>2, Zenon DEF SInv, EventsOK, ItemOK
<1>8. StoredOK'
  <2>1. IsFiniteSet(DOMAIN byID)
    <3>1. maxSize \in Nat /\ nextID \in Nat /\ DOMAIN byID = oldest .. nextID - 1
      BY MaxSizePositive DEF SInv, IInv, RingWindow, TypeOK
    <3>2. oldest \in Int /\ nextID - 1 \in Int
      BY <3>1 DEF oldest
    <3> QED BY <3>1, <3>2, FS_Interval
  <2>2. \A i \in DOMAIN byID : Grew(byID[i], byID[i])
    BY <1>4, GrewSame
  <2> QED BY <1>2, <1>4, <2>1, <2>2, Zenon DEF StoredOK
<1>9. Summed(session')
  <2>1. \A r \in DOMAIN session'.groups : SumsStored(session'.groups[r], byID, Counted(byID, step, r))
    BY <1>3, SummaryReads DEF SInv
  <2>2. SummedBy(session', n)
    BY <2>1, Zenon DEF SummedBy
  <2> QED BY <2>2, Zenon DEF Summed
<1>10. \A r : ~ Listed(r)'
  <2>1. ASSUME NEW i \in session.answered PROVE session.plan[i].Method # "ListEvents"
    BY <1>3, <2>1, Zenon DEF Planned, Summarized
  <2>2. step.Method # "ListEvents"
    OBVIOUS
  <2> QED BY <2>1, <2>2, Zenon DEF Listed
<1>11. Covers'
  BY <1>10, Zenon DEF Covers
<1> QED BY <1>1, <1>5, <1>6, <1>7, <1>8, <1>9, <1>11, Zenon DEF SInv

\* Every step of the request, and every step of the store, keeps the invariant.
LEMMA ServerNextInv == SInv /\ [ServerNext]_serverVars => SInv'
<1> SUFFICES ASSUME SInv, [ServerNext]_serverVars PROVE SInv'
  OBVIOUS
<1>0. Shape(session) /\ IInv /\ Planned(session.plan) /\ session.next \in Nat \ {0}
  BY DEF SInv, SessionOK
<1>1. ASSUME session.next <= Len(session.plan) PROVE StepOK(session.plan[session.next])
  <2>1. session.next \in 1 .. Len(session.plan)
    BY <1>0, <1>1 DEF Planned
  <2> QED BY <1>0, <2>1, Zenon DEF Planned
<1> DEFINE step == session.plan[session.next]
<1>2. ASSUME NEW d, session' = [answeredWith(session) EXCEPT !.events = @ \o d]
      PROVE  /\ session'.next = session.next + 1 /\ Shape(session')
             /\ session'.plan = session.plan /\ session'.events = session.events \o d
             /\ session'.groups = session.groups /\ session'.stored = session.stored
             /\ session'.answered = session.answered \cup {session.next}
  BY <1>0, <1>2 DEF Shape, answeredWith
<1>3. CASE RunListEvents
  <2>1. /\ session.next <= Len(session.plan) /\ step.Method = "ListEvents" /\ UNCHANGED vars
        /\ \E r \in ListEvents(listRequest(step)) :
             session' = [answeredWith(session) EXCEPT !.events = @ \o decoded(r)]
    BY <1>3, Zenon DEF RunListEvents, calling, listRequest
  <2>2. PICK r \in ListEvents(listRequest(step)) :
          session' = [answeredWith(session) EXCEPT !.events = @ \o decoded(r)]
    BY <2>1, Zenon
  <2> DEFINE d == decoded(r)
  <2>3. Reads(d, step) /\ (step.Limit = 0 => ReadsAll(d, step))
    BY <1>0, <1>1, <2>1, ListReads
  <2>4. Collecting(step)
    BY <2>1 DEF Collecting
  <2> HIDE DEF d, step
  <2>5. session' = [answeredWith(session) EXCEPT !.events = @ \o d]
    BY <2>2, Zenon DEF d
  <2> QED BY <1>2, <2>1, <2>3, <2>4, <2>5, CollectKeeps, Zenon DEF step
<1>4. CASE RunGetEventsForObject
  <2>1. /\ session.next <= Len(session.plan) /\ step.Method = "GetEventsForObject" /\ UNCHANGED vars
        /\ \E r \in GetEventsForObject(objectRequest(step)) :
             session' = [answeredWith(session) EXCEPT !.events = @ \o decoded(r)]
    BY <1>4, Zenon DEF RunGetEventsForObject, calling, objectRequest
  <2>2. PICK r \in GetEventsForObject(objectRequest(step)) :
          session' = [answeredWith(session) EXCEPT !.events = @ \o decoded(r)]
    BY <2>1, Zenon
  <2> DEFINE d == decoded(r)
  <2>3. Reads(d, step)
    BY <1>0, <1>1, <2>1, ObjectReads
  <2>4. Collecting(step) /\ step.Method # "ListEvents"
    BY <2>1 DEF Collecting
  <2> HIDE DEF d, step
  <2>5. session' = [answeredWith(session) EXCEPT !.events = @ \o d]
    BY <2>2, Zenon DEF d
  <2> QED BY <1>2, <2>1, <2>3, <2>4, <2>5, CollectKeeps, Zenon DEF step
<1>5. CASE RunGetNamespaceSummary
  <2>1. /\ session.next <= Len(session.plan) /\ step.Method = "GetNamespaceSummary" /\ UNCHANGED vars
        /\ \E g \in GetNamespaceSummary(summaryRequest(step)) :
             session' = [answeredWith(session) EXCEPT !.groups = g, !.stored = byID]
    BY <1>5, Zenon DEF RunGetNamespaceSummary, calling, summaryRequest
  <2>2. PICK g \in GetNamespaceSummary(summaryRequest(step)) :
          session' = [answeredWith(session) EXCEPT !.groups = g, !.stored = byID]
    BY <2>1, Zenon
  <2> HIDE DEF step
  <2>3. /\ session'.next = session.next + 1 /\ Shape(session')
        /\ session'.plan = session.plan /\ session'.events = session.events
        /\ session'.groups = g /\ session'.stored = byID
        /\ session'.answered = session.answered \cup {session.next}
    BY <1>0, <2>2 DEF Shape, answeredWith
  <2>4. session'.groups \in GetNamespaceSummary(summaryRequest(step))
    BY <2>2, <2>3, Zenon
  <2> QED BY <2>1, <2>3, <2>4, SummaryKeeps, Zenon DEF step
<1>6. CASE PassStep
  <2>1. /\ session'.next = session.next + 1 /\ Shape(session')
        /\ session'.plan = session.plan /\ session'.events = session.events
        /\ session'.groups = session.groups /\ session'.stored = session.stored
        /\ session'.answered = session.answered
    BY <1>0, <1>6 DEF Shape, PassStep
  <2>2. UNCHANGED vars
    BY <1>6 DEF PassStep
  <2> QED BY <2>1, <2>2, PassKeeps, Zenon
<1>7. CASE Next /\ UNCHANGED session
  <2>1. IInv'
    BY <1>0, <1>7, NextInv
  <2>2. Advances
    BY <1>0, <1>7, AddAdvances DEF Next
  <2> QED BY <1>7, <2>1, <2>2, WatcherKeeps
<1>8. CASE UNCHANGED serverVars
  <2>1. UNCHANGED vars /\ session' = session
    BY <1>8 DEF serverVars
  <2>2. IInv' /\ Advances
    BY <1>0, <2>1, NextInv, SameAdvances
  <2> QED BY <2>1, <2>2, WatcherKeeps
<1> QED BY <1>3, <1>4, <1>5, <1>6, <1>7, <1>8 DEF ServerNext, SessionStep

LEMMA ServerInvariance == ServerSpec => []SInv
BY ServerInitInv, ServerNextInv, PTL DEF ServerSpec


\* A request never collects an episode twice, however the store changes between
\* its calls (planner.go 88-106, executor.go 50-85).
THEOREM CollectsOnce == ServerSpec => []CollectedOnce
<1>1. SInv => CollectedOnce
  BY DEF SInv
<1> QED BY <1>1, ServerInvariance, PTL

\* What is collected are the elements of the list.
LEMMA CollectedItems ==
    ASSUME SInv, NEW c \in Collected
    PROVE  /\ c \in Item /\ ItemOK(c, session, byID, nextID)
           /\ \E k \in 1 .. Len(session.events) : c = session.events[k]
<1>1. session.events \in Seq(Item)
  BY DEF SInv, SessionOK
<1>2. PICK k \in DOMAIN session.events : c = session.events[k]
  BY DEF Collected, ToSet
<1>3. k \in 1 .. Len(session.events) /\ session.events[k] \in Item
  BY <1>1
<1>4. ItemOK(session.events[k], session, byID, nextID)
  BY <1>3 DEF SInv, EventsOK
<1> QED BY <1>2, <1>3, <1>4, Zenon

\* What a request collects it asked for, and every event it collects is a state
\* its episode was in, through both conversions (server.go 38-72, 194-208;
\* executor.go 153-197).
THEOREM CollectsGenuine == ServerSpec => []CollectedGenuine
<1>1. ASSUME SInv PROVE CollectedGenuine
  <2>1. ASSUME NEW c \in Collected
        PROVE  /\ \E i \in session.answered : AskedFor(session.plan[i], c.event)
               /\ c.event.FirstSeen <= c.event.LastSeen
               /\ c.id \in DOMAIN byID => Grew(c.event, byID[c.id])
    BY <1>1, <2>1, CollectedItems, Zenon DEF ItemOK
  <2> QED BY <2>1, Zenon DEF CollectedGenuine, Grew
<1>2. SInv => CollectedGenuine
  BY <1>1
<1> QED BY <1>2, ServerInvariance, PTL

\* The summary and the events of a reply agree although different calls made
\* them: what the summary counts is among the events, unless an episode was
\* evicted in between (planner.go 50-55, 88-106; server.go 74-95).
THEOREM SummariesCovered == ServerSpec => []SummaryCovered
<1>1. ASSUME SInv, NEW r \in DOMAIN session.groups, Listed(r),
             \A i \in DOMAIN session.stored : session.stored[i].Reason = r => i \in DOMAIN byID
      PROVE  LET group == toNamespaceSummaryLines(session.groups)[r]
                 about == {c \in Collected : c.event.Reason = r}
             IN /\ group.count <= SumFunction([c \in about |-> c.event.Count])
                /\ group.objects \subseteq {c.event.InvolvedObjectName : c \in about}
                /\ group.lastSeen <= Max({c.event.LastSeen : c \in about})
  <2> DEFINE g == session.groups[r]
             st == session.stored
             about == {c \in Collected : c.event.Reason = r}
             line == toNamespaceSummaryLines(session.groups)[r]
             evs == session.events
  <2>1. PICK p \in session.answered : SummedBy(session, p)
    BY <1>1, Zenon DEF SInv, Summed
  <2> DEFINE G == Counted(st, session.plan[p], r)
  <2>2. SumsStored(g, st, G) /\ session.plan[p].Method = "GetNamespaceSummary"
    BY <1>1, <2>1, Zenon DEF SummedBy
  <2>3. /\ IsFiniteSet(G)
        /\ \A i \in G : /\ i \in DOMAIN st /\ st[i] \in NormalizedEvent /\ st[i].Reason = r
                        /\ About(session.plan[p], st[i])
    <3>1. G \subseteq DOMAIN st /\ IsFiniteSet(DOMAIN st)
      BY <1>1, Zenon DEF SInv, StoredOK, Counted
    <3>2. IsFiniteSet(G)
      BY <3>1, FS_Subset
    <3> QED BY <1>1, <3>2, Zenon DEF SInv, StoredOK, Counted
  <2>4. ASSUME NEW i \in G
        PROVE  \E c \in about : c.id = i /\ Grew(st[i], c.event)
    <3>1. Present(r)
      BY <1>1 DEF Present
    <3>2. CollectedFrom(i)
      BY <1>1, <2>2, <2>3, <2>4, <3>1, Zenon DEF SInv, Covers
    <3>3. PICK k \in 1 .. Len(evs) : evs[k].id = i /\ Grew(st[i], evs[k].event)
      BY <3>2, Zenon DEF CollectedFrom
    <3>4. evs \in Seq(Item)
      BY <1>1 DEF SInv, SessionOK
    <3>5. k \in DOMAIN evs
      BY <3>3, <3>4
    <3>6. evs[k] \in Collected
      BY <3>5, Zenon DEF Collected, ToSet
    <3>7. evs[k].event.Reason = st[i].Reason
      BY <3>3 DEF Grew, dedupKey
    <3> QED BY <2>3, <2>4, <3>3, <3>6, <3>7, Zenon
  <2>5. \A c \in about : c \in Item /\ c.event \in NormalizedEvent
    <3>1. \A c \in about : c \in Item
      BY <1>1, CollectedItems, Zenon
    <3> QED BY <3>1 DEF Item
  <2>6. /\ line.count = g.count /\ line.objects = g.objects
        /\ line.lastSeen = timeOrZero(g.lastSeen)
    <3>1. g \in LineType
      BY <2>2 DEF SumsStored
    <3>2. line = [g EXCEPT !.lastSeen = timeOrZero(@)]
      BY <1>1, Zenon DEF toNamespaceSummaryLines
    <3> HIDE DEF g, line
    <3> QED BY <3>1, <3>2 DEF LineType
  <2>7. IsFiniteSet(about)
    <3> DEFINE n == Len(evs)
               all == {evs[k] : k \in 1 .. n}
    <3>1. n \in Nat /\ evs \in Seq(Item) /\ DOMAIN evs = 1 .. n
      BY <1>1 DEF SInv, SessionOK
    <3>2. evs \in Surjection(1 .. n, all)
      <4> HIDE DEF n
      <4> QED BY <3>1 DEF Surjection
    <3>3. IsFiniteSet(1 .. n)
      BY <3>1, FS_Interval
    <3> HIDE DEF n
    <3>4. IsFiniteSet(all)
      BY <3>2, <3>3, FS_Surjection
    <3>5. about \subseteq all
      BY <3>1, Zenon DEF Collected, ToSet
    <3> QED BY <3>4, <3>5, FS_Subset
  <2> HIDE DEF about, G, g, st, line
  <2> DEFINE h == [i \in G |-> CHOOSE c \in about : c.id = i /\ Grew(st[i], c.event)]
  <2>8. \A i \in G : h[i] \in about /\ h[i].id = i /\ Grew(st[i], h[i].event)
    <3> TAKE i \in G
    <3>1. h[i] = CHOOSE c \in about : c.id = i /\ Grew(st[i], c.event)
      OBVIOUS
    <3> HIDE DEF h
    <3> QED BY <2>4, <3>1, Zenon
  <2>9. h \in [G -> about] /\ \A x, y \in G : h[x] = h[y] => x = y
    <3>1. h = [i \in G |-> h[i]]
      OBVIOUS
    <3> HIDE DEF h
    <3>2. h \in [G -> about]
      BY <2>8, <3>1
    <3> QED BY <2>8, <3>2, Zenon
  <2> HIDE DEF h
  <2>10. line.count <= SumFunction([c \in about |-> c.event.Count])
    <3> DEFINE a == [i \in G |-> st[i].Count]
               b == [c \in about |-> c.event.Count]
    <3>1. a \in [G -> Nat] /\ b \in [about -> Nat]
      BY <2>3, <2>5, EventTyped
    <3>2. \A i \in G : a[i] <= b[h[i]]
      <4> TAKE i \in G
      <4>1. a[i] = st[i].Count /\ b[h[i]] = h[i].event.Count
        BY <2>8
      <4> QED BY <2>8, <4>1, Zenon DEF Grew
    <3> HIDE DEF a, b
    <3>3. SumFunction(a) <= SumFunction(b)
      BY <2>3, <2>7, <2>9, <3>1, <3>2, SumDominated
    <3>4. SumFunction(a) \in Nat /\ SumFunction(b) \in Nat
      <4>1. PICK ta : Totals(ta, G, a) /\ SumFunction(a) = ta[G]
        BY <2>3, <3>1, SumTotals
      <4>2. PICK tb : Totals(tb, about, b) /\ SumFunction(b) = tb[about]
        BY <2>7, <3>1, SumTotals
      <4>3. SumFunction(a) \in Nat
        BY <4>1 DEF Totals
      <4>4. SumFunction(b) \in Nat
        BY <4>2 DEF Totals
      <4> QED BY <4>3, <4>4
    <3>5. g.count <= SumFunction(a) /\ g.count \in Int
      BY <2>2 DEF SumsStored, LineType, a
    <3>6. g.count <= SumFunction(b)
      BY <3>3, <3>4, <3>5
    <3> QED BY <2>6, <3>6 DEF b
  <2>11. line.objects \subseteq {c.event.InvolvedObjectName : c \in about}
    <3>1. g.objects = {st[i].InvolvedObjectName : i \in G}
      BY <2>2 DEF SumsStored
    <3>2. \A i \in G : st[i].InvolvedObjectName = h[i].event.InvolvedObjectName /\ h[i] \in about
      BY <2>8, Zenon DEF Grew
    <3> SUFFICES ASSUME NEW x \in line.objects
                 PROVE  \E c \in about : x = c.event.InvolvedObjectName
      OBVIOUS
    <3>3. PICK i \in G : x = st[i].InvolvedObjectName
      BY <2>6, <3>1
    <3> QED BY <3>2, <3>3, Zenon
  <2>12. line.lastSeen <= Max({c.event.LastSeen : c \in about})
    <3> DEFINE n == Len(evs)
               t == [k \in 1 .. n |-> evs[k].event.LastSeen]
               S == {c.event.LastSeen : c \in about}
    <3>1. PICK i \in G : g.lastSeen = <<st[i].LastSeen>>
      BY <2>2, Zenon DEF SumsStored
    <3>2. st[i].LastSeen \in Nat /\ line.lastSeen = st[i].LastSeen
      <4>1. st[i].LastSeen \in Nat
        BY <2>3, EventTyped
      <4> QED BY <2>6, <3>1, <4>1, Timestamp, Zenon
    <3> DEFINE y == h[i].event.LastSeen
    <3>3. y \in S /\ st[i].LastSeen <= y /\ y \in Nat
      <4>1. h[i] \in about /\ Grew(st[i], h[i].event)
        BY <2>8
      <4>2. h[i].event.LastSeen \in Nat
        BY <2>5, <4>1, EventTyped
      <4> QED BY <4>1, <4>2, Zenon DEF Grew
    <3>4. n \in Nat /\ evs \in Seq(Item) /\ \A k \in 1 .. n : evs[k] \in Item
      BY <1>1 DEF SInv, SessionOK
    <3>5. t \in [1 .. n -> Nat]
      <4>1. \A k \in 1 .. n : evs[k].event.LastSeen \in Nat
        <5>1. \A k \in 1 .. n : evs[k].event \in NormalizedEvent
          BY <3>4 DEF Item
        <5> QED BY <5>1, EventTyped
      <4> HIDE DEF n
      <4> QED BY <4>1
    <3>6. S \subseteq {t[k] : k \in 1 .. n}
      <4> SUFFICES ASSUME NEW c \in about PROVE c.event.LastSeen \in {t[k] : k \in 1 .. n}
        BY Zenon
      <4>1. PICK k \in 1 .. n : c = evs[k]
        BY <1>1, CollectedItems, Zenon DEF about
      <4> HIDE DEF n
      <4>2. t[k] = evs[k].event.LastSeen
        OBVIOUS
      <4> HIDE DEF t
      <4> QED BY <4>1, <4>2, Zenon
    <3> HIDE DEF n, t, S, y
    <3>7. Max(S) \in Nat /\ \A z \in S : z <= Max(S)
      <4>1. S # {} /\ n \in Nat
        BY <3>3, <3>4 DEF n
      <4> QED BY <3>5, <3>6, <4>1, MaxOfImage
    <3>8. y <= Max(S)
      BY <3>3, <3>7
    <3>9. line.lastSeen <= Max(S)
      BY <3>2, <3>3, <3>7, <3>8
    <3> QED BY <3>9 DEF S
  <2> QED BY <2>10, <2>11, <2>12 DEF line, about
<1>2. SInv => SummaryCovered
  <2> SUFFICES ASSUME SInv, NEW r \in DOMAIN session.groups, Listed(r),
                      \A i \in DOMAIN session.stored : session.stored[i].Reason = r => i \in DOMAIN byID
               PROVE  LET group == toNamespaceSummaryLines(session.groups)[r]
                          about == {c \in Collected : c.event.Reason = r}
                      IN /\ group.count <= SumFunction([c \in about |-> c.event.Count])
                         /\ group.objects \subseteq {c.event.InvolvedObjectName : c \in about}
                         /\ group.lastSeen <= Max({c.event.LastSeen : c \in about})
    BY Zenon DEF SummaryCovered
  <2> QED BY <1>1
<1> QED BY <1>2, ServerInvariance, PTL


=============================================================================
