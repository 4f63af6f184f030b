------------------------------- MODULE Planner --------------------------------
(***************************************************************************)
(* pkg/planner: the rule-based translation of a query into the calls to    *)
(* make to a cluster agent.  A query that cannot be planned has no plan,   *)
(* <<>>, which stands for the error.                                       *)
(***************************************************************************)
EXTENDS Integers, Sequences

Intents == {"Unknown", "NamespaceOverview", "ExplainObjectIssue", "ExplainRestarts",
            "BuildTimeline"}

\* One call of a cluster agent.
Step == [Method : {"ListEvents", "GetEventsForObject", "GetNamespaceSummary",
                   "ResolveOwnerChain", "GetObjectSnapshot"},
         Namespace : STRING, Kind : STRING, Name : STRING, Reason : STRING,
         Since : Nat, Limit : Int]

\* A step with the fields of a call that its method leaves at their zero value.
blank == [Method |-> "", Namespace |-> "", Kind |-> "", Name |-> "", Reason |-> "",
          Since |-> 0, Limit |-> 0]

-----------------------------------------------------------------------------
\* Mutants of the definitions below: plausible slips in the code they model.
restartReasonsRepeated == <<"BackOff", "OOMKilling", "Failed", "Unhealthy", "BackOff">>

-----------------------------------------------------------------------------
namespaceOverview(q) ==
    <<[blank EXCEPT !.Method = "GetNamespaceSummary", !.Namespace = q.Namespace,
                    !.Since = q.Since],
      [blank EXCEPT !.Method = "ListEvents", !.Namespace = q.Namespace,
                    !.Since = q.Since, !.Limit = q.Limit]>>

namesObject(q) == q.ObjectKind # "" /\ q.ObjectName # ""

objectStep(q, method) ==
    [blank EXCEPT !.Method = method, !.Namespace = q.Namespace,
                  !.Kind = q.ObjectKind, !.Name = q.ObjectName]

explainObjectIssue(q) ==
    IF namesObject(q)
    THEN <<objectStep(q, "GetEventsForObject"), objectStep(q, "ResolveOwnerChain"),
           objectStep(q, "GetObjectSnapshot")>>
    ELSE <<>>

restartReasons == <<"BackOff", "OOMKilling", "Failed", "Unhealthy", "FailedMount">>

\* Literals are strings, which TLAPS does not know by itself.
ASSUME LiteralAssumption ==
    {"", "BackOff", "OOMKilling", "Failed", "Unhealthy", "FailedMount"} \subseteq STRING

explainRestarts(q) ==
    <<[blank EXCEPT !.Method = "GetNamespaceSummary", !.Namespace = q.Namespace,
                    !.Since = q.Since]>>
    \o [i \in 1 .. Len(restartReasons) |->
          [blank EXCEPT !.Method = "ListEvents", !.Namespace = q.Namespace,
                        !.Reason = restartReasons[i], !.Since = q.Since]]

buildTimeline(q) ==
    <<[blank EXCEPT !.Method = "ListEvents", !.Namespace = q.Namespace,
                    !.Reason = q.Reason, !.Since = q.Since, !.Limit = q.Limit]>>

heuristic(q) ==
    CASE namesObject(q) -> explainObjectIssue(q)
      [] ~namesObject(q) /\ q.Namespace # "" -> namespaceOverview(q)
      [] OTHER -> <<>>

Plan(q) ==
    IF q.ClusterName = "" THEN <<>>
    ELSE CASE q.Intent = "NamespaceOverview" -> namespaceOverview(q)
           [] q.Intent = "ExplainObjectIssue" -> explainObjectIssue(q)
           [] q.Intent = "ExplainRestarts" -> explainRestarts(q)
           [] q.Intent = "BuildTimeline" -> buildTimeline(q)
           [] OTHER -> heuristic(q)

=============================================================================
