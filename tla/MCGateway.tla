------------------------------ MODULE MCGateway -------------------------------
(***************************************************************************)
(* Small instances of Gateway: requests with plans of one to six calls,    *)
(* complete and incomplete, to a cluster that moves between two endpoints. *)
(***************************************************************************)
EXTENDS Gateway

request(ns, kind, name, intent, mode) ==
    [ClusterName |-> "prod", Namespace |-> ns, ObjectKind |-> kind, ObjectName |-> name,
     Reason |-> "", Since |-> 0, Limit |-> 0, Intent |-> intent, Mode |-> mode]

MCQueryRequests ==
    {request("ns", "", "", "NamespaceOverview", ""),
     request("ns", "Pod", "web", "ExplainObjectIssue", "concise"),
     request("ns", "Pod", "", "ExplainObjectIssue", ""),
     request("ns", "", "", "ExplainRestarts", ""),
     request("ns", "", "", "BuildTimeline", ""),
     request("ns", "", "web", "", ""),
     request("", "Pod", "web", "Overview", ""),
     request("", "", "", "", ""),
     [request("ns", "", "", "BuildTimeline", "") EXCEPT !.ClusterName = ""]}

ask(cluster, question, mode) ==
    [ClusterName |-> cluster, Question |-> question, Namespace |-> "ns", Mode |-> mode]

MCAskRequests == {ask("prod", "why", ""), ask("prod", "why", "concise"), ask("prod", "", "")}

payload(ns, kind, name, intent) ==
    [Namespace |-> ns, ObjectKind |-> kind, ObjectName |-> name, Reason |-> "",
     Since |-> 0, Intent |-> intent]

MCPayloads ==
    {payload("", "", "", "BuildTimeline"), payload("other", "", "web", "ExplainObjectIssue")}
=============================================================================
