---------------------------- MODULE MCAgentServer -----------------------------
(***************************************************************************)
(* Small instances of AgentServer: equal and different lastSeen times, two *)
(* namespaces, an object with two reasons, objects of two kinds with the   *)
(* same name, and counts and limits beyond MaxInt32.                       *)
(***************************************************************************)
EXTENDS AgentServer

CONSTANT MaxInserts \* bound on nextID

ev(ns, kind, uid, reason, count, first, last) ==
    [Namespace |-> ns, InvolvedObjectKind |-> kind, InvolvedObjectName |-> "web",
     InvolvedObjectUID |-> uid, OwnerChain |-> <<>>, Reason |-> reason, Message |-> <<"m">>,
     Count |-> count, FirstSeen |-> first, LastSeen |-> last]

MCIncoming ==
    { ev("ns1", "Pod", "u1", "BackOff", 1, 3, 4), ev("ns1", "Pod", "u1", "BackOff", 5, 3, 6),
      ev("ns1", "Pod", "u1", "Failed", 2, 4, 4), ev("ns1", "Job", "u2", "BackOff", 3, 5, 5),
      ev("ns2", "Pod", "", "BackOff", 1, 0, 5) }

question(ns, name, intent, since, limit) ==
    [ClusterName |-> "prod", Namespace |-> ns, ObjectKind |-> "Pod", ObjectName |-> name,
     Reason |-> "", Since |-> since, Limit |-> limit, Intent |-> intent]

\* With MaxInt32 = 7 a limit of 17 is cut to 1, and one of 8 is negative.
MCQuestions ==
    {question("ns1", "web", "ExplainObjectIssue", 5, 0),
     question("ns1", "", "ExplainRestarts", 0, 0), question("", "", "ExplainRestarts", 5, 0),
     question("ns1", "", "NamespaceOverview", 5, 0), question("", "", "NamespaceOverview", 0, 17),
     question("", "", "BuildTimeline", 0, 8)}

MCNext ==
    \/ SessionStep
    \/ /\ \E e \in Incoming : (Continues(e) \/ nextID < MaxInserts) /\ Add(e)
       /\ UNCHANGED session

MCSpec == ServerInit /\ [][MCNext]_serverVars

=============================================================================
