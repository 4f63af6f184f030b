----------------------------- MODULE MCCorrelator -----------------------------
(***************************************************************************)
(* Small instances of Correlator.  A chain starts with the object itself:  *)
(* pods of one deployment, the same pod when its chain could not be        *)
(* resolved, and custom resources, whose kind the agent cannot fetch, so   *)
(* that their chain has no UID.                                            *)
(***************************************************************************)
EXTENDS Response

obj(uid, name) == [UID |-> uid, KindName |-> name]

event(ns, t, reason, o, chain) ==
    [Namespace |-> ns, LastSeen |-> t, Reason |-> reason, Object |-> o, OwnerChain |-> chain]

deploy == obj("u-deploy", "Deployment/web")
podA == obj("u-a", "Pod/web-a")
chainA == <<podA, obj("u-rs1", "ReplicaSet/web-1"), deploy>>
podB == obj("u-b", "Pod/web-b")
chainB == <<podB, obj("u-rs2", "ReplicaSet/web-2"), deploy>>
rollout == obj("", "Rollout/api")

rolloutEvent(ns, uid, t, reason) ==
    event(ns, t, reason, obj(uid, "Rollout/api"), <<rollout>>)

MCEvents ==
    {event("ns1", t, reason, podA, chainA) : t \in {1, 2}, reason \in {"Unhealthy", "BackOff"}}
    \cup {event("ns1", 1, "Killing", podB, chainB), event("ns1", 2, "BackOff", podA, <<>>)}
    \cup {rolloutEvent("ns1", "u1", t, reason) : t \in {1, 2}, reason \in {"Failed", "BackOff"}}

\* Two custom resources of the same name in two namespaces.
MCNamesakes ==
    {rolloutEvent("ns1", "u1", 1, "Failed"), rolloutEvent("ns2", "u2", 2, "BackOff")}
=============================================================================
