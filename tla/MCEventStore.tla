----------------------------- MODULE MCEventStore -----------------------------
(***************************************************************************)
(* Small instances of EventStore and of its queries.  Two objects and an   *)
(* event without a uid; counts that grow and that reset, and whose sum     *)
(* exceeds MaxInt32; first-seen times that are unset, that                 *)
(* continue a burst and that lie a gap later.                              *)
(***************************************************************************)
EXTENDS StoreQuery

CONSTANT MaxInserts \* bound on nextID

ev(ns, uid, reason, chain, count, first, last) ==
    [Namespace |-> ns, InvolvedObjectKind |-> "Pod", InvolvedObjectName |-> uid,
     InvolvedObjectUID |-> uid, OwnerChain |-> chain, Reason |-> reason,
     Message |-> IF count = 1 THEN <<"once">> ELSE <<"again">>,
     Count |-> count, FirstSeen |-> first, LastSeen |-> last]

MCIncoming ==
    { ev("ns1", "u1", "BackOff", <<>>, 1, 0, 4),
      ev("ns1", "u1", "BackOff", <<"web">>, 2, 3, 5),
      ev("ns1", "u1", "BackOff", <<>>, 1, 9, 9),
      ev("ns1", "u1", "Killing", <<"web">>, 1, 4, 4),
      ev("ns1", "u2", "BackOff", <<"db">>, 1, 5, 5),
      ev("ns2", "", "NodeNotReady", <<>>, 1, 5, 6) }

MCFilters ==
    [Namespace : {"", "ns1", "ns3"}, ObjectUID : {"", "u1"}, Reason : {"", "BackOff"},
     Since : {0, 5}, Limit : {0, 2}]

\* Add with the bound on inserted episodes in its guard.
MCNext == \E e \in Incoming : (Continues(e) \/ nextID < MaxInserts) /\ Add(e)

MCSpec == Init /\ [][MCNext]_vars

=============================================================================
