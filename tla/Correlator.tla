------------------------------ MODULE Correlator ------------------------------
(***************************************************************************)
(* pkg/correlation: Correlate sorts the events of a query, groups them by  *)
(* workload, marks each one as a root cause or as caused by an earlier     *)
(* event of its group, and flattens the groups into a timeline.  It is one *)
(* sequential call; its results still vary, because Go iterates over maps  *)
(* in any order and sort.Slice leaves events with the same LastSeen in any *)
(* order once the slice is longer than StableLimit.                        *)
(***************************************************************************)
EXTENDS Integers, FiniteSets, SequencesExt

CONSTANTS
    Events,      \* events an agent may return: Namespace, LastSeen, Reason, Object
                 \* and OwnerChain, objects with a UID, perhaps "", and a KindName
    MaxEvents,   \* bound on the events of one query
    StableLimit  \* longest slice sort.Slice sorts stably (12, by insertion)

VARIABLES
    evs,        \* the argument of Correlate
    pc,         \* "sort", "group", "annotate", "flatten", "order", "collect", "done"
    sorted,     \* evs by LastSeen
    next,       \* where a loop over sorted or over all is
    groups,     \* group -> its events, in the order of sorted
    annotated,  \* group -> its correlated events
    all,        \* the timeline
    rootCauses  \* its events that are a root cause

vars == <<evs, pc, sorted, next, groups, annotated, all, rootCauses>>

ASSUME EventsAssumption ==
    \A e \in Events : /\ e.LastSeen \in Nat
                      /\ e.OwnerChain \in Seq([UID : STRING, KindName : STRING])
ASSUME LimitsAssumption == MaxEvents \in Nat /\ StableLimit \in Nat

\* causalEdges: a reason and the reasons it commonly causes.
causalEdges ==
    {<<"FailedScheduling", "Pending">>,
     <<"ErrImagePull", "ImagePullBackOff">>, <<"ErrImagePull", "BackOff">>,
     <<"ImagePullBackOff", "BackOff">>,
     <<"FailedMount", "BackOff">>, <<"FailedMount", "Unhealthy">>,
     <<"FailedAttachVolume", "FailedMount">>, <<"VolumeResizeFailed", "FailedMount">>,
     <<"Unhealthy", "Killing">>, <<"Unhealthy", "BackOff">>, <<"Killing", "BackOff">>,
     <<"Failed", "BackOff">>, <<"OOMKilling", "BackOff">>,
     <<"BackOff", "CrashLoopBackOff">>, <<"CrashLoopBackOff", "FailedCreate">>,
     <<"FailedCreate", "ScalingReplicaSet">>,
     <<"NetworkNotReady", "FailedScheduling">>, <<"NodeNotReady", "FailedScheduling">>}

causedByIndex(reason) == {edge[1] : edge \in {e \in causalEdges : e[2] = reason}}

Init ==
    /\ evs \in BoundedSeq(Events, MaxEvents)
    /\ pc = "sort"
    /\ sorted = <<>> /\ all = <<>> /\ rootCauses = <<>> /\ next = 1
    /\ groups = [g \in {} |-> <<>>] /\ annotated = [g \in {} |-> <<>>]

-----------------------------------------------------------------------------
\* Mutants of the definitions below: plausible slips in the code they model.
groupIDForNearest(e) ==
    IF e.OwnerChain # <<>> THEN Head(e.OwnerChain).UID ELSE e.Object.UID

seenReasonsAll(gevs, i) == {gevs[j].Reason : j \in DOMAIN gevs}

appendGroupReplacing(gid) == annotated[gid]

-----------------------------------------------------------------------------
\* The results sort.Slice may give for s, by LastSeen.
orderings(s) ==
    {[i \in DOMAIN s |-> s[p[i]]] :
       p \in {p \in [DOMAIN s -> DOMAIN s] :
                /\ IsInjective(p)
                /\ \A i, j \in DOMAIN s : i < j =>
                     \/ s[p[i]].LastSeen < s[p[j]].LastSeen
                     \/ /\ s[p[i]].LastSeen = s[p[j]].LastSeen
                        /\ Len(s) > StableLimit \/ p[i] < p[j]}}

\* The topmost owner, or the involved object itself, by its UID or, when that
\* is not known, by its kind and name.
groupIDFor(e) ==
    LET root == IF e.OwnerChain # <<>> THEN Last(e.OwnerChain) ELSE e.Object
    IN IF root.UID # "" THEN root.UID ELSE root.KindName

\* Nothing to correlate: an empty Timeline.
CorrelateNothing ==
    /\ pc = "sort" /\ evs = <<>>
    /\ pc' = "done"
    /\ UNCHANGED <<evs, sorted, next, groups, annotated, all, rootCauses>>

SortInput ==
    /\ pc = "sort" /\ evs # <<>>
    /\ sorted' \in orderings(evs)
    /\ pc' = "group"
    /\ UNCHANGED <<evs, next, groups, annotated, all, rootCauses>>

\* A group that is not in the map yet reads as an empty slice.
eventsOf(gid) == IF gid \in DOMAIN groups THEN groups[gid] ELSE <<>>

\* One round of the loop of groupByWorkload.
Group ==
    /\ pc = "group"
    /\ LET e == sorted[next]
           gid == groupIDFor(e)
       IN groups' = [g \in DOMAIN groups \cup {gid} |->
                       IF g = gid THEN Append(eventsOf(g), e) ELSE groups[g]]
    /\ pc' = IF next = Len(sorted) THEN "annotate" ELSE pc
    /\ next' = IF next = Len(sorted) THEN 1 ELSE next + 1
    /\ UNCHANGED <<evs, sorted, annotated, all, rootCauses>>

\* The reasons seen before the i-th event of a group.
seenReasons(gevs, i) == {gevs[j].Reason : j \in 1 .. i - 1}

\* The first of the causes in causedByIndex that was seen, which may be any of
\* them: the index is filled by iterating over a map.
knownCause(reason, seen) ==
    LET causes == causedByIndex(reason) \cap seen
    IN IF causes = {} THEN {""} ELSE causes

correlated(e, gid, cause) ==
    [event |-> e, GroupID |-> gid, CausedBy |-> cause, IsRootCause |-> cause = ""]

annotateGroup(gid) ==
    /\ pc = "annotate" /\ gid \notin DOMAIN annotated
    /\ LET gevs == groups[gid]
           cause(i) == knownCause(gevs[i].Reason, seenReasons(gevs, i))
       IN \E c \in [DOMAIN gevs -> UNION {cause(i) : i \in DOMAIN gevs}] :
            /\ \A i \in DOMAIN gevs : c[i] \in cause(i)
            /\ annotated' = [g \in DOMAIN annotated \cup {gid} |->
                   IF g = gid THEN [i \in DOMAIN gevs |-> correlated(gevs[i], gid, c[i])]
                              ELSE annotated[g]]
    /\ pc' = IF DOMAIN annotated' = DOMAIN groups THEN "flatten" ELSE pc
    /\ UNCHANGED <<evs, sorted, next, groups, all, rootCauses>>

appendGroup(gid) == all \o annotated[gid]

\* The groups are appended in the order of another iteration over a map.
Flatten(gid) ==
    /\ pc = "flatten" /\ gid \in DOMAIN annotated
    /\ all' = appendGroup(gid)
    /\ annotated' = [g \in DOMAIN annotated \ {gid} |-> annotated[g]]
    /\ pc' = IF DOMAIN annotated' = {} THEN "order" ELSE pc
    /\ UNCHANGED <<evs, sorted, next, groups, rootCauses>>

\* The final sort compares the embedded LastSeen.
Order ==
    /\ pc = "order"
    /\ LET keyed == [i \in DOMAIN all |-> [LastSeen |-> all[i].event.LastSeen, ce |-> all[i]]]
       IN \E s \in orderings(keyed) : all' = [i \in DOMAIN s |-> s[i].ce]
    /\ pc' = "collect"
    /\ UNCHANGED <<evs, sorted, next, groups, annotated, rootCauses>>

\* One round of the loop that fills Timeline.RootCauses.
CollectRootCause ==
    /\ pc = "collect"
    /\ rootCauses' = IF all[next].IsRootCause THEN Append(rootCauses, all[next]) ELSE rootCauses
    /\ pc' = IF next = Len(all) THEN "done" ELSE pc
    /\ next' = IF next = Len(all) THEN 1 ELSE next + 1
    /\ UNCHANGED <<evs, sorted, groups, annotated, all>>

Next ==
    \/ CorrelateNothing \/ SortInput \/ Group \/ Order \/ CollectRootCause
    \/ \E gid \in DOMAIN groups : annotateGroup(gid) \/ Flatten(gid)

Spec == Init /\ [][Next]_vars

-----------------------------------------------------------------------------
(***************************************************************************)
(* Properties                                                              *)
(***************************************************************************)
\* The topmost owner known of an event's object.
Workload(e) == [namespace |-> e.Namespace, root |-> Last(<<e.Object>> \o e.OwnerChain)]

SameWorkload(e, f) == Workload(e) = Workload(f)

\* Correlate returns every event exactly once, in the order of LastSeen,
\* whatever the iteration order of its maps (correlator.go 40-47).
TimelineComplete ==
    pc = "done" =>
        /\ \A e \in ToSet(evs) :
             Cardinality({i \in DOMAIN all : all[i].event = e})
               = Cardinality({i \in DOMAIN evs : evs[i] = e})
        /\ Len(all) = Len(evs)
        /\ \A i, j \in DOMAIN all : i < j => all[i].event.LastSeen <= all[j].event.LastSeen

\* The annotation against its definition in types.go 15-21: an event names a
\* cause exactly when a causing event of its workload precedes it, where two
\* events of the same second may count either way (correlator.go 89-105).
CausesJustified ==
    pc = "done" =>
        \A i \in DOMAIN all :
            LET ce == all[i]
                before(f) == SameWorkload(f, ce.event) /\ f.LastSeen <= ce.event.LastSeen
            IN IF ce.IsRootCause
               THEN \A f \in ToSet(evs) :
                      before(f) /\ <<f.Reason, ce.event.Reason>> \in causalEdges
                        => f.LastSeen = ce.event.LastSeen
               ELSE /\ <<ce.CausedBy, ce.event.Reason>> \in causalEdges
                    /\ \E f \in ToSet(evs) : before(f) /\ f.Reason = ce.CausedBy

\* Every event can be traced to a root cause of its workload that is not later
\* than it, so a timeline with events always names a root cause and the branch
\* "no clear root cause identified" of summarise is never taken
\* (response.go 275-277).
EveryWorkloadHasRoot ==
    pc = "done" =>
        \A e \in ToSet(evs) : \E ce \in ToSet(rootCauses) :
            SameWorkload(ce.event, e) /\ ce.event.LastSeen <= e.LastSeen

\* correlator.go 16-17: "Events may come from multiple namespaces or objects;
\* the correlator groups them by the root of their owner chain".  Then a group
\* holds the events of one workload.
GroupsAreWorkloads ==
    pc = "done" =>
        \A i, j \in DOMAIN all :
            all[i].GroupID = all[j].GroupID => SameWorkload(all[i].event, all[j].event)

=============================================================================
