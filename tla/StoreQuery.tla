------------------------------ MODULE StoreQuery ------------------------------
(***************************************************************************)
(* The read side of pkg/store: Query and SummarizeNamespace, which hold    *)
(* the read lock and change nothing.  A query result is a sequence of IDs; *)
(* the code returns copies of the events, read under the same lock.  The   *)
(* iteration order of a Go map is arbitrary, so Query denotes the set of   *)
(* the results it may return.                                              *)
(***************************************************************************)
EXTENDS EventStore

CONSTANTS
    Filters,   \* the store.Filter values asked about
    MaxInt32   \* 2^31 - 1: an int32 is a NamespaceSummary.TotalCount and a limit on the wire

ASSUME FilterAssumption ==
    Filters \subseteq [Namespace : STRING, ObjectUID : STRING, Reason : STRING,
                       Since : Nat, Limit : Nat]
ASSUME MaxInt32Assumption == MaxInt32 \in Nat

-----------------------------------------------------------------------------
\* Mutants of the definitions below: plausible slips in the code they model.
candidateIDsOfOneIndex(f) ==
    CASE f.Namespace # "" -> IF f.Namespace \in DOMAIN byNamespace THEN byNamespace[f.Namespace] ELSE {}
      [] f.ObjectUID # "" -> IF f.ObjectUID \in DOMAIN byUID THEN byUID[f.ObjectUID] ELSE {}
      [] OTHER -> DOMAIN byID

addToGroupUnsummed(groups, id) ==
    LET e == byID[id] IN
    [groups EXCEPT ![e.Reason] =
        [count |-> e.Count, objects |-> @.objects \cup {e.InvolvedObjectName},
         lastSeen |-> e.LastSeen]]

-----------------------------------------------------------------------------
\* A missing key of a Go map reads as the empty set.
lookup(idx, v) == IF v \in DOMAIN idx THEN idx[v] ELSE {}

\* The index sets of the fields the filter constrains.
constrained(f) ==
    (IF f.Namespace # "" THEN {lookup(byNamespace, f.Namespace)} ELSE {})
    \cup (IF f.ObjectUID # "" THEN {lookup(byUID, f.ObjectUID)} ELSE {})
    \cup (IF f.Reason # "" THEN {lookup(byReason, f.Reason)} ELSE {})

intersect(sets) == {id \in UNION sets : \A s \in sets : id \in s}

candidateIDs(f) == IF constrained(f) = {} THEN DOMAIN byID ELSE intersect(constrained(f))

\* One round of the insertion sort: id moves left past strictly older events.
insertByLastSeen(ids, id) ==
    LET before == {j \in 1 .. Len(ids) : byID[ids[j]].LastSeen >= byID[id].LastSeen}
    IN InsertAt(ids, Max({0} \cup before) + 1, id)

sortByLastSeenDesc(ids) == FoldLeft(insertByLastSeen, <<>>, ids)

recent(f, ids) == {id \in ids : id \in DOMAIN byID
                                /\ ~(f.Since # 0 /\ byID[id].LastSeen < f.Since)}

truncate(f, ids) == IF f.Limit > 0 /\ Len(ids) > f.Limit THEN SubSeq(ids, 1, f.Limit) ELSE ids

Query(f) ==
    {truncate(f, sortByLastSeenDesc(ids)) : ids \in SetToSeqs(recent(f, candidateIDs(f)))}

-----------------------------------------------------------------------------
\* How many values an int32 has, and the one that n becomes in two's complement.
int32Width == 2 * (MaxInt32 + 1)

wrap(n) == ((n + MaxInt32 + 1) % int32Width) - (MaxInt32 + 1)

newGroup == [count |-> 0, objects |-> {}, lastSeen |-> 0]

addToGroup(groups, id) ==
    LET e == byID[id] IN
    [groups EXCEPT ![e.Reason] =
        [count    |-> wrap(@.count + e.Count),
         objects  |-> @.objects \cup {e.InvolvedObjectName},
         lastSeen |-> IF e.LastSeen > @.lastSeen THEN e.LastSeen ELSE @.lastSeen]]

\* The summaries by reason; the code returns them in arbitrary order.
SummarizeNamespace(namespace, since) ==
    LET f == [Namespace |-> namespace, ObjectUID |-> "", Reason |-> "",
              Since |-> since, Limit |-> 0]
    IN {FoldLeft(addToGroup, [r \in {byID[i].Reason : i \in ToSet(evs)} |-> newGroup], evs) :
          evs \in Query(f)}

-----------------------------------------------------------------------------
(***************************************************************************)
(* Properties                                                              *)
(***************************************************************************)
\* Does the stored event satisfy the filter, looking at the event alone?
Matches(f, e) ==
    /\ f.Namespace \in {"", e.Namespace}
    /\ f.ObjectUID \in {"", e.InvolvedObjectUID}
    /\ f.Reason \in {"", e.Reason}
    /\ f.Since = 0 \/ e.LastSeen >= f.Since

\* Query (store.go 208-293), through three incremental indexes, returns what a
\* scan of all stored events would: matching events, each once, newest first,
\* and when the limit cuts some off, none of those is newer than any returned.
QueryCorrect ==
    \A f \in Filters : \A r \in Query(f) :
        LET found    == ToSet(r)
            expected == {i \in DOMAIN byID : Matches(f, byID[i])}
        IN /\ found \subseteq expected /\ IsInjective(r)
           /\ Len(r) = IF f.Limit = 0 \/ f.Limit > Cardinality(expected)
                       THEN Cardinality(expected) ELSE f.Limit
           /\ \A i, j \in 1 .. Len(r) : i < j => byID[r[i]].LastSeen >= byID[r[j]].LastSeen
           /\ \A i \in expected \ found, j \in found : byID[i].LastSeen <= byID[j].LastSeen

totalOf(ids) == SumFunction([i \in ids |-> byID[i].Count])

\* SummarizeNamespace (store.go 305-342) has one summary for every reason that
\* occurs among the namespace's events, with the objects and the newest
\* lastSeen of all its episodes, and with their exact total as long as that
\* fits the counter; beyond that the total is only right modulo int32Width.
SummaryCorrect ==
    \A f \in Filters : \A s \in SummarizeNamespace(f.Namespace, f.Since) :
        LET evs == {i \in DOMAIN byID :
                      Matches([f EXCEPT !.ObjectUID = "", !.Reason = ""], byID[i])}
        IN /\ DOMAIN s = {byID[i].Reason : i \in evs}
           /\ \A reason \in DOMAIN s :
                LET group == {i \in evs : byID[i].Reason = reason}
                IN /\ (totalOf(group) - s[reason].count) % int32Width = 0
                   /\ totalOf(group) <= MaxInt32 => s[reason].count = totalOf(group)
                   /\ s[reason].objects = {byID[i].InvolvedObjectName : i \in group}
                   /\ s[reason].lastSeen = Max({byID[i].LastSeen : i \in group})

=============================================================================
