------------------------------ MODULE EventStore ------------------------------
(***************************************************************************)
(* pkg/store: the fixed-capacity ring buffer of normalized events of a     *)
(* cluster agent, with its three inverted indexes and its burst            *)
(* deduplication.  Every method holds Store.mu for its whole body, so one  *)
(* call is one action.  Times are naturals and 0 is Go's zero time.Time;   *)
(* Go maps are functions whose domain is the set of keys present.          *)
(***************************************************************************)
EXTENDS Episodes, FiniteSets, Functions, SequencesExt

CONSTANTS
    Incoming,        \* the normalized events the pipeline may hand to Add
    RequestedSize,   \* the maxSize argument of New (EVENT_STORE_SIZE)
    DefaultMaxSize,  \* 10_000
    MaxBurstsPerKey  \* 5

ASSUME SizeAssumption == RequestedSize \in Int /\ DefaultMaxSize \in Nat \ {0}
ASSUME BurstsAssumption == MaxBurstsPerKey \in Nat \ {0}
\* The zero time lies further back than any gap: a set time exceeds BurstGap.
ASSUME IncomingAssumption ==
    /\ Incoming \subseteq NormalizedEvent
    /\ \A e \in Incoming : e.FirstSeen = 0 \/ e.FirstSeen > BurstGap

VARIABLES
    order,       \* ring buffer of event IDs, slots 0 .. maxSize-1
    head,        \* next write slot
    full,        \* has the ring wrapped?
    nextID,      \* ID of the next inserted event
    byID,        \* ID -> event
    dedupIdx,    \* (uid, reason) -> IDs of its tracked burst episodes, oldest first
    evictIdx,    \* tracked ID -> its (uid, reason)
    byNamespace, \* inverted indexes: field value -> set of IDs
    byUID,
    byReason

vars == <<order, head, full, nextID, byID, dedupIdx, evictIdx,
          byNamespace, byUID, byReason>>

-----------------------------------------------------------------------------
\* New replaces a size that is not positive by the default.
maxSize == IF RequestedSize <= 0 THEN DefaultMaxSize ELSE RequestedSize

emptyMap == [x \in {} |-> {}]

\* The map m after m[k] = x.
put(m, k, x) == [i \in DOMAIN m \cup {k} |-> IF i = k THEN x ELSE m[i]]

Init ==
    /\ order = [slot \in 0 .. maxSize - 1 |-> 0]
    /\ head = 0
    /\ full = FALSE
    /\ nextID = 0
    /\ byID = emptyMap
    /\ dedupIdx = emptyMap
    /\ evictIdx = emptyMap
    /\ byNamespace = emptyMap
    /\ byUID = emptyMap
    /\ byReason = emptyMap

-----------------------------------------------------------------------------
\* Mutants of the definitions below: plausible slips in the code they model.
removeFromIndexKeepingEmpty(idx, key, id) ==
    IF key \in DOMAIN idx THEN [idx EXCEPT ![key] = @ \ {id}] ELSE idx

trackedDroppingNewest(ids, id) ==
    IF Len(ids) < MaxBurstsPerKey THEN Append(ids, id) ELSE ids

wrappedEarly(slot) == slot + 1 = maxSize - 1

nextSlotUnwrapped(slot) == slot + 1

nextSlotSticky(slot) == IF slot + 1 = maxSize THEN slot ELSE slot + 1

-----------------------------------------------------------------------------
\* Events without a value for the indexed field are not indexed.
addToIndex(idx, key, id) ==
    IF key = "" THEN idx
    ELSE put(idx, key, (IF key \in DOMAIN idx THEN idx[key] ELSE {}) \cup {id})

\* An index entry goes away with the last ID it holds.
removeFromIndex(idx, key, id) ==
    IF key \notin DOMAIN idx THEN idx
    ELSE IF idx[key] \ {id} = {} THEN Restrict(idx, DOMAIN idx \ {key})
    ELSE [idx EXCEPT ![key] = @ \ {id}]

\* The tracked episodes of a key once a new one is appended: at most
\* MaxBurstsPerKey, the oldest is dropped from the history.
tracked(ids, id) ==
    IF Len(ids) < MaxBurstsPerKey THEN Append(ids, id) ELSE Append(Tail(ids), id)

untracked(ids) == IF Len(ids) < MaxBurstsPerKey THEN {} ELSE {Head(ids)}

episodes(dedup, key) == IF key \in DOMAIN dedup THEN dedup[key] ELSE <<>>

nextSlot(slot) == (slot + 1) % maxSize

wraps(slot) == nextSlot(slot) = 0

\* The maps a call may change, as one value, so that evict composes with Add.
maps == [byID |-> byID, dedupIdx |-> dedupIdx, evictIdx |-> evictIdx,
         byNamespace |-> byNamespace, byUID |-> byUID, byReason |-> byReason]

\* evict's clean-up of the dedup history: dedupIdx without id.
forget(dedup, evictable, id) ==
    IF id \notin DOMAIN evictable THEN dedup
    ELSE LET key == evictable[id]
             ids == RemoveFirst(episodes(dedup, key), id)
         IN IF ids = <<>> THEN Restrict(dedup, DOMAIN dedup \ {key})
            ELSE [dedup EXCEPT ![key] = ids]

evict(id) ==
    IF id \notin DOMAIN byID THEN maps
    ELSE [byID        |-> Restrict(byID, DOMAIN byID \ {id}),
          dedupIdx    |-> forget(dedupIdx, evictIdx, id),
          evictIdx    |-> Restrict(evictIdx, DOMAIN evictIdx \ {id}),
          byNamespace |-> removeFromIndex(byNamespace, byID[id].Namespace, id),
          byUID       |-> removeFromIndex(byUID, byID[id].InvolvedObjectUID, id),
          byReason    |-> removeFromIndex(byReason, byID[id].Reason, id)]

-----------------------------------------------------------------------------
\* The episode Add would update is the newest one tracked for e's key.
latestID(e) == Last(dedupIdx[dedupKey(e)])

Continues(e) ==
    /\ e.InvolvedObjectUID # ""
    /\ Len(episodes(dedupIdx, dedupKey(e))) > 0
    /\ latestID(e) \in DOMAIN byID
    /\ isSameBurst(e, byID[latestID(e)])

\* Add, update path: the event continues the latest burst of its key.
Update(e) ==
    /\ Continues(e)
    /\ byID' = [byID EXCEPT ![latestID(e)] = updated(@, e)]
    /\ UNCHANGED <<order, head, full, nextID, dedupIdx, evictIdx,
                   byNamespace, byUID, byReason>>

\* Add, insert path: a new event or a new burst episode.
Insert(e) ==
    LET m   == IF full THEN evict(order[head]) ELSE maps
        id  == nextID
        key == dedupKey(e)
        ids == episodes(m.dedupIdx, key)
    IN /\ ~Continues(e)
       /\ nextID' = nextID + 1
       /\ byID' = put(m.byID, id, e)
       /\ order' = [order EXCEPT ![head] = id]
       /\ head' = nextSlot(head)
       /\ full' = (full \/ wraps(head))
       /\ IF e.InvolvedObjectUID # ""
          THEN /\ dedupIdx' = put(m.dedupIdx, key, tracked(ids, id))
               /\ evictIdx' = put(Restrict(m.evictIdx, DOMAIN m.evictIdx \ untracked(ids)), id, key)
          ELSE dedupIdx' = m.dedupIdx /\ evictIdx' = m.evictIdx
       /\ byNamespace' = addToIndex(m.byNamespace, e.Namespace, id)
       /\ byUID' = addToIndex(m.byUID, e.InvolvedObjectUID, id)
       /\ byReason' = addToIndex(m.byReason, e.Reason, id)

Add(e) == Update(e) \/ Insert(e)

Next == \E e \in Incoming : Add(e)

Spec == Init /\ [][Next]_vars

-----------------------------------------------------------------------------
(***************************************************************************)
(* Properties                                                              *)
(***************************************************************************)
Key == [objectUID : STRING, reason : STRING]

PartialFcn(f, S, T) == DOMAIN f \subseteq S /\ \A x \in DOMAIN f : f[x] \in T

\* The type of the store's fields.
TypeOK ==
    /\ order \in [0 .. maxSize - 1 -> Nat]
    /\ head \in 0 .. maxSize - 1
    /\ full \in BOOLEAN
    /\ nextID \in Nat
    /\ PartialFcn(byID, Nat, NormalizedEvent)
    /\ PartialFcn(dedupIdx, Key, Seq(Nat))
    /\ PartialFcn(evictIdx, Nat, Key)
    /\ PartialFcn(byNamespace, STRING, SUBSET Nat)
    /\ PartialFcn(byUID, STRING, SUBSET Nat)
    /\ PartialFcn(byReason, STRING, SUBSET Nat)

\* The oldest ID a ring of maxSize slots can still hold.
oldest == IF nextID <= maxSize THEN 0 ELSE nextID - maxSize

\* The ring and the primary map agree (Add l.105-119, evict): exactly the last
\* maxSize inserted IDs are stored, and slot by slot the ring holds them in
\* insertion order, so that order[head] is always the oldest one.
RingWindow ==
    /\ DOMAIN byID = oldest .. nextID - 1
    /\ full <=> nextID >= maxSize
    /\ ~full => head = nextID
    /\ \A s \in 0 .. head - 1 : order[s] = nextID - head + s
    /\ full => \A s \in head .. maxSize - 1 : order[s] = nextID - head + s - maxSize

\* What an inverted index over a field of the stored events must be: an entry
\* for every value that occurs, none for "" and none that is empty.
IndexOf(field) ==
    [v \in {field[i] : i \in DOMAIN field} \ {""} |-> {i \in DOMAIN field : field[i] = v}]

\* addToIndex and removeFromIndex keep each index exact through insertions and
\* evictions: no stored event is missing and no evicted ID or empty entry is
\* left behind (Add l.134-136, evict l.182-184).
IndexesExact ==
    /\ byNamespace = IndexOf([i \in DOMAIN byID |-> byID[i].Namespace])
    /\ byUID = IndexOf([i \in DOMAIN byID |-> byID[i].InvolvedObjectUID])
    /\ byReason = IndexOf([i \in DOMAIN byID |-> byID[i].Reason])

\* The stored events of a key, whether their episode is tracked or not.
stored(b, key) == {i \in DOMAIN b : b[i].InvolvedObjectUID # "" /\ dedupKey(b[i]) = key}

listed(ids, i) == \E j \in 1 .. Len(ids) : ids[j] = i

\* ids lists the newest members of S in ascending order, at most
\* MaxBurstsPerKey of them and all of them when there are fewer.
NewestOf(ids, S) ==
    /\ Len(ids) <= MaxBurstsPerKey
    /\ \A j \in 1 .. Len(ids) : ids[j] \in S
    /\ \A i, j \in 1 .. Len(ids) : i < j => ids[i] < ids[j]
    /\ \A i \in S : listed(ids, i) \/ (Len(ids) = MaxBurstsPerKey /\ i < ids[1])

DedupExact(b, d, v) ==
    /\ \A key \in DOMAIN d : d[key] # <<>> /\ NewestOf(d[key], stored(b, key))
    /\ \A i \in DOMAIN b : b[i].InvolvedObjectUID # "" => dedupKey(b[i]) \in DOMAIN d
    /\ \A i \in DOMAIN v : v[i] \in DOMAIN d /\ listed(d[v[i]], i)
    /\ \A key \in DOMAIN d, i \in DOMAIN b :
         listed(d[key], i) => i \in DOMAIN v /\ v[i] = key

\* The dedup history of every key lists its newest stored episodes, oldest
\* first, at most MaxBurstsPerKey of them and all of them when there are fewer;
\* evictIdx is its exact inverse (Add l.121-132, evict l.166-180).
DedupTracksLatest == DedupExact(byID, dedupIdx, evictIdx)

\* What Add may do to an event already stored (Add l.85-98 and isSameBurst):
\* its identity is fixed, its count and lastSeen never go back, a known
\* firstSeen only moves earlier, a known owner chain is never lost, and its
\* message changes only together with lastSeen.
EpisodeMonotone ==
    [][\A i \in DOMAIN byID \cap DOMAIN byID' :
         LET old == byID[i]
             new == byID'[i]
         IN /\ dedupKey(new) = dedupKey(old) /\ new.Namespace = old.Namespace
            /\ new.Count >= old.Count
            /\ new.LastSeen >= old.LastSeen
            /\ old.FirstSeen # 0 => new.FirstSeen \in 1 .. old.FirstSeen
            /\ old.OwnerChain # <<>> => new.OwnerChain # <<>>
            /\ new.Message # old.Message => new.LastSeen > old.LastSeen]_vars

-----------------------------------------------------------------------------
\* The store as an EventLog: the ring, the indexes, the dedup history and its
\* limit of MaxBurstsPerKey are not visible in what is stored.
Log == INSTANCE EventLog WITH Capacity <- maxSize, log <- byID, next <- nextID

\* Whatever the ring, the dedup history and the indexes do, the stored events
\* are those of a bounded log that compares each new event with the newest
\* stored episode of its (uid, reason) and forgets its oldest entry (Add).
ImplementsEventLog == Log!Spec

=============================================================================
