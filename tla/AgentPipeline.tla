----------------------------- MODULE AgentPipeline -----------------------------
(***************************************************************************)
(* internal/app/clusteragent, watcher.go and Run: how Kubernetes Event     *)
(* objects reach the store.  The informer (client-go, external) observes   *)
(* versions of Event objects and calls handle one notification at a time;  *)
(* handle normalizes and sends without blocking; one worker goroutine,     *)
(* started only once the informer cache is synced, enriches and stores.    *)
(* The process may crash at any time and starts again with empty memory.   *)
(***************************************************************************)
EXTENDS EventStore

CONSTANTS
    Objects,        \* Kubernetes Event objects
    RawEvent,       \* the successive versions the API server holds of each
    OwnerChains,    \* what ResolveOwnerChain may find
    PipelineBuffer, \* capacity of the pipeline channel, 512
    MaxRestarts     \* bound on crashes

Raw == [Namespace : STRING, Kind : STRING, Name : STRING, UID : STRING, Reason : STRING,
        Message : Seq(STRING), Count : Nat,
        FirstTimestamp : Nat, LastTimestamp : Nat, EventTime : Nat]

ASSUME RawAssumption == \A o \in Objects : RawEvent[o] \in Seq(Raw) /\ RawEvent[o] # <<>>
ASSUME ChainAssumption == OwnerChains \subseteq Seq(STRING)
ASSUME BufferAssumption == PipelineBuffer \in Nat \ {0} /\ MaxRestarts \in Nat

VARIABLES
    api,      \* object -> number of its newest version, 0 before it exists
    gone,     \* objects the API server has expired
    phase,    \* "starting", "syncing" (WaitForCacheSync) or "serving"
    initial,   \* object -> its version in the informer's first list
    cache,    \* object -> newest version the informer has observed
    notify,   \* notifications the informer has not delivered to handle yet
    pipeline, \* the buffered channel
    worker,   \* what runPipeline is enriching: <<>> or one item
    observed, \* versions the informer has observed since the start (history)
    episode,  \* version stored since the start -> ID of the entry Add gave it (history)
    lost,     \* versions dropped since the start (history)
    restarts  \* crashes so far

storeVars == vars
agentVars == <<phase, initial, cache, notify, pipeline, worker, observed, episode, lost>>
allVars == <<storeVars, agentVars, api, gone, restarts>>

-----------------------------------------------------------------------------
\* Mutants of the definitions below: plausible slips in the code they model.
NormalizeDroppingEventTime(raw) ==
    [Namespace |-> raw.Namespace, InvolvedObjectKind |-> raw.Kind, InvolvedObjectName |-> raw.Name,
     InvolvedObjectUID |-> raw.UID, OwnerChain |-> <<>>, Reason |-> raw.Reason,
     Message |-> raw.Message, Count |-> raw.Count,
     FirstSeen |-> raw.FirstTimestamp, LastSeen |-> raw.LastTimestamp]

sentEvictingOldest(item) ==
    IF Len(pipeline) < PipelineBuffer
    THEN pipeline' = Append(pipeline, item) /\ lost' = lost
    ELSE pipeline' = Append(Tail(pipeline), item) /\ lost' = lost

sentUnbounded(item) == pipeline' = Append(pipeline, item) /\ lost' = lost

sentAtFront(item) ==
    IF Len(pipeline) < PipelineBuffer
    THEN pipeline' = <<item>> \o pipeline /\ lost' = lost
    ELSE pipeline' = pipeline /\ lost' = lost \cup {item.src}

hasSyncedEmpty == \A o \in Objects : cache[o] > 0

-----------------------------------------------------------------------------
\* Whitespace is trimmed and collapsed: only the words of a message remain.
normalizeMessage(words) == SelectSeq(words, LAMBDA w : w # "")

\* SelectSeq, of which the provers know nothing, returns a sequence of words.
ASSUME WordsAssumption ==
    \A o \in Objects : \A v \in DOMAIN RawEvent[o] :
        normalizeMessage(RawEvent[o][v].Message) \in Seq(STRING)

\* EventTime, when set, replaces the last timestamp and stands in for a missing
\* first one; a count of zero means once.
Normalize(raw) ==
    [Namespace |-> raw.Namespace, InvolvedObjectKind |-> raw.Kind, InvolvedObjectName |-> raw.Name,
     InvolvedObjectUID |-> raw.UID, OwnerChain |-> <<>>, Reason |-> raw.Reason,
     Message |-> normalizeMessage(raw.Message),
     Count |-> IF raw.Count = 0 THEN 1 ELSE raw.Count,
     FirstSeen |-> IF raw.EventTime # 0 /\ raw.FirstTimestamp = 0
                   THEN raw.EventTime ELSE raw.FirstTimestamp,
     LastSeen |-> IF raw.EventTime # 0 THEN raw.EventTime ELSE raw.LastTimestamp]

Never == [o \in Objects |-> 0]

AgentInit ==
    /\ Init
    /\ phase = "starting"
    /\ initial = Never /\ cache = Never
    /\ notify = <<>> /\ pipeline = <<>> /\ worker = <<>>
    /\ observed = {} /\ episode = emptyMap /\ lost = {}

PipelineInit == AgentInit /\ api = Never /\ gone = {} /\ restarts = 0

-----------------------------------------------------------------------------
\* The API server creates or updates an Event object, and expires old ones.
Publish(o) ==
    /\ o \notin gone /\ api[o] < Len(RawEvent[o])
    /\ api' = [api EXCEPT ![o] = @ + 1]
    /\ UNCHANGED <<storeVars, agentVars, gone, restarts>>

Expire(o) ==
    /\ o \notin gone /\ api[o] > 0
    /\ gone' = gone \cup {o}
    /\ UNCHANGED <<storeVars, agentVars, api, restarts>>

\* Start: register the handler and start the informer, which lists what exists.
Start ==
    /\ phase = "starting"
    /\ phase' = "syncing"
    /\ initial' = [o \in Objects |-> IF o \in gone THEN 0 ELSE api[o]]
    /\ UNCHANGED <<storeVars, cache, notify, pipeline, worker, observed, episode, lost,
                   api, gone, restarts>>

\* The informer observes a version from its list or its watch; a watch that
\* breaks and is resumed by another list may skip versions.
Observe(o) ==
    /\ phase # "starting"
    /\ \E v \in cache[o] + 1 .. api[o] :
         /\ v >= initial[o]
         /\ cache' = [cache EXCEPT ![o] = v]
         /\ notify' = Append(notify, <<o, v>>)
         /\ observed' = observed \cup {<<o, v>>}
    /\ UNCHANGED <<storeVars, phase, initial, pipeline, worker, episode, lost, api, gone, restarts>>

hasSynced == \A o \in Objects : cache[o] >= initial[o]

\* The select of handle: send, or drop when the channel is full.
sent(item) ==
    IF Len(pipeline) < PipelineBuffer
    THEN pipeline' = Append(pipeline, item) /\ lost' = lost
    ELSE pipeline' = pipeline /\ lost' = lost \cup {item.src}

\* handle, for the next Add or Update notification; Delete has no handler.
handle ==
    /\ notify # <<>>
    /\ LET src == Head(notify)
       IN sent([src |-> src, event |-> Normalize(RawEvent[src[1]][src[2]])])
    /\ notify' = Tail(notify)
    /\ UNCHANGED <<storeVars, phase, initial, cache, worker, observed, episode, api, gone, restarts>>

\* WaitForCacheSync returns: the worker is started and Run begins to serve.
Synced ==
    /\ phase = "syncing" /\ hasSynced
    /\ phase' = "serving"
    /\ UNCHANGED <<storeVars, initial, cache, notify, pipeline, worker, observed, episode, lost,
                   api, gone, restarts>>

\* runPipeline takes the next event from the channel ...
Receive ==
    /\ phase = "serving" /\ worker = <<>> /\ pipeline # <<>>
    /\ worker' = <<Head(pipeline)>>
    /\ pipeline' = Tail(pipeline)
    /\ UNCHANGED <<storeVars, phase, initial, cache, notify, observed, episode, lost,
                   api, gone, restarts>>

\* The entry Add gives an event: the episode it continues, or a new one.
entryOf(e) == IF Continues(e) THEN latestID(e) ELSE nextID

\* ... and stores it with the chain it resolved, without one on an error.
Store ==
    /\ worker # <<>>
    /\ \/ Add(worker[1].event)
       \/ \E chain \in OwnerChains : Add([worker[1].event EXCEPT !.OwnerChain = chain])
    /\ worker' = <<>>
    /\ episode' = put(episode, worker[1].src, entryOf(worker[1].event))
    /\ UNCHANGED <<phase, initial, cache, notify, pipeline, observed, lost, api, gone, restarts>>

\* The process dies; everything it held in memory is gone.
Crash ==
    /\ restarts < MaxRestarts /\ phase # "starting"
    /\ restarts' = restarts + 1
    /\ order' = [slot \in 0 .. maxSize - 1 |-> 0]
    /\ head' = 0 /\ full' = FALSE /\ nextID' = 0
    /\ byID' = emptyMap /\ dedupIdx' = emptyMap /\ evictIdx' = emptyMap
    /\ byNamespace' = emptyMap /\ byUID' = emptyMap /\ byReason' = emptyMap
    /\ phase' = "starting"
    /\ initial' = Never /\ cache' = Never
    /\ notify' = <<>> /\ pipeline' = <<>> /\ worker' = <<>>
    /\ observed' = {} /\ episode' = emptyMap /\ lost' = {}
    /\ UNCHANGED <<api, gone>>

PipelineNext ==
    \/ \E o \in Objects : Publish(o) \/ Expire(o) \/ Observe(o)
    \/ Start \/ handle \/ Synced \/ Receive \/ Store \/ Crash

\* An object still in the API, or in the initial list, is observed eventually;
\* the Go scheduler runs every goroutine that can run.
PipelineFairness ==
    /\ \A o \in Objects : WF_allVars(Observe(o) /\ (o \notin gone \/ cache[o] < initial[o]))
    /\ WF_allVars(Start) /\ WF_allVars(handle) /\ WF_allVars(Synced)
    /\ WF_allVars(Receive) /\ WF_allVars(Store)

PipelineSpec == PipelineInit /\ [][PipelineNext]_allVars /\ PipelineFairness

-----------------------------------------------------------------------------
(***************************************************************************)
(* Properties                                                              *)
(***************************************************************************)
Version == Objects \X Nat
Item == [src : Version, event : NormalizedEvent]

\* The type of the agent's state.
PipelineTypeOK ==
    /\ TypeOK
    /\ phase \in {"starting", "syncing", "serving"}
    /\ gone \subseteq Objects
    /\ \A f \in {api, initial, cache} : f \in [Objects -> Nat]
    /\ notify \in Seq(Version) /\ \A i \in DOMAIN notify : notify[i][2] \in 1 .. api[notify[i][1]]
    /\ pipeline \in Seq(Item) /\ worker \in Seq(Item)
    /\ Len(pipeline) <= PipelineBuffer /\ Len(worker) <= 1

\* The versions on their way to the store, the next one to arrive first.
inFlight ==
    [i \in DOMAIN worker |-> worker[i].src] \o [i \in DOMAIN pipeline |-> pipeline[i].src] \o notify

\* The versions that have been stored.
done == DOMAIN episode

\* Every version the informer has observed since the start, superseded ones
\* included, is on its way, stored or dropped by handle, and nothing else is: no
\* step of the watcher loses a version silently, and none delivers one twice.
NothingVanishes ==
    /\ observed = ToSet(inFlight) \cup done \cup lost
    /\ IsInjective(inFlight)
    /\ ToSet(inFlight) \cap (done \cup lost) = {} /\ done \cap lost = {}

\* Versions of one Event object are stored in the order they were published:
\* an old count can never arrive after a new one and look like a count reset.
VersionsInOrder ==
    LET before(x, y) == x[1] = y[1] => x[2] < y[2] IN
    /\ \A i, j \in DOMAIN inFlight : i < j => before(inFlight[i], inFlight[j])
    /\ \A x \in done : \A i \in DOMAIN inFlight : before(x, inFlight[i])

\* The stored episode i speaks for a version of an Event object: same key, no
\* smaller count, seen at least as late and from as early on.  The last time
\* that counts is EventTime when it is set, even where LastTimestamp is later
\* (normalize.go l.15: EventTime takes precedence), and LastTimestamp otherwise.
speaksFor(i, raw) ==
    LET last  == IF raw.EventTime # 0 THEN raw.EventTime ELSE raw.LastTimestamp
        first == IF raw.FirstTimestamp # 0 THEN raw.FirstTimestamp ELSE raw.EventTime
    IN /\ byID[i].Reason = raw.Reason /\ byID[i].InvolvedObjectUID = raw.UID
       /\ byID[i].Count > 0 /\ byID[i].Count >= raw.Count
       /\ byID[i].LastSeen >= last
       /\ first # 0 => byID[i].FirstSeen \in 1 .. first

\* A stored version is represented: its own episode speaks for it, until
\* maxSize later insertions have evicted that episode.
represented(x) ==
    \/ episode[x] < oldest
    \/ episode[x] \in DOMAIN byID /\ speaksFor(episode[x], RawEvent[x[1]][x[2]])

\* Every version the worker stored is represented, however versions of several
\* objects with the same (uid, reason) were merged into one episode or split
\* over several, and whatever the ring evicted meanwhile (Normalize,
\* runPipeline, Add): a version is forgotten only with its episode.
StoredIsRepresented == \A x \in done : represented(x)

\* After a start or a restart the store catches up with the API server: the
\* newest version of every Event object that exists is eventually dropped by
\* handle, or stored and represented.
CatchesUp ==
    <>[](/\ phase = "serving"
         /\ \A o \in Objects \ gone :
              LET x == <<o, api[o]>>
              IN api[o] > 0 => x \in lost \/ (x \in done /\ represented(x)))

\* store.go 24-27: events of one key "are upserted in place as long as they
\* belong to the same burst episode.  A new burst is detected when the incoming
\* count resets", and store.go 144: "count reset -> new K8s event object was
\* created".  Then versions of one Event object, whose count never went back, are
\* kept in one episode unless the gap between them is large.
BurstsNotSplit ==
    \A x, y \in done :
        LET event(z) == Normalize(RawEvent[z[1]][z[2]])
        IN /\ x[1] = y[1] /\ x[2] < y[2]
           /\ episode[x] \in DOMAIN byID
           /\ isSameBurst(event(y), event(x))
           => episode[y] = episode[x]

=============================================================================
