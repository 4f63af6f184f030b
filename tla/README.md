# A verification project for mcp-k8s

mcp-k8s answers questions about Kubernetes incidents.  A *cluster agent* in each
cluster watches Kubernetes Events, enriches them and keeps them in a bounded
store; a *coordinator* plans a user's query, calls the agent of the cluster over
gRPC, correlates the events it gets and builds a reply, with an LLM if one is
configured.  This directory holds TLA+ models of that logic, their TLC
configurations and TLAPS proofs.  `PROJECT.json` lists the components, runs,
mutants, the source lines each definition models, findings, hazards and
theorems.

## 1. Inventory

| Component | State | Operations | What is hard | Correct when |
|---|---|---|---|---|
| `pkg/store` (write) | ring `order`/`head`/`full`, `byID`, dedup history, three indexes | `New`, `Add`, `evict` | wrap-around, eviction of tracked and untracked episodes, merging of bursts | ring, map, history and indexes agree; episodes only grow |
| `pkg/store` (read) | none | `Query`, `SummarizeNamespace` | answers come from incremental indexes; `int32` totals; map order | answers equal a scan of the events |
| `pkg/events` | none | `Normalize` | unset timestamps and counts | nothing an event says is lost |
| `pkg/events/dedup.go` | an index | `Merge`, `Get`, `Snapshot` | used by tests only | – |
| `internal/app/clusteragent` watcher | informer cache, bounded channel, one worker | `Start`, `handle`, `runPipeline` | the worker starts after the sync, full channel, restart, no resync | every version arrives in order or is dropped by `handle`; the store catches up |
| `pkg/enrichment` owner chain | none | `ResolveOwnerChain` | one request per link while the cluster changes; cycles | every link of the chain was real; the walk ends |
| `pkg/enrichment` snapshots | none | `GetObjectSnapshot` | two reads of one object, a walk that fails, messages cut at a byte | the reads are in order, a failing walk does not cost the snapshot, the reply can be sent |
| agent gRPC server | none | seven methods | a request makes several calls while the store changes | a reply is genuine and consistent over its calls |
| coordinator registry | entries, connections, file | `Register`, `Unregister`, `Client`, `save`, `Load` | clients used after the lock is released, crash during a save, I/O errors | no stale or leaked connection; the file is whole, and a failed save is made up for |
| `pkg/planner` | none | `Plan` | incomplete queries, queries made by an LLM | a query gives calls an agent has, or an error |
| gateway, executor | one request | `handleQuery`, `handleAsk`, `Execute`, shutdown | steps that fail, registry changes between steps, LLM failures, no deadlines | every call is accounted for, one agent per reply, requests and shutdowns end |
| `pkg/correlation` | none | `Correlate` | unstable sort, map order, ties | the timeline is complete and causes are justified |
| response builder | none | `Build`, `summarise` | parts computed separately, one mode without a timeline | all modes say the same |
| `pkg/llm` | none | `Chat`, `Summarize`, `SummarizeTimeline` | ways an exchange fails, empty texts | the prompt shows the causes it names |
| `cmd`, `proto/gen` | none | flags, generated code | – | – |

How they interact: the informer calls `handle`, which sends to the channel; the
worker receives, calls the enricher and then `Store.Add`; gRPC methods read the
store under its lock.  On the coordinator side HTTP handlers run concurrently,
share the registry and nothing else, and use gRPC clients outside its lock.

## 2. Modules

| Module | Models | State and actions |
|---|---|---|
| `Episodes` | `NormalizedEvent`, `isSameBurst`, the in-place update | operators |
| `EventLog` | abstract: a bounded log of episodes | `Continue`, `Begin` |
| `EventStore` | `pkg/store` write side | the fields of `Store`; `Add` = `Update` or `Insert` |
| `EventStoreProofs` | proofs about `EventStore` | – |
| `StoreQuery` | `pkg/store` read side | operators over the state of `EventStore` |
| `StoreQueryProofs` | proofs about `StoreQuery` | – |
| `AgentPipeline` | `watcher.go`, `normalize.go`, `Run` | extends `EventStore` with the API server, informer, channel and worker; `Start`, `handle`, `Synced`, `Receive`, `Store`, `Crash` |
| `AgentPipelineProofs` | proofs about `AgentPipeline` | – |
| `AgentServer` | the methods of `server.go` that read the store, the loop of `Execute` | extends `StoreQuery` and `Planner` with the session of one plan; one action per method called, interleaved with `Add` |
| `AgentServerProofs` | proofs about `AgentServer` and the plans it runs | – |
| `OwnerChain` | `ownerchain.go` | the cluster and one walk; `Fetch`, `StopAtUnknownKind`, `FetchFails`, external `Put`, `Delete` |
| `ObjectSnapshot` | `snapshot.go`, `ResolveOwnerChain` and `GetObjectSnapshot` of `server.go` | extends `OwnerChain` with one call of the agent: `FetchSnapshot`, `SnapshotFails`, `Walk`, `Reply` |
| `ObjectSnapshotProofs` | proofs about `OwnerChain` and `ObjectSnapshot` | – |
| `Registry` | `registry.go`, `handleRegister`, `handleUnregister`, `Load` in `Run` | entries, connections, lock, file; one action per request step, save step, crash and restart |
| `RegistryProofs` | proofs about `Registry` | – |
| `Planner` | `pkg/planner` | operators |
| `Ollama` | `ollama.go` | operators over the outcomes of an HTTP exchange |
| `Gateway` | `handleQuery`, `handleAsk`, `Execute`, `runStep`, the shutdown in `Run` | extends `Planner`, `Registry` and `Ollama` with one record per request |
| `GatewayProofs` | proofs about `Gateway` and `Planner` | – |
| `Correlator` | `pkg/correlation` | one call of `Correlate`: its stages, its loops one iteration at a time |
| `Response` | `response.go`, `prompt.go` | operators over the timeline of `Correlator` |
| `CorrelatorProofs` | proofs about `Correlator` and `Response` | – |
| `MC*` | small instances | constants only, and a bound on insertions |

Conventions.  Times are naturals and 0 is Go's zero time.  Go maps are functions
whose domain is the set of keys present.  A call that holds a mutex for its
whole body is one action, except where it writes a file, which a crash can
interrupt.  Definitions with names such as `sentAtFront`, in the section
"Mutants" of a module, are plausible slips; nothing uses them except the
mutation checks listed in `PROJECT.json`.

Abstractions.  An owner chain is a sequence of identities, a message the sequence
of its words (in `ObjectSnapshot`, of the widths of its characters), and in
`Gateway` the result of a call "one item" or "no item"; `AgentServer` follows the
items themselves.  The cluster name is the same in all events of an agent.  The labels
of a registration are carried along with its endpoint.  In `Correlator` an object is
its UID and its kind and name.  `knownCause` may return any seen cause, since
the order of `causedByIndex` comes from a map iteration at start-up.

## 3. Runs

| Run | Shows | Bounds and why they suffice |
|---|---|---|
| `event_store` | exactness of ring, indexes and history; `EpisodeMonotone`; implements `EventLog`; `Query` and summaries against their definitions | ring of 4, 8 insertions (every slot is reused), 2 tracked bursts per key, 6 events: unset, continuing, later and reset ones, two keys of one object, no uid; 48 filters, totals that overflow a `MaxInt32` of 3 |
| `agent_server` | `CollectedOnce`, `CollectedGenuine`, `SummaryCovered` | the default size 3 (requested 0), 4 insertions, so that an episode is evicted between two calls; plans of all intents; limits beyond a `MaxInt32` of 7 |
| `agent_pipeline` | nothing vanishes, order, representation, `CatchesUp` | 3 Event objects with up to 2 versions, two of them with the same key, one with an `EventTime` before its `LastTimestamp`; channel of 2, so it fills before and after the sync; ring of 2, so it evicts; one crash at any point |
| `object_snapshot` | `ChainGenuine`, `ReadsInOrder`, `ChainFailureTolerated`, `CallEnds` | 3 objects, one of a kind that cannot be fetched, references that form cycles, depth 3, two changes (the object or its owner is replaced, deleted or adopted); messages of 0 to 4 bytes, cut at 2 |
| `registry` | connections, file, lock | 2 clusters, 2 endpoints, 2 queries, 2 dials, 1 crash, any save may fail |
| `gateway` | types of requests (every mode, plan and result is one the code knows), accounting, one agent per reply, status, `RequestEnds`, `ShutdownEnds` | 1 request slot used repeatedly, all intents, 2 endpoints, 2 dials, 1 crash or shutdown; no registry file, which `registry` covers |
| `correlator` | completeness, causes, roots, `ModesAgree`, `PromptGrounded` | all sequences of up to 3 of 10 events, stable sorting up to 2 events (12 in Go), all orders |

Runs that end in a violation, each a disagreement between the code and a
sentence of the repository (quoted in `PROJECT.json`):

* `bursts`: two Event objects of one pod and reason, such as those of a readiness
  and a liveness probe, are updated in turn; the lower count of the one looks like a
  reset of the other, and a burst without reset or gap is split over two episodes.
* `snapshot_delivered`: a termination message cut inside a character cannot be
  encoded, and the whole snapshot is lost.
* `multi_status`: 207 although a namespace summary or an owner chain was collected.
* `ask_answer`: no answer in technical mode when the narration fails, nor in any
  mode when the LLM returns an empty text.
* `namesakes`: custom resources with the same name in two namespaces share a group.

Deadlock is checked where the system always has something to do (`registry`,
`gateway`).  The other configurations say `CHECK_DEADLOCK FALSE`: a cluster may
stop reporting events, and a call returns.

### Fairness

* `PipelineFairness`: the Go scheduler runs the handler goroutine, `Start` and the
  worker whenever they can run; client-go observes an object that exists or is
  in its list.  Publishing, expiring and crashing are not fair.
* `Registry.Fairness`: a goroutine that holds `Registry.mu` goes on (file operations
  return, with or without an error), and a dead pod is started again.
* `SnapshotFairness`: a request to the API server returns, and the handler goes on.
* `GatewayFairness`: the holder of the lock goes on.  A call to an agent or to the LLM
  returns; the code sets no deadline, but passes on the context of the request,
  which ends when the caller leaves, so what is assumed is that an agent answers
  or the caller gives up.  Taking the lock is strongly fair: the writers of the
  registry's `sync.RWMutex` queue on a mutex that hands itself to whoever has waited
  for a millisecond, and new readers stand back for a waiting writer.  Accepting requests, shutting
  down, crashing and restarting are not fair.

## 4. Proofs

All theorems hold for every value of the constants that satisfies the named
assumptions of the modules.

`EventStoreProofs` (any capacity, any limit of tracked bursts at least 1, any set
of incoming events whose set times exceed the burst gap).  The inductive
invariant is `TypeOK /\ RingWindow /\ IndexesExact /\ DedupTracksLatest`.  No part
is inductive alone: eviction removes `order[head]`, which is the oldest ID only
by `RingWindow`; it cleans the right index entries only if the indexes are exact;
`Update` finds the newest episode only if the history is.  The argument treats
`evict` and the insertion one after the other, with lemmas on what each does to
an exact index (`IndexOf`) and to a history that lists the newest episodes
(`NewestOf`).  From the invariant follow `EpisodeMonotone` (a step property) and
the refinement: an update is a step `Continue` of `EventLog` because the last
tracked ID is the newest stored episode of its key, an insertion is a `Begin`
because eviction forgets exactly the oldest entry.

`RegistryProofs` (any clusters, endpoints and queries, with or without a file, any
number of crashes).  The inductive invariant adds `SavePhase` to the type and to
`OpenConnsCurrent`: it says, for each position of the lock
holder, whether the file still has the entries of the last answered request or
already the new ones, and that a coordinator that is down holds no
connection.  `FileIsWhole` is not inductive without it.  The history
variable `diverged` says whether the newest save or load failed; the next save
that succeeds resets it, because it writes all entries.  `CallsReachRegistered`
follows from `OpenConnsCurrent`: what is open is in the map, and what is in the
map is current.

`StoreQueryProofs` (any filters, any width of an `int32`).  On top of the store's
invariant: intersecting the sets of exact indexes, of which a filter may constrain
none, and cutting at `Since` leaves exactly the stored events that match
(`CandidatesExact`).  The sort, the sums and the groups are loops, modelled as folds.
What a fold returns needs two things.  Its recursive definition has a solution
(`FoldExists`, for any finite set folded over; TLAPS assumes nothing about a
recursive function until that is shown).  And its loop invariant holds, by an
induction stated for a set of naturals (`Induction`), because the library's theorems
take an operator as a parameter.  The invariants: after `n`
insertions the slice is the first `n` candidates, in order, each once (`Arranged`),
whatever order the candidates come in; and a group has seen `G` when its total is
the sum over `G` modulo `2 * (MaxInt32 + 1)` and its other fields are those of `G`
(`SumsUp`).  A sum depends on the set only, not on the order (`SumTotals`).  So
`QueryCorrect` and `SummaryCorrect` hold for every reachable store.

`AgentPipelineProofs` (any Event objects and versions, any capacity of the channel,
any number of crashes).  Two history variables record what happened since the start:
`observed`, every version the informer took in, superseded ones included, and `episode`,
the ID of the entry `Add` gave each stored version.  The invariant `PInv` joins the
store's own invariant with `Flow`, a statement about the concatenation of what the
worker, the channel and the informer hold: what was observed is in it, stored or
dropped, each version is at most the newest the informer has seen of its object, versions
of one object ascend, stored ones precede those in flight, and no dropped one is in
flight.  `NothingVanishes` and `VersionsInOrder` are not inductive without the bound
by the informer's cache, which is what keeps a dropped version from coming back.
Each step of the pipeline is shown to do one of four things to the sequence:
nothing (sending and receiving), append at the end, remove the first, remove one
from the middle (dropping).  `StoredIsRepresented` also needs that every item was
made from the version it names, that `episode` names entries that were inserted, and
that what an episode speaks for, it goes on speaking for until it is evicted.  An event
may set its times as it likes: what counts as the last one is `EventTime` when it is
set, also where `LastTimestamp` is later, since `Normalize` says that `EventTime` "takes
precedence" (`normalize.go` 15); the repository promises no more, and `hazards` records
what is lost.  Assumption: `SelectSeq` returns a sequence of words
(`WordsAssumption`), a fact about the standard module which TLC evaluates and the
provers cannot see.

`GatewayProofs` (any clusters, endpoints, number of concurrent requests, request
bodies and LLM answers).  Every step of the gateway is a step of `Registry` or
leaves it alone (`StepsRegistry`), so the registry's invariant is reused as it
stands, and with it `CallsReachRegistered` and `OpenConnsCurrent`.  The invariant `GInv`
adds for each request what is known at its stage: a planned request has
steps; while it runs, the steps behind it are the calls made and the
errors counted, one each; a finished one has its status from them; and all
answered calls of a request used one endpoint, the one its client leads to.  `StepsAccounted` and
`AllFailedReported` speak of finished requests only and need the running ones.
Assumptions: bodies and LLM answers are decoded into typed structs
(`RequestAssumption`), the LLM is configured or not (`LLMAssumption`), the marker "no
endpoint" is not an endpoint (`EndpointAssumption`), and string literals are
strings (`LiteralAssumption`), which TLAPS does not know by itself.

`ObjectSnapshotProofs` (any objects, owner references with or without cycles, any
depth and number of changes).  The history variable `held` is the set of states (uid
and references) in which the cluster held its objects during the call; it only
grows, so a link that was real stays one.  The invariant `SInv` says of a walk that each
entry of the chain was, in some such state, controlled by the next one, and the last
one by the object to fetch next; that `held` knows the present cluster (`HeldNow`); and of a
call that the uid of its snapshot is at most that of the chain's first link and of
the incarnation the cluster now holds.  Uids never exceed the number of changes, so
a later fetch of the same object never sees an older incarnation.
`ChainGenuine` speaks of the finished chain and needs the walk; when the cluster is left
alone `held` is the cluster, and the chain is the ancestry of the object.  The states of a
chain need not have existed at one time: that is what a walk of several requests can
promise, and no more.  Assumption: an error is not a snapshot (`ErrorAssumption`).

`AgentServerProofs` (any events, questions, sizes and interleavings with the watcher).
Its invariant `SInv` relates three times: when the summary was made, when an event
was listed, and now.

* The plan (`PlansPlanned`): the collecting calls of one plan ask for different
  reasons, or there is only one; and a summary has the namespace
  and the `Since` of the lists after it.  `CollectedOnce` rests on it, and on `Query`
  returning each ID once.
* The store: IDs are not reused, and an episode that stays only grows: its last
  time and count go up, its first time does not (`AddAdvances`).  What was collected
  is therefore at most what is stored under its ID, and every event of a reply
  survives the conversion to a message and back (`RoundTrip`; a zero time does too).
* The history variable `stored` holds the episodes at the time of the summary: the
  lines of the summary are at most their sums (`Summed`; a total that wraps is smaller),
  and once the events of a reason are listed without a limit, each of them that the
  summary counted is collected, unless one was evicted meanwhile (`Covers`).

`SummaryCovered` then compares two sums over different sets: the counted episodes map
injectively to collected events with larger counts (`SumDominated`).  Assumptions: a
query is decoded into a typed struct (`QuestionAssumption`), and the first time of an
event is not later than its last (`TimesAssumption`; `CollectedGenuine` says
the same of what was collected).

`CorrelatorProofs` (any events in any number, any order of the maps, any outcome of
the unstable sorts).  The invariant `CInv` follows one call through its stages.  Order:
groups are filled from a sorted slice and stay sorted, so the causes seen before an event are
not later than it.  Completeness is counted for any set `E` of
events: the places that hold events of `E` in the groups, in the annotated groups
and in the timeline are as many as in the argument, so nothing is lost, invented or
listed twice, even where two events are equal.  Annotation: each event of the timeline
was annotated at a place of its group, with a cause seen before that place.  From it
follow `TimelineComplete`, `ModesAgree` (all modes name the same root causes) and
`PromptGrounded`: a cause stands above its effect, or has the same time.  Within one
second the second sort may put the effect first (in Go with more than 12 events of two
groups or more), and no more can be proved.  `CausesJustified` and `EveryWorkloadHasRoot` are proved wherever
`GroupsAreWorkloads` holds, and that hypothesis is the one the run `namesakes` refutes:
groups that mix two workloads are the only way they can fail.  The events
of the run `correlator` have no namesakes, and there both hold without the hypothesis.
Assumptions: times are numbers and owner chains sequences of objects
(`EventsAssumption`), and bounds are numbers (`LimitsAssumption`).

Every invariant of a passing run is stated by a theorem.  Only model-checked are the
liveness properties (`CatchesUp`, `LockReleased`, `CallEnds`, `RequestEnds`,
`ShutdownEnds`), since fairness and ENABLED are out of the prover's reach, and the runs
that end in a violation, which are counterexamples.

## 5. Not modelled

* `GetContainerLogs` and `GetPodMetrics`: they forward a log stream and one read of
  metrics-server and change nothing.  No plan asks for either, although the executor
  could run both.
* `Deduplicator`: only its tests use it.
* The response lines for snapshots, logs and metrics, and all wording: they copy
  fields.
* Entry points, configuration and generated code: the values of the configuration
  are the constants of the models, and a generated method is the call it makes.

In `Gateway`, a call that every agent refuses always fails (`refused`): client-go does not
get a named object without a namespace, and the planner requires none (`planner.go` 61),
so that a plan may contain such calls; `StepsAccounted` covers them.

A query request is authorised and well formed unless the model says otherwise: a
request refused before any call (bad JSON, wrong token) changes nothing.
A renamed file is taken to be durable.  Temporary files that a crash or a failing
`os.Remove` leaves behind are not modelled: nothing reads them, and every save makes
one of a new name.

## 6. Plan

What is left is to extend the models: two concurrent requests in a run of `Gateway`
(the proofs already cover any number), and `AgentPipeline` with the chain walk inside the worker.
