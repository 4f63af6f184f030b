---------------------------- MODULE ObjectSnapshot ----------------------------
(***************************************************************************)
(* pkg/enrichment/snapshot.go and the gRPC methods of the agent that read  *)
(* the cluster: ResolveOwnerChain walks from the object to its root;       *)
(* GetObjectSnapshot first fetches the object and then walks as well, so   *)
(* that it reads the object twice.  The reply is encoded as a proto3       *)
(* message, whose strings must be valid UTF-8.                             *)
(***************************************************************************)
EXTENDS OwnerChain

CONSTANTS
    KindOf,        \* object -> its kind
    Statuses,      \* what an object may report: phase, conditions, containers
    MaxMessageLen, \* maxTerminationMessageLen, 256 bytes
    None, Failed   \* no snapshot or reply yet; a call that returned an error

\* A message is the sequence of the lengths in bytes of its characters.
ASSUME StatusAssumption ==
    /\ MaxMessageLen \in Nat
    /\ \A s \in Statuses : \A i \in DOMAIN s.containers :
         s.containers[i].message \in Seq(1 .. 4)

VARIABLES
    call,  \* "GetObjectSnapshot" or "ResolveOwnerChain"
    stage, \* "fetching", "walking" or "replied"
    snap,  \* the snapshot, None before it is fetched
    reply  \* what the caller of the agent gets

callVars == <<call, stage, snap, reply>>
snapshotVars == <<vars, callVars>>

SnapshotInit ==
    /\ Init
    /\ \/ call = "GetObjectSnapshot" /\ stage = "fetching"
       \/ call = "ResolveOwnerChain" /\ stage = "walking"
    /\ snap = None /\ reply = None

-----------------------------------------------------------------------------
\* Mutants of the definitions below: plausible slips in the code they model.
attachedUnchecked(s) == [s EXCEPT !.OwnerChain = chain]

sentWithChainOnly(s) == IF s.OwnerChain = <<>> THEN Failed ELSE s

snapshotRetried ==
    /\ stage = "fetching"
    /\ UNCHANGED snapshotVars

-----------------------------------------------------------------------------
bytes(message) == FoldLeft(LAMBDA n, width : n + width, 0, message)

\* msg[:maxTerminationMessageLen] counts bytes: whole characters, and perhaps
\* the first bytes of the one it cuts.
truncated(message) ==
    LET whole == Max({n \in 0 .. Len(message) : bytes(SubSeq(message, 1, n)) <= MaxMessageLen})
        kept  == SubSeq(message, 1, whole)
    IN [text |-> kept,
        broken |-> IF whole = Len(message) THEN 0 ELSE MaxMessageLen - bytes(kept)]

\* Per container its state, a reason unless it runs, and the last termination.
extractContainerStatuses(containers) ==
    [i \in DOMAIN containers |->
       LET c == containers[i] IN
       [State |-> c.state,
        Reason |-> IF c.state \in {"waiting", "terminated"} THEN c.reason ELSE "",
        LastTerminationMessage |-> truncated(c.message)]]

degraded(conditions) ==
    \E i \in DOMAIN conditions : conditions[i].Type = "Available" /\ conditions[i].Status # "True"

phaseOf(kind, status) ==
    CASE kind \in {"Pod", "PersistentVolumeClaim"} -> status.phase
      [] kind = "Deployment" -> IF degraded(status.conditions) THEN "Degraded" ELSE "Available"
      [] OTHER -> ""

fetchSnapshot(object, uid, status) ==
    LET kind == KindOf[object] IN
    [object |-> object, UID |-> uid, OwnerChain |-> <<>>,
     Phase |-> phaseOf(kind, status),
     ContainerStatuses |->
        IF kind = "Pod" THEN extractContainerStatuses(status.containers) ELSE <<>>,
     WorkloadConditions |->
        IF kind \in {"Deployment", "StatefulSet", "DaemonSet", "Job"} THEN status.conditions
        ELSE <<>>]

Snapshot ==
    [object : Objects, UID : Nat, OwnerChain : Seq([object : Objects, uid : Nat]),
     Phase : {phaseOf(KindOf[o], s) : o \in Objects, s \in Statuses},
     ContainerStatuses :
        {extractContainerStatuses(s.containers) : s \in Statuses} \cup {<<>>},
     WorkloadConditions : {s.conditions : s \in Statuses} \cup {<<>>}]

\* An error is not a snapshot.
ASSUME ErrorAssumption == Failed \notin Snapshot

\* The first read of GetObjectSnapshot.  What the object reports changes at any
\* time and matters to nobody else.
FetchSnapshot ==
    /\ stage = "fetching" /\ leaf \in DOMAIN cluster
    /\ \E status \in Statuses : snap' = fetchSnapshot(leaf, cluster[leaf].uid, status)
    /\ stage' = "walking"
    /\ UNCHANGED <<vars, call, reply>>

\* The kind is not supported, the object does not exist or the request fails.
SnapshotFails ==
    /\ stage = "fetching"
    /\ stage' = "replied"
    /\ reply' = Failed
    /\ UNCHANGED <<vars, call, snap>>

Walk ==
    /\ stage = "walking"
    /\ WalkStep
    /\ UNCHANGED callVars

\* An error of the walk leaves the snapshot without a chain.
attached(s) == [s EXCEPT !.OwnerChain = IF outcome = "failed" THEN <<>> ELSE chain]

\* The toProto conversions copy; then gRPC encodes the reply, and fails for a
\* string that is not valid UTF-8.
encodable(s) ==
    \A i \in DOMAIN s.ContainerStatuses : s.ContainerStatuses[i].LastTerminationMessage.broken = 0

sent(s) == IF encodable(s) THEN s ELSE Failed

Reply ==
    /\ stage = "walking" /\ outcome # "walking"
    /\ stage' = "replied"
    /\ reply' = IF call = "GetObjectSnapshot" THEN sent(attached(snap))
                ELSE IF outcome = "failed" THEN Failed ELSE chain
    /\ UNCHANGED <<vars, call, snap>>

SnapshotNext ==
    \/ ClusterStep /\ UNCHANGED callVars
    \/ FetchSnapshot \/ SnapshotFails \/ Walk \/ Reply

\* Every request to the API server returns, and the handler goes on.
SnapshotFairness ==
    /\ WF_snapshotVars(FetchSnapshot \/ SnapshotFails)
    /\ WF_snapshotVars(Walk)
    /\ WF_snapshotVars(Reply)

SnapshotSpec == SnapshotInit /\ [][SnapshotNext]_snapshotVars /\ SnapshotFairness

-----------------------------------------------------------------------------
(***************************************************************************)
(* Properties                                                              *)
(***************************************************************************)
snapshotSent == call = "GetObjectSnapshot" /\ stage = "replied" /\ reply # Failed

\* The two reads of GetObjectSnapshot (snapshot.go 53-67): a chain in the reply
\* is complete and starts at the object asked about; it may be that of a later
\* incarnation of the object than the snapshot shows, never of an earlier one,
\* and it is that of the same one when the cluster was left alone.
ReadsInOrder ==
    snapshotSent /\ reply.OwnerChain # <<>> =>
        LET first == Head(reply.OwnerChain) IN
        /\ outcome = "resolved" /\ first.object = leaf
        /\ first.uid >= reply.UID
        /\ changes = 1 => first.uid = reply.UID

\* A failing owner chain never costs the caller the snapshot (snapshot.go
\* 60-62), however the cluster changes after the object was fetched; it is the
\* snapshot that was fetched.
ChainFailureTolerated ==
    call = "GetObjectSnapshot" /\ stage = "replied" /\ snap # None /\ encodable(snap) =>
        reply # Failed /\ [reply EXCEPT !.OwnerChain = <<>>] = snap

\* Every call of the agent returns, although owners may form a cycle and
\* objects may vanish or move to other owners during the walk
\* (ownerchain.go 21-26); the worker of the agent, which resolves chains one
\* after the other, would otherwise stop storing events (watcher.go 96-119).
CallEnds == <>(stage = "replied")

\* snapshot.go 14-15: "ObjectSnapshot is the current state of a Kubernetes
\* object, suitable for returning to the coordinator".  Then a snapshot that
\* was fetched reaches the coordinator.
SnapshotDelivered ==
    call = "GetObjectSnapshot" /\ stage = "replied" /\ snap # None => reply # Failed

=============================================================================
