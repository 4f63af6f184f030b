SPECIFICATION SnapshotSpec
\* A call returns and the cluster may stay as it is.
CHECK_DEADLOCK FALSE
CONSTANTS
    pod = pod
    deploy = deploy
    rollout = rollout
    Objects = {pod, deploy, rollout}
    Fetchable = {pod, deploy}
    OwnerLists <- MCOwnerLists
    KindOf <- MCKindOf
    Statuses <- MCStatuses
    MaxMessageLen = 2
    MaxChainDepth = 3
    MaxChanges = 3
    None = None
    Failed = Failed
INVARIANTS
    SnapshotDelivered
