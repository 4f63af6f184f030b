------------------------------- MODULE Registry -------------------------------
(***************************************************************************)
(* internal/app/coordinator/registry.go with its callers: the registry of  *)
(* cluster agents, its lazily dialled connections and its file.  Register  *)
(* and Unregister hold Registry.mu while they change memory and save; the  *)
(* file changes in steps a crash may separate.  Queries take a client under *)
(* the lock and use it after the lock is released.                         *)
(***************************************************************************)
EXTENDS Integers, FiniteSets, Functions

CONSTANTS
    Clusters,   \* cluster names
    Endpoints,  \* gRPC endpoints; the labels of an entry are carried along
    Queries,    \* concurrent calls of Executor.Execute
    Persistent, \* is MCP_REGISTRY_FILE set?
    MaxConns,   \* bound on dialled connections
    MaxCrashes, \* bound on crashes
    None        \* no file, no connection

\* ClusterEntry by cluster name, and a *grpc.ClientConn, known by when it was made.
Registrations == UNION {[D -> Endpoints] : D \in SUBSET Clusters}
Connection == [id : Nat, cluster : Clusters, endpoint : Endpoints]

ASSUME NoneAssumption == None \notin Registrations /\ None \notin Connection
ASSUME PersistentAssumption == Persistent \in BOOLEAN
ASSUME BoundAssumption == MaxConns \in Nat /\ MaxCrashes \in Nat

VARIABLES
    up,        \* does the coordinator serve requests?
    entries,   \* cluster -> endpoint, for the registered clusters
    conns,     \* cluster -> its connection, for the dialled ones
    open,      \* connections that are not closed
    dialled,   \* connections created since the start
    lock,      \* how far the holder of mu is: "free", "changed", "temp", "saved"
    file,      \* content of the registry file, None when there is none
    held,      \* query -> the connection behind its client, None without one
    acked,     \* entries as of the last request answered (history)
    attempted, \* entries as of the last request begun (history)
    diverged,  \* did the newest save or load fail? (history)
    crashes

vars == <<up, entries, conns, open, dialled, lock, file, held,
          acked, attempted, diverged, crashes>>

empty == [c \in {} |-> {}]

without(m, c) == Restrict(m, DOMAIN m \ {c})

with(m, c, x) == [k \in DOMAIN m \cup {c} |-> IF k = c THEN x ELSE m[k]]

\* What a file holds; a missing one is an empty registry to Load.
content(f) == IF f = None THEN empty ELSE f

Init ==
    /\ up = TRUE
    /\ entries = empty /\ conns = empty /\ open = {} /\ dialled = 0
    /\ lock = "free" /\ file = None
    /\ held = [q \in Queries |-> None]
    /\ acked = empty /\ attempted = empty /\ diverged = FALSE /\ crashes = 0

-----------------------------------------------------------------------------
\* Mutants of the definitions below: plausible slips in the code they model.
disconnectForgetting(c) ==
    /\ conns' = without(conns, c)
    /\ open' = open

renameInPlace == file' = None

connectUnrecorded(c, conn) == conns' = conns /\ open' = open \cup {conn}

releaseOnSuccess == lock' = IF diverged THEN "saved" ELSE "free"

loadedUnchecked == IF Persistent THEN file ELSE empty

-----------------------------------------------------------------------------
\* The connection of a cluster that is replaced or removed is closed first.
disconnect(c) ==
    /\ conns' = without(conns, c)
    /\ open' = IF c \in DOMAIN conns THEN open \ {conns[c]} ELSE open

\* handleRegister and handleUnregister, up to the save.
Register(c, endpoint) ==
    /\ up /\ lock = "free"
    /\ disconnect(c)
    /\ entries' = with(entries, c, endpoint)
    /\ attempted' = with(entries, c, endpoint)
    /\ lock' = "changed"
    /\ UNCHANGED <<up, dialled, file, held, acked, diverged, crashes>>

Unregister(c) ==
    /\ up /\ lock = "free"
    /\ disconnect(c)
    /\ entries' = without(entries, c)
    /\ attempted' = without(entries, c)
    /\ lock' = "changed"
    /\ UNCHANGED <<up, dialled, file, held, acked, diverged, crashes>>

\* save does nothing without a file; otherwise it creates, writes and closes
\* a temporary file ...
WriteTemp ==
    /\ lock = "changed"
    /\ lock' = IF Persistent THEN "temp" ELSE "saved"
    /\ UNCHANGED <<up, entries, conns, open, dialled, file, held,
                   acked, attempted, diverged, crashes>>

\* ... with the entries, which the lock protects, and renames it.
rename == file' = entries

RenameTemp ==
    /\ lock = "temp"
    /\ rename
    /\ lock' = "saved"
    /\ diverged' = FALSE
    /\ UNCHANGED <<up, entries, conns, open, dialled, held, acked, attempted, crashes>>

\* Any step of save may fail; the error is logged and the caller goes on.  The
\* temporary file, which nothing reads, is removed or left behind.
SaveFails ==
    /\ lock \in {"changed", "temp"} /\ Persistent
    /\ lock' = "saved"
    /\ diverged' = TRUE
    /\ UNCHANGED <<up, entries, conns, open, dialled, file, held,
                   acked, attempted, crashes>>

release == lock' = "free"

\* The lock is released and the handler answers "registered"/"unregistered".
Answer ==
    /\ lock = "saved"
    /\ release
    /\ acked' = entries
    /\ UNCHANGED <<up, entries, conns, open, dialled, file, held,
                   attempted, diverged, crashes>>

\* What a request does while it holds the lock.
HolderStep == WriteTemp \/ RenameTemp \/ SaveFails \/ Answer

-----------------------------------------------------------------------------
connect(c, conn) == conns' = with(conns, c, conn) /\ open' = open \cup {conn}

\* Client: an existing connection is reused ...
ReuseClient(q, c) ==
    /\ up /\ lock = "free" /\ held[q] = None
    /\ c \in DOMAIN conns
    /\ held' = [held EXCEPT ![q] = conns[c]]
    /\ UNCHANGED <<up, entries, conns, open, dialled, lock, file,
                   acked, attempted, diverged, crashes>>

\* ... or a registered cluster is dialled (grpc.NewClient connects lazily).
DialClient(q, c) ==
    /\ up /\ lock = "free" /\ held[q] = None
    /\ c \notin DOMAIN conns /\ c \in DOMAIN entries /\ dialled < MaxConns
    /\ LET conn == [id |-> dialled, cluster |-> c, endpoint |-> entries[c]]
       IN connect(c, conn) /\ held' = [held EXCEPT ![q] = conn]
    /\ dialled' = dialled + 1
    /\ UNCHANGED <<up, entries, lock, file, acked, attempted, diverged, crashes>>

\* Execute has run its last step.
FinishQuery(q) ==
    /\ held[q] # None
    /\ held' = [held EXCEPT ![q] = None]
    /\ UNCHANGED <<up, entries, conns, open, dialled, lock, file,
                   acked, attempted, diverged, crashes>>

-----------------------------------------------------------------------------
\* The process dies, perhaps in the middle of a save.
Crash ==
    /\ up /\ crashes < MaxCrashes
    /\ up' = FALSE
    /\ crashes' = crashes + 1
    /\ entries' = empty /\ conns' = empty /\ open' = {} /\ dialled' = 0
    /\ held' = [q \in Queries |-> None]
    /\ lock' = "free"
    /\ UNCHANGED <<file, acked, attempted, diverged>>

\* Load, when it succeeds.
loaded == IF Persistent THEN content(file) ELSE empty

\* Run: NewRegistry and Load; a file that cannot be read or parsed is only
\* warned about.
Restart ==
    /\ ~up
    /\ up' = TRUE
    /\ \/ /\ entries' = loaded
          /\ diverged' = FALSE
       \/ /\ Persistent /\ file # None
          /\ entries' = empty
          /\ diverged' = TRUE
    /\ acked' = entries' /\ attempted' = entries'
    /\ UNCHANGED <<conns, open, dialled, lock, file, held, crashes>>

Next ==
    \/ \E c \in Clusters :
         \/ \E endpoint \in Endpoints : Register(c, endpoint)
         \/ Unregister(c)
         \/ \E q \in Queries : ReuseClient(q, c) \/ DialClient(q, c)
    \/ \E q \in Queries : FinishQuery(q)
    \/ HolderStep \/ Crash \/ Restart

\* A goroutine that holds the lock runs on; a dead pod is started again.
Fairness == WF_vars(HolderStep) /\ WF_vars(Restart)

Spec == Init /\ [][Next]_vars /\ Fairness

-----------------------------------------------------------------------------
(***************************************************************************)
(* Properties                                                              *)
(***************************************************************************)
\* The type of the registry's state.
TypeOK ==
    /\ up \in BOOLEAN
    /\ {entries, acked, attempted} \subseteq Registrations
    /\ DOMAIN conns \subseteq Clusters /\ \A c \in DOMAIN conns : conns[c] \in Connection
    /\ open \subseteq Connection
    /\ dialled \in Nat /\ crashes \in Nat
    /\ lock \in {"free", "changed", "temp", "saved"}
    /\ file \in Registrations \cup {None}
    /\ held \in [Queries -> Connection \cup {None}]
    /\ diverged \in BOOLEAN

\* Register, Unregister and Client never leak a connection and never keep one
\* for a cluster that was removed or whose endpoint was replaced: the open
\* connections are exactly those in the map, and each leads to the endpoint
\* the cluster is registered with (registry.go 71-94 and 110-132).
OpenConnsCurrent ==
    /\ open = {conns[c] : c \in DOMAIN conns}
    /\ \A c \in DOMAIN conns :
         c \in DOMAIN entries /\ conns[c].cluster = c /\ conns[c].endpoint = entries[c]

\* A query keeps using the client it got while its cluster is registered anew
\* or removed.  Its calls may fail then, but they never reach an endpoint the
\* cluster is no longer registered with (executor.go 43-51).
CallsReachRegistered ==
    \A q \in Queries :
        held[q] # None /\ held[q] \in open =>
            /\ held[q].cluster \in DOMAIN entries
            /\ held[q].endpoint = entries[held[q].cluster]

\* The rename makes a save all or nothing: the file holds the entries of the
\* last answered request or those of the request that was under way, also
\* across crashes, and it holds the registry whenever the lock is free.  Only
\* a save or a load that failed excuses a difference, and only until the next
\* one that succeeds: save writes all entries, so that it makes up for every
\* save that failed before it (registry.go 136-176 and 43-67).
FileIsWhole ==
    Persistent /\ ~diverged =>
        /\ content(file) \in {acked, attempted}
        /\ up /\ lock = "free" => content(file) = entries

\* Whoever holds the lock releases it, also when saving fails, so that a
\* request or a query waiting for the lock is not blocked for ever.
LockReleased == lock # "free" ~> lock = "free"

=============================================================================
