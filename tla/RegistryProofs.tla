---------------------------- MODULE RegistryProofs ----------------------------
(***************************************************************************)
(* Proofs about Registry, for any sets of clusters, endpoints and queries, *)
(* with and without a registry file.                                       *)
(***************************************************************************)
EXTENDS Registry, TLAPS

\* Where a request stands in its save: a request that holds the lock has
\* changed the entries but not yet the file, until its save is over; a
\* coordinator that is down holds nothing.
SavePhase ==
    /\ up => attempted = entries
    /\ up /\ lock = "free" => acked = entries
    /\ ~up => lock = "free" /\ DOMAIN conns = {}
    /\ Persistent /\ ~diverged =>
         /\ content(file) \in {acked, attempted}
         /\ up /\ lock \in {"free", "saved"} => content(file) = entries
         /\ up /\ lock \in {"changed", "temp"} => content(file) = acked

IInv == TypeOK /\ OpenConnsCurrent /\ SavePhase

-----------------------------------------------------------------------------
\* Removing a cluster from a map leaves the other clusters as they were.
LEMMA WithoutMap ==
    ASSUME NEW m, NEW c
    PROVE  /\ DOMAIN without(m, c) = DOMAIN m \ {c}
           /\ \A k \in DOMAIN m \ {c} : without(m, c)[k] = m[k]
  BY DEF without, Restrict

\* Register and Unregister make registrations of registrations.
LEMMA RegistrationsClosed ==
    ASSUME NEW m \in Registrations, NEW c \in Clusters, NEW x \in Endpoints
    PROVE  /\ with(m, c, x) \in Registrations
           /\ without(m, c) \in Registrations
  <1>1. PICK D \in SUBSET Clusters : m \in [D -> Endpoints]
    BY DEF Registrations
  <1>2. with(m, c, x) \in [D \cup {c} -> Endpoints] /\ D \cup {c} \in SUBSET Clusters
    BY <1>1 DEF with
  <1>3. without(m, c) \in [D \ {c} -> Endpoints] /\ D \ {c} \in SUBSET Clusters
    BY <1>1 DEF without, Restrict
  <1> QED
    BY <1>2, <1>3 DEF Registrations

\* The same for a removal alone, which needs no endpoint.
LEMMA WithoutClosed ==
    ASSUME NEW m \in Registrations, NEW c
    PROVE  without(m, c) \in Registrations
  <1>1. PICK D \in SUBSET Clusters : m \in [D -> Endpoints]
    BY DEF Registrations
  <1>2. without(m, c) \in [D \ {c} -> Endpoints] /\ D \ {c} \in SUBSET Clusters
    BY <1>1 DEF without, Restrict
  <1> QED
    BY <1>2 DEF Registrations

\* A new coordinator knows no cluster.
LEMMA EmptyMap == empty \in Registrations /\ DOMAIN empty = {}
  <1>1. empty \in [{} -> Endpoints] /\ {} \in SUBSET Clusters
    BY DEF empty
  <1> QED
    BY <1>1 DEF Registrations, empty

\* A file's content is always a set of registrations.
LEMMA ContentTyped ==
    ASSUME NEW f \in Registrations \cup {None}
    PROVE  content(f) \in Registrations
  BY EmptyMap DEF content

\* Closing the connection of a cluster whose entry is then changed keeps the
\* connections exact.
LEMMA DisconnectExact ==
    ASSUME TypeOK, OpenConnsCurrent, NEW c \in Clusters, disconnect(c),
           \A k \in DOMAIN entries \ {c} : k \in DOMAIN entries' /\ entries'[k] = entries[k]
    PROVE  /\ OpenConnsCurrent'
           /\ DOMAIN conns' \subseteq Clusters /\ \A k \in DOMAIN conns' : conns'[k] \in Connection
           /\ open' \subseteq Connection
  <1>1. /\ DOMAIN conns' = DOMAIN conns \ {c}
        /\ \A k \in DOMAIN conns \ {c} : conns'[k] = conns[k]
    BY WithoutMap DEF disconnect
  <1>2. open' = {conns'[k] : k \in DOMAIN conns'}
    <2>1. CASE c \in DOMAIN conns
      <3>1. \A k \in DOMAIN conns \ {c} : conns[k] # conns[c]
        BY <2>1 DEF OpenConnsCurrent
      <3>2. open' = open \ {conns[c]}
        BY <2>1 DEF disconnect
      <3> QED
        BY <1>1, <3>1, <3>2 DEF OpenConnsCurrent
    <2>2. CASE c \notin DOMAIN conns
      <3>1. open' = open
        BY <2>2 DEF disconnect
      <3> QED
        BY <1>1, <2>2, <3>1 DEF OpenConnsCurrent
    <2> QED
      BY <2>1, <2>2
  <1>3. \A k \in DOMAIN conns' :
          /\ k \in DOMAIN entries'
          /\ conns'[k].cluster = k /\ conns'[k].endpoint = entries'[k]
    BY <1>1 DEF OpenConnsCurrent
  <1>4. open' \subseteq open
    BY DEF disconnect
  <1> QED
    BY <1>1, <1>2, <1>3, <1>4 DEF OpenConnsCurrent, TypeOK

-----------------------------------------------------------------------------
\* A coordinator starts with an empty registry and nothing on disk.
LEMMA InitInv == Init => IInv
  <1> SUFFICES ASSUME Init PROVE IInv
    OBVIOUS
  <1>1. TypeOK
    BY EmptyMap DEF Init, TypeOK
  <1>2. OpenConnsCurrent
    BY EmptyMap DEF Init, OpenConnsCurrent
  <1>3. SavePhase
    BY DEF Init, SavePhase, content
  <1> QED
    BY <1>1, <1>2, <1>3 DEF IInv

\* Each request, query and save step, a crash and a restart keep the invariant.
LEMMA NextInv == IInv /\ [Next]_vars => IInv'
  <1> SUFFICES ASSUME IInv, [Next]_vars PROVE IInv'
    OBVIOUS
  <1> USE DEF IInv
  <1>1. ASSUME NEW c \in Clusters, NEW endpoint \in Endpoints, Register(c, endpoint)
        PROVE  IInv'
    <2>1. entries' = with(entries, c, endpoint) /\ disconnect(c)
      BY <1>1 DEF Register
    <2>2. entries' \in Registrations
      BY <2>1, RegistrationsClosed DEF TypeOK
    <2>3. \A k \in DOMAIN entries \ {c} : k \in DOMAIN entries' /\ entries'[k] = entries[k]
      BY <2>1 DEF with
    <2>4. OpenConnsCurrent' /\ TypeOK'
      <3>1. /\ OpenConnsCurrent'
            /\ DOMAIN conns' \subseteq Clusters /\ \A k \in DOMAIN conns' : conns'[k] \in Connection
            /\ open' \subseteq Connection
        BY <2>1, <2>3, DisconnectExact
      <3>2. attempted' = entries'
        BY <1>1 DEF Register
      <3> QED
        BY <1>1, <2>2, <3>1, <3>2 DEF Register, TypeOK
    <2>5. SavePhase'
      BY <1>1 DEF Register, SavePhase
    <2> QED
      BY <2>4, <2>5
  <1>2. ASSUME NEW c \in Clusters, Unregister(c) PROVE IInv'
    <2>1. entries' = without(entries, c) /\ disconnect(c)
      BY <1>2 DEF Unregister
    <2>2. entries' \in Registrations
      BY <2>1, WithoutClosed DEF TypeOK
    <2>3. \A k \in DOMAIN entries \ {c} : k \in DOMAIN entries' /\ entries'[k] = entries[k]
      BY <2>1, WithoutMap
    <2>4. OpenConnsCurrent' /\ TypeOK'
      <3>1. /\ OpenConnsCurrent'
            /\ DOMAIN conns' \subseteq Clusters /\ \A k \in DOMAIN conns' : conns'[k] \in Connection
            /\ open' \subseteq Connection
        BY <2>1, <2>3, DisconnectExact
      <3>2. attempted' = entries'
        BY <1>2 DEF Unregister
      <3> QED
        BY <1>2, <2>2, <3>1, <3>2 DEF Unregister, TypeOK
    <2>5. SavePhase'
      BY <1>2 DEF Unregister, SavePhase
    <2> QED
      BY <2>4, <2>5
  <1>3. ASSUME NEW q \in Queries, NEW c \in Clusters, ReuseClient(q, c) PROVE IInv'
    BY <1>3 DEF ReuseClient, TypeOK, OpenConnsCurrent, SavePhase
  <1>4. ASSUME NEW q \in Queries, NEW c \in Clusters, DialClient(q, c) PROVE IInv'
    <2> DEFINE conn == [id |-> dialled, cluster |-> c, endpoint |-> entries[c]]
    <2>1. conn \in Connection
      <3>1. entries[c] \in Endpoints
        BY <1>4 DEF DialClient, TypeOK, Registrations
      <3> QED
        BY <3>1 DEF TypeOK, Connection
    <2>2. /\ conns' = with(conns, c, conn) /\ open' = open \cup {conn}
          /\ c \notin DOMAIN conns /\ c \in DOMAIN entries
          /\ conn.cluster = c /\ conn.endpoint = entries[c]
      BY <1>4 DEF DialClient, connect
    <2>3. held' = [held EXCEPT ![q] = conn]
      BY <1>4 DEF DialClient
    <2> HIDE DEF conn
    <2>4. /\ DOMAIN conns' = DOMAIN conns \cup {c} /\ conns'[c] = conn
          /\ \A k \in DOMAIN conns : conns'[k] = conns[k]
      BY <2>2 DEF with
    <2>5. OpenConnsCurrent'
      <3>1. open' = {conns'[k] : k \in DOMAIN conns'}
        BY <2>2, <2>4 DEF OpenConnsCurrent
      <3>2. entries' = entries
        BY <1>4 DEF DialClient
      <3> QED
        BY <2>2, <2>4, <3>1, <3>2 DEF OpenConnsCurrent
    <2>6. TypeOK'
      BY <1>4, <2>1, <2>2, <2>3, <2>4 DEF DialClient, TypeOK
    <2>7. SavePhase'
      BY <1>4 DEF DialClient, SavePhase
    <2> QED
      BY <2>5, <2>6, <2>7
  <1>5. ASSUME NEW q \in Queries, FinishQuery(q) PROVE IInv'
    BY <1>5 DEF FinishQuery, TypeOK, OpenConnsCurrent, SavePhase
  <1>6. CASE WriteTemp
    BY <1>6 DEF WriteTemp, TypeOK, OpenConnsCurrent, SavePhase
  <1>7. CASE RenameTemp
    <2>1. TypeOK' /\ OpenConnsCurrent'
      BY <1>7 DEF RenameTemp, rename, TypeOK, OpenConnsCurrent
    <2>2. content(file') = entries
      BY <1>7, NoneAssumption DEF RenameTemp, rename, content, TypeOK
    <2>3. SavePhase'
      BY <1>7, <2>2 DEF RenameTemp, SavePhase
    <2> QED
      BY <2>1, <2>3
  <1>8. CASE SaveFails
    BY <1>8 DEF SaveFails, TypeOK, OpenConnsCurrent, SavePhase
  <1>9. CASE Answer
    BY <1>9 DEF Answer, release, TypeOK, OpenConnsCurrent, SavePhase
  <1>10. CASE Crash
    <2>1. TypeOK' /\ OpenConnsCurrent'
      <3>1. crashes' \in Nat
        BY <1>10 DEF Crash, TypeOK
      <3>2. held' \in [Queries -> Connection \cup {None}]
        BY <1>10 DEF Crash
      <3>3. TypeOK'
        BY <1>10, <3>1, <3>2, EmptyMap DEF Crash, TypeOK
      <3>4. OpenConnsCurrent'
        BY <1>10, EmptyMap DEF Crash, OpenConnsCurrent
      <3> QED
        BY <3>3, <3>4
    <2>2. SavePhase'
      BY <1>10, EmptyMap DEF Crash, SavePhase
    <2> QED
      BY <2>1, <2>2
  <1>11. CASE Restart
    <2>1. entries' \in Registrations
      BY <1>11, EmptyMap, ContentTyped DEF Restart, loaded, TypeOK
    <2>2. TypeOK'
      BY <1>11, <2>1 DEF Restart, TypeOK
    <2>3. OpenConnsCurrent'
      BY <1>11 DEF Restart, OpenConnsCurrent, SavePhase
    <2>4. SavePhase'
      BY <1>11 DEF Restart, loaded, SavePhase
    <2> QED
      BY <2>2, <2>3, <2>4
  <1>12. CASE UNCHANGED vars
    BY <1>12 DEF vars, TypeOK, OpenConnsCurrent, SavePhase
  <1> QED
    BY <1>1, <1>2, <1>3, <1>4, <1>5, <1>6, <1>7, <1>8, <1>9, <1>10, <1>11, <1>12
       DEF Next, HolderStep

-----------------------------------------------------------------------------
\* The invariant holds in every reachable state.
LEMMA Invariance == Spec => []IInv
  BY InitInv, NextInv, PTL DEF Spec

\* The registry's state keeps its type (the maps, the connections, the file and
\* the clients of the queries).
THEOREM RegistryTypeCorrect == Spec => []TypeOK
  <1>1. IInv => TypeOK
    BY DEF IInv
  <1> QED
    BY <1>1, Invariance, PTL

\* Register, Unregister and Client neither leak a connection nor keep a stale one.
THEOREM ConnectionsCorrect == Spec => []OpenConnsCurrent
  <1>1. IInv => OpenConnsCurrent
    BY DEF IInv
  <1> QED
    BY <1>1, Invariance, PTL

\* The calls of a query that outlives a registration change never reach an
\* endpoint its cluster is not registered with.
THEOREM CallsCorrect == Spec => []CallsReachRegistered
  <1>1. IInv => CallsReachRegistered
    BY DEF IInv, OpenConnsCurrent, CallsReachRegistered
  <1> QED
    BY <1>1, Invariance, PTL

\* The registry file is never half written and is up to date between requests,
\* across crashes, from a save or a load that succeeded to the next that fails.
THEOREM FileCorrect == Spec => []FileIsWhole
  <1>1. IInv => FileIsWhole
    BY DEF IInv, SavePhase, FileIsWhole
  <1> QED
    BY <1>1, Invariance, PTL
=============================================================================
