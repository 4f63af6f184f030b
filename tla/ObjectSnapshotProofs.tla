------------------------- MODULE ObjectSnapshotProofs -------------------------
(***************************************************************************)
(* Proofs about OwnerChain and ObjectSnapshot: one call of the agent while *)
(* the cluster changes, for any objects, any ownerReferences (cycles and   *)
(* dangling references among them), any depth limit and any statuses.      *)
(***************************************************************************)
EXTENDS ObjectSnapshot, TLAPS, WellFoundedInduction

\* What a request finds of an object: its present incarnation, or nothing when its
\* kind cannot be fetched.
Present(entry) ==
    \/ entry.object \in DOMAIN cluster /\ entry.uid = cluster[entry.object].uid
    \/ entry.object \notin Fetchable /\ entry.uid = 0

\* Was o the owner that controlled the incarnation of an entry, during the call?
Linked(entry, o) == \E state \in StatesOf(entry) : Controls(o, state.owners)

\* Where a chain may end.
Root(entry) ==
    \/ entry.object \notin Fetchable /\ entry.uid = 0
    \/ \E state \in StatesOf(entry) : state.owners = <<>> \/ Len(chain) = MaxChainDepth

\* The walk so far is a path upwards from the leaf, and the object to fetch next
\* is linked to its end.
WalkInv ==
    /\ outcome = "walking" => Len(chain) < MaxChainDepth
    /\ outcome = "resolved" => chain # <<>>
    /\ chain = <<>> => current = leaf
    /\ chain # <<>> => chain[1].object = leaf
    /\ \A i \in 1 .. Len(chain) - 1 : Linked(chain[i], chain[i + 1].object)
    /\ outcome = "walking" /\ chain # <<>> => Linked(chain[Len(chain)], current)
    /\ outcome = "resolved" => Root(chain[Len(chain)])

\* The history knows what the cluster holds now.
HeldNow == holding(cluster) \subseteq held

\* The incarnations of an object have growing uids.
UidsBounded == \A o \in DOMAIN cluster : cluster[o].uid <= changes

\* The snapshot was made of an incarnation of the leaf that the walk, which
\* comes later, cannot precede.
Fetched ==
    /\ snap \in Snapshot /\ snap.OwnerChain = <<>>
    /\ leaf \in Fetchable /\ snap.UID <= changes
    /\ leaf \in DOMAIN cluster => snap.UID <= cluster[leaf].uid
    /\ chain # <<>> => snap.UID <= chain[1].uid
    /\ changes = 1 => leaf \in DOMAIN cluster /\ snap.UID = cluster[leaf].uid
    /\ changes = 1 /\ chain # <<>> => snap.UID = chain[1].uid

\* How far the call has come.
CallInv ==
    /\ stage \in {"fetching", "walking", "replied"}
    /\ call = "GetObjectSnapshot" =>
         /\ stage = "fetching" => snap = None /\ chain = <<>>
         /\ stage = "walking" => Fetched
         /\ stage = "replied" =>
              \/ snap = None /\ reply = Failed
              \/ Fetched /\ outcome # "walking" /\ reply = sent(attached(snap))

SInv == TypeOK /\ WalkInv /\ HeldNow /\ UidsBounded /\ CallInv

-----------------------------------------------------------------------------
\* A set of naturals that is not empty has a least element.
LEMMA MinOfNaturals ==
    ASSUME NEW S, S \subseteq Nat, S # {}
    PROVE  Min(S) \in S /\ \A y \in S : Min(S) <= y
  <1> DEFINE less == {ss \in Nat \X Nat : ss[1] < ss[2]}
  <1>1. IsWellFoundedOn(less, Nat)
    BY NatLessThanWellFounded DEF OpToRel
  <1> HIDE DEF less
  <1>2. PICK x \in S : \A y \in S : ~ (<<y, x>> \in less)
    BY <1>1, WFMin
  <1>3. \A y \in S : x <= y
    <2> SUFFICES ASSUME NEW y \in S PROVE x <= y
      OBVIOUS
    <2>1. y < x => <<y, x>> \in less
      BY DEF less
    <2> QED
      BY <1>2, <2>1
  <1> QED
    BY <1>3 DEF Min

\* The references of an object, and what a cluster holds.
LEMMA OwnersTyped ==
    ASSUME NEW owners \in OwnerLists
    PROVE  /\ Len(owners) \in Nat /\ DOMAIN owners = 1 .. Len(owners)
           /\ owners # <<>> => Len(owners) > 0
           /\ \A i \in DOMAIN owners : owners[i] \in [Owner : Objects, Controller : BOOLEAN]
  <1> DEFINE Reference == [Owner : Objects, Controller : BOOLEAN]
  <1>1. owners \in Seq(Reference)
    BY ObjectsAssumption
  <1> HIDE DEF Reference
  <1>2. /\ Len(owners) \in Nat /\ DOMAIN owners = 1 .. Len(owners)
        /\ \A i \in DOMAIN owners : owners[i] \in Reference
    BY <1>1
  <1>3. owners # <<>> => Len(owners) > 0
    BY <1>1, <1>2
  <1> QED
    BY <1>2, <1>3 DEF Reference

\* nextOwner takes up an owner that controls the object, or its first one.
LEMMA NextOwnerControls ==
    ASSUME TypeOK, NEW o \in DOMAIN cluster, cluster[o].owners # <<>>
    PROVE  /\ nextOwner(cluster[o].owners) \in Objects
           /\ Controls(nextOwner(cluster[o].owners), cluster[o].owners)
  <1> DEFINE owners == cluster[o].owners
             controllers == {i \in DOMAIN owners : owners[i].Controller}
             first == IF controllers = {} THEN 1 ELSE Min(controllers)
  <1>1. /\ Len(owners) \in Nat /\ DOMAIN owners = 1 .. Len(owners) /\ Len(owners) > 0
        /\ \A i \in DOMAIN owners : owners[i] \in [Owner : Objects, Controller : BOOLEAN]
    <2>1. owners \in OwnerLists
      BY DEF TypeOK
    <2> QED
      BY <2>1, OwnersTyped
  <1>2. nextOwner(owners) = owners[first].Owner
    BY DEF nextOwner
  <1> HIDE DEF owners
  <1>3. CASE controllers = {}
    <2>1. first = 1 /\ 1 \in DOMAIN owners /\ \A j \in DOMAIN owners : ~owners[j].Controller
      BY <1>1, <1>3
    <2>2. \A j \in 1 .. 1 - 1 : ~owners[j].Controller
      OBVIOUS
    <2>3. nextOwner(owners) \in Objects
      BY <1>1, <1>2, <2>1
    <2> HIDE DEF first
    <2>4. Controls(nextOwner(owners), owners)
      BY <1>2, <2>1, <2>2 DEF Controls
    <2> QED
      BY <2>3, <2>4 DEF owners
  <1>4. CASE controllers # {}
    <2>1. controllers \subseteq Nat
      BY <1>1
    <2>2. Min(controllers) \in controllers /\ \A i \in controllers : Min(controllers) <= i
      BY <1>4, <2>1, MinOfNaturals
    <2>3. first = Min(controllers)
      BY <1>4
    <2> HIDE DEF first
    <2>4. first \in DOMAIN owners /\ owners[first].Controller
      BY <2>2, <2>3
    <2>5. \A j \in 1 .. first - 1 : ~owners[j].Controller
      <3> SUFFICES ASSUME NEW j \in 1 .. first - 1, owners[j].Controller PROVE FALSE
        OBVIOUS
      <3>1. j \in DOMAIN owners /\ ~(first <= j)
        BY <1>1, <2>4
      <3>2. j \in controllers
        BY <3>1
      <3> QED
        BY <2>2, <2>3, <3>1, <3>2
    <2>6. nextOwner(owners) \in Objects
      BY <1>1, <1>2, <2>4
    <2>7. Controls(nextOwner(owners), owners)
      BY <1>2, <2>4, <2>5 DEF Controls
    <2> QED
      BY <2>6, <2>7 DEF owners
  <1> QED
    BY <1>3, <1>4

-----------------------------------------------------------------------------
Entry == [object : Objects, uid : Nat]

\* A chain with one more entry.
LEMMA OneMoreEntry ==
    ASSUME NEW old \in Seq(Entry), NEW e \in Entry, NEW new, new = Append(old, e)
    PROVE  /\ new \in Seq(Entry) /\ new # <<>> /\ Len(new) = Len(old) + 1 /\ Len(old) \in Nat
           /\ DOMAIN new = 1 .. Len(old) + 1 /\ DOMAIN old = 1 .. Len(old)
           /\ \A i \in 1 .. Len(old) : new[i] = old[i]
           /\ new[Len(old) + 1] = e
           /\ (old = <<>>) <=> (Len(old) = 0)
  <1> HIDE DEF Entry
  <1> QED
    OBVIOUS

\* What a cluster holds is typed as the cluster is.
LEMMA HoldingTyped ==
    ASSUME NEW c, DOMAIN c \subseteq Fetchable,
           \A o \in DOMAIN c : c[o] \in [uid : Nat, owners : OwnerLists]
    PROVE  holding(c) \subseteq [object : Fetchable, uid : Nat, owners : OwnerLists]
  <1> SUFFICES ASSUME NEW o \in DOMAIN c
               PROVE  [object |-> o, uid |-> c[o].uid, owners |-> c[o].owners]
                        \in [object : Fetchable, uid : Nat, owners : OwnerLists]
    BY DEF holding
  <1> QED
    OBVIOUS

\* A link that was real stays one that was real.
LEMMA LinksLast ==
    ASSUME held \subseteq held', chain' = chain, NEW entry
    PROVE  /\ \A o : Linked(entry, o) => Linked(entry, o)'
           /\ Root(entry) => Root(entry)'
  BY DEF Linked, Root, StatesOf

\* A call finds the cluster in some state.
LEMMA SnapshotInitInv == SnapshotInit => SInv
  <1> SUFFICES ASSUME SnapshotInit PROVE SInv
    OBVIOUS
  <1>1. PICK existing \in SUBSET Fetchable :
          cluster \in [existing -> [uid : {1}, owners : OwnerLists]]
    BY DEF SnapshotInit, Init
  <1>2. /\ changes = 1 /\ leaf \in Objects /\ current = leaf
        /\ chain = <<>> /\ outcome = "walking" /\ held = holding(cluster)
    BY DEF SnapshotInit, Init
  <1>3. \A o \in DOMAIN cluster : cluster[o].uid = 1 /\ cluster[o] \in [uid : Nat, owners : OwnerLists]
    BY <1>1
  <1>4. TypeOK
    <2>1. chain \in Seq([object : Objects, uid : Nat]) /\ Len(chain) = 0
      BY <1>2
    <2>2. DOMAIN cluster \subseteq Fetchable
      BY <1>1
    <2>3. held \subseteq [object : Fetchable, uid : Nat, owners : OwnerLists]
      BY <1>2, <1>3, <2>2, HoldingTyped
    <2> QED
      BY <1>2, <1>3, <2>1, <2>2, <2>3, DepthAssumption DEF TypeOK
  <1>5. WalkInv
    <2>1. Len(chain) = 0 /\ DOMAIN chain = {}
      BY <1>2
    <2>2. 1 .. Len(chain) - 1 = {}
      BY <2>1
    <2> QED
      BY <1>2, <2>1, <2>2, DepthAssumption DEF WalkInv
  <1>6. UidsBounded /\ HeldNow
    BY <1>2, <1>3 DEF UidsBounded, HeldNow
  <1>7. CallInv
    BY <1>2 DEF SnapshotInit, CallInv
  <1> QED
    BY <1>4, <1>5, <1>6, <1>7 DEF SInv

\* A change of the cluster adds to what it held: what was walked and fetched stays.
LEMMA ClusterStepInv ==
    ASSUME SInv, ClusterStep, UNCHANGED callVars
    PROVE  SInv'
  <1>1. PICK o \in Fetchable : Put(o) \/ Delete(o)
    BY DEF ClusterStep
  <1>2. /\ changes' = changes + 1 /\ held \subseteq held'
        /\ leaf' = leaf /\ current' = current /\ chain' = chain /\ outcome' = outcome
    BY <1>1 DEF Put, Delete, walkVars
  <1>3. /\ call' = call /\ stage' = stage /\ snap' = snap /\ reply' = reply
    BY DEF callVars
  <1>4. changes \in Nat /\ changes + 1 # 1
    BY DEF SInv, TypeOK
  <1>5. /\ DOMAIN cluster' \subseteq Fetchable
        /\ \A x \in DOMAIN cluster' :
             /\ cluster'[x] \in [uid : Nat, owners : OwnerLists]
             /\ \/ x \in DOMAIN cluster /\ cluster'[x].uid = cluster[x].uid
                \/ cluster'[x].uid = changes + 1
    <2>1. CASE Put(o)
      <3> DEFINE known == {cluster[x].uid : x \in DOMAIN cluster \cap {o}}
      <3>1. PICK owners \in OwnerLists, uid \in {changes + 1} \cup known :
              cluster' = [x \in DOMAIN cluster \cup {o} |->
                            IF x = o THEN [uid |-> uid, owners |-> owners] ELSE cluster[x]]
        BY <2>1 DEF Put
      <3> DEFINE new == [uid |-> uid, owners |-> owners]
      <3>2. /\ new \in [uid : Nat, owners : OwnerLists]
            /\ new.uid = changes + 1 \/ (o \in DOMAIN cluster /\ new.uid = cluster[o].uid)
        <4>1. uid = changes + 1 \/ (o \in DOMAIN cluster /\ uid = cluster[o].uid)
          OBVIOUS
        <4>2. o \in DOMAIN cluster => cluster[o].uid \in Nat
          BY DEF SInv, TypeOK
        <4>3. uid \in Nat /\ new.uid = uid
          BY <1>4, <4>1, <4>2
        <4> QED
          BY <4>1, <4>3
      <3>3. /\ DOMAIN cluster' = DOMAIN cluster \cup {o}
            /\ \A x \in DOMAIN cluster' : cluster'[x] = IF x = o THEN new ELSE cluster[x]
        BY <3>1
      <3> HIDE DEF new
      <3> QED
        BY <3>2, <3>3 DEF SInv, TypeOK
    <2>2. CASE Delete(o)
      <3>1. /\ DOMAIN cluster' = DOMAIN cluster \ {o}
            /\ \A x \in DOMAIN cluster' : cluster'[x] = cluster[x]
        BY <2>2 DEF Delete
      <3> QED
        BY <3>1 DEF SInv, TypeOK
    <2> QED
      BY <1>1, <2>1, <2>2
  <1>6. TypeOK'
    <2>1. changes' \in Nat \ {0}
      BY <1>2, <1>4
    <2>2. held' \subseteq [object : Fetchable, uid : Nat, owners : OwnerLists]
      <3>1. held' = held \/ held' = held \cup holding(cluster')
        BY <1>1 DEF Put, Delete
      <3>2. holding(cluster') \subseteq [object : Fetchable, uid : Nat, owners : OwnerLists]
        BY <1>5, HoldingTyped
      <3> QED
        BY <3>1, <3>2 DEF SInv, TypeOK
    <2>3. /\ {leaf', current'} \subseteq Objects
          /\ chain' \in Seq([object : Objects, uid : Nat]) /\ Len(chain') <= MaxChainDepth
          /\ outcome' \in {"walking", "resolved", "failed"}
      BY <1>2 DEF SInv, TypeOK
    <2> QED
      BY <1>5, <2>1, <2>2, <2>3 DEF TypeOK
  <1>7. WalkInv'
    BY <1>2, LinksLast DEF SInv, WalkInv
  <1>8. HeldNow'
    <2>1. CASE Put(o)
      BY <2>1 DEF Put, HeldNow
    <2>2. CASE Delete(o)
      BY <2>2 DEF Delete, HeldNow, holding, SInv
    <2> QED
      BY <1>1, <2>1, <2>2
  <1>9. UidsBounded'
    <2> SUFFICES ASSUME NEW x \in DOMAIN cluster' PROVE cluster'[x].uid <= changes + 1
      BY <1>2 DEF UidsBounded
    <2>1. x \in DOMAIN cluster => cluster[x].uid \in Nat /\ cluster[x].uid <= changes
      BY DEF SInv, TypeOK, UidsBounded
    <2> QED
      BY <1>4, <1>5, <2>1
  <1>10. Fetched => Fetched'
    <2> SUFFICES ASSUME Fetched PROVE Fetched'
      OBVIOUS
    <2>1. snap.UID \in Nat /\ snap.UID <= changes
      BY DEF Fetched, Snapshot
    <2>2. leaf \in DOMAIN cluster' => snap.UID <= cluster'[leaf].uid
      BY <1>4, <1>5, <2>1 DEF Fetched
    <2>3. snap.UID <= changes + 1
      BY <1>4, <2>1
    <2> QED
      BY <1>2, <1>3, <1>4, <2>2, <2>3 DEF Fetched
  <1>11. CallInv'
    <2>1. sent(attached(snap))' = sent(attached(snap))
      BY <1>2, <1>3 DEF sent, attached, encodable
    <2> QED
      BY <1>2, <1>3, <1>10, <2>1 DEF SInv, CallInv
  <1> QED
    BY <1>6, <1>7, <1>8, <1>9, <1>11 DEF SInv

\* One more entry extends the path, if it is what the walk had taken up.
LEMMA Extended ==
    ASSUME SInv, outcome = "walking", NEW e \in Entry, e.object = current,
           chain' = Append(chain, e)
    PROVE  /\ chain' # <<>> /\ chain'[1].object = leaf
           /\ chain' \in Seq(Entry) /\ Len(chain') = Len(chain) + 1
           /\ Len(chain') <= MaxChainDepth /\ chain'[Len(chain')] = e
           /\ chain # <<>> => chain'[1] = chain[1]
           /\ chain = <<>> => chain'[1] = e
           /\ \A i \in 1 .. Len(chain') - 1 : Linked(chain'[i], chain'[i + 1].object)
  <1> DEFINE n == Len(chain)
  <1>1. chain \in Seq(Entry) /\ MaxChainDepth \in Nat /\ Len(chain) < MaxChainDepth
    BY DepthAssumption DEF SInv, TypeOK, WalkInv, Entry
  <1>2. /\ chain' \in Seq(Entry) /\ chain' # <<>> /\ Len(chain') = n + 1 /\ n \in Nat
        /\ DOMAIN chain' = 1 .. n + 1 /\ DOMAIN chain = 1 .. n
        /\ \A i \in 1 .. n : chain'[i] = chain[i]
        /\ chain'[n + 1] = e
        /\ (chain = <<>>) <=> (n = 0)
    BY <1>1, OneMoreEntry
  <1> HIDE DEF n
  <1>3. Len(chain') <= MaxChainDepth
    BY <1>1, <1>2 DEF n
  <1>4. /\ chain # <<>> => chain'[1] = chain[1]
        /\ chain = <<>> => chain'[1] = e
    BY <1>2
  <1>5. chain'[1].object = leaf
    BY <1>4 DEF SInv, WalkInv
  <1>6. ASSUME NEW i \in 1 .. n PROVE Linked(chain'[i], chain'[i + 1].object)
    <2>1. /\ \A k \in 1 .. n - 1 : Linked(chain[k], chain[k + 1].object)
          /\ n > 0 => Linked(chain[n], current)
      BY <1>2 DEF SInv, WalkInv, n
    <2>2. CASE i = n
      <3>1. chain'[i] = chain[n] /\ chain'[i + 1] = e /\ n > 0
        BY <1>2, <2>2
      <3> QED
        BY <2>1, <3>1
    <2>3. CASE i # n
      <3>1. i \in 1 .. n - 1 /\ chain'[i] = chain[i] /\ chain'[i + 1] = chain[i + 1]
        BY <1>2, <2>3
      <3> QED
        BY <2>1, <3>1
    <2> QED
      BY <2>2, <2>3
  <1>7. 1 .. Len(chain') - 1 = 1 .. n
    BY <1>2
  <1> QED
    BY <1>2, <1>3, <1>4, <1>5, <1>6, <1>7 DEF n

\* The walk after a step that appends an entry.
LEMMA WalkExtended ==
    ASSUME SInv, cluster' = cluster, changes' = changes, held' = held, leaf' = leaf,
           outcome = "walking", NEW e \in Entry, e.object = current,
           chain' = Append(chain, e), current' \in Objects,
           \/ /\ outcome' = "resolved"
              /\ \/ e.object \notin Fetchable /\ e.uid = 0
                 \/ \E state \in StatesOf(e) :
                      state.owners = <<>> \/ Len(chain') = MaxChainDepth
           \/ /\ outcome' = "walking" /\ Len(chain') # MaxChainDepth
              /\ Linked(e, current')
    PROVE  TypeOK' /\ WalkInv' /\ HeldNow' /\ UidsBounded'
  <1>1. /\ chain' # <<>> /\ chain'[1].object = leaf
        /\ chain' \in Seq(Entry) /\ Len(chain') = Len(chain) + 1
        /\ Len(chain') <= MaxChainDepth /\ chain'[Len(chain')] = e
        /\ \A i \in 1 .. Len(chain') - 1 : Linked(chain'[i], chain'[i + 1].object)
    BY Extended
  <1>2. Len(chain') \in Nat /\ MaxChainDepth \in Nat
    <2>1. chain \in Seq(Entry)
      BY DEF SInv, TypeOK, Entry
    <2>2. Len(chain) \in Nat
      BY <2>1
    <2> QED
      BY <1>1, <2>2, DepthAssumption
  <1>3. TypeOK'
    <2>1. /\ DOMAIN cluster' \subseteq Fetchable
          /\ \A o \in DOMAIN cluster' : cluster'[o] \in [uid : Nat, owners : OwnerLists]
          /\ changes' \in Nat \ {0} /\ {leaf', current'} \subseteq Objects
          /\ held' \subseteq [object : Fetchable, uid : Nat, owners : OwnerLists]
      BY DEF SInv, TypeOK
    <2>2. outcome' \in {"walking", "resolved", "failed"}
      OBVIOUS
    <2> QED
      BY <1>1, <2>1, <2>2 DEF TypeOK, Entry
  <1>4. WalkInv'
    <2>0. outcome' = "walking" => Len(chain') # MaxChainDepth
      OBVIOUS
    <2>1. /\ outcome' = "walking" => Len(chain') < MaxChainDepth
          /\ chain' # <<>> /\ chain'[1].object = leaf'
      BY <1>1, <1>2, <2>0
    <2>3. \A i \in 1 .. Len(chain') - 1 : (Linked(chain[i], chain[i + 1].object))'
      BY <1>1 DEF Linked, StatesOf
    <2>4. outcome' = "walking" => (Linked(chain[Len(chain)], current))'
      BY <1>1 DEF Linked, StatesOf
    <2>5. outcome' = "resolved" => (Root(chain[Len(chain)]))'
      BY <1>1 DEF Root, StatesOf
    <2> QED
      BY <2>1, <2>3, <2>4, <2>5 DEF WalkInv
  <1>5. UidsBounded' /\ HeldNow'
    BY DEF SInv, UidsBounded, HeldNow, holding
  <1> QED
    BY <1>3, <1>4, <1>5

\* The snapshot stays older than the chain that is walked after it.
LEMMA FetchedExtended ==
    ASSUME SInv, cluster' = cluster, changes' = changes, held' = held, leaf' = leaf,
           outcome = "walking", NEW e \in Entry, e.object = current, Present(e),
           chain' = Append(chain, e), snap' = snap, Fetched,
           current \notin Fetchable \/ current \in DOMAIN cluster
    PROVE  Fetched'
  <1>1. /\ chain' # <<>> /\ chain # <<>> => chain'[1] = chain[1]
        /\ chain = <<>> => chain'[1] = e
    BY Extended
  <1>2. snap.UID <= chain'[1].uid /\ (changes = 1 => snap.UID = chain'[1].uid)
    <2>1. CASE chain # <<>>
      BY <1>1, <2>1 DEF Fetched
    <2>2. CASE chain = <<>>
      <3>1. current = leaf /\ leaf \in Fetchable
        BY <2>2 DEF SInv, WalkInv, Fetched
      <3>2. e.uid = cluster[leaf].uid /\ leaf \in DOMAIN cluster
        BY <3>1 DEF Present
      <3> QED
        BY <1>1, <2>2, <3>2 DEF Fetched
    <2> QED
      BY <2>1, <2>2
  <1> QED
    BY <1>2 DEF Fetched

\* A step of the walk.
LEMMA WalkInvStep ==
    ASSUME SInv, Walk
    PROVE  SInv'
  <1>0. /\ stage = "walking" /\ outcome = "walking" /\ cluster' = cluster /\ changes' = changes
        /\ held' = held /\ leaf' = leaf
        /\ call' = call /\ stage' = stage /\ snap' = snap /\ reply' = reply
    BY DEF Walk, WalkStep, Fetch, StopAtUnknownKind, FetchFails, callVars
  <1>1. ASSUME Fetched => Fetched' PROVE CallInv'
    BY <1>0, <1>1 DEF SInv, CallInv
  <1>2. CASE Fetch
    <2> DEFINE object == cluster[current]
               e == [object |-> current, uid |-> object.uid]
    <2>1. current \in DOMAIN cluster /\ object \in [uid : Nat, owners : OwnerLists] /\ current \in Objects
      BY <1>2 DEF Fetch, SInv, TypeOK
    <2>2. e \in Entry /\ e.object = current /\ Present(e)
      BY <2>1 DEF Entry, Present
    <2>3. chain' = Append(chain, e)
      BY <1>2 DEF Fetch
    <2>6. \E state \in StatesOf(e) : state.owners = object.owners
      <3> DEFINE found == [object |-> current, uid |-> object.uid, owners |-> object.owners]
      <3>1. found \in held
        BY <2>1 DEF SInv, HeldNow, holding
      <3>2. found \in StatesOf(e)
        BY <3>1 DEF StatesOf
      <3> QED
        BY <3>2
    <2>4. CASE object.owners = <<>> \/ Len(chain') = MaxChainDepth
      <3>1. outcome' = "resolved" /\ current' = current
        BY <1>2, <2>3, <2>4 DEF Fetch, exhausted
      <3> HIDE DEF e
      <3>2. \E state \in StatesOf(e) : state.owners = <<>> \/ Len(chain') = MaxChainDepth
        BY <2>4, <2>6
      <3>3. current' \in Objects
        BY <2>1, <3>1
      <3>4. TypeOK' /\ WalkInv' /\ HeldNow' /\ UidsBounded'
        BY <1>0, <2>2, <2>3, <3>1, <3>2, <3>3, WalkExtended
      <3>5. Fetched => Fetched'
        BY <1>0, <2>1, <2>2, <2>3, FetchedExtended
      <3> QED
        BY <1>1, <3>4, <3>5 DEF SInv
    <2>5. CASE object.owners # <<>> /\ Len(chain') # MaxChainDepth
      <3>1. outcome' = outcome /\ current' = nextOwner(object.owners)
        BY <1>2, <2>3, <2>5 DEF Fetch, exhausted
      <3>2. current' \in Objects /\ Controls(current', object.owners)
        BY <2>1, <2>5, <3>1, NextOwnerControls DEF SInv
      <3> HIDE DEF e
      <3>3. Linked(e, current')
        BY <2>6, <3>2 DEF Linked
      <3>4. TypeOK' /\ WalkInv' /\ HeldNow' /\ UidsBounded'
        BY <1>0, <2>1, <2>2, <2>3, <2>5, <3>1, <3>2, <3>3, WalkExtended
      <3>5. Fetched => Fetched'
        BY <1>0, <2>1, <2>2, <2>3, FetchedExtended
      <3> QED
        BY <1>1, <3>4, <3>5 DEF SInv
    <2> QED
      BY <2>4, <2>5
  <1>3. CASE StopAtUnknownKind
    <2> DEFINE e == [object |-> current, uid |-> 0]
    <2>1. /\ current \notin Fetchable /\ chain' = Append(chain, e) /\ outcome' = "resolved"
          /\ current' = current
      BY <1>3 DEF StopAtUnknownKind
    <2>2. e \in Entry /\ e.object = current /\ Present(e)
      BY <2>1 DEF SInv, TypeOK, Entry, Present
    <2> HIDE DEF e
    <2>3. e.object \notin Fetchable /\ e.uid = 0
      BY <2>1 DEF e
    <2>4. TypeOK' /\ WalkInv' /\ HeldNow' /\ UidsBounded'
      <3>1. current' \in Objects
        BY <2>1 DEF SInv, TypeOK
      <3> QED
        BY <1>0, <2>1, <2>2, <2>3, <3>1, WalkExtended
    <2>5. Fetched => Fetched'
      BY <1>0, <2>1, <2>2, FetchedExtended
    <2> QED
      BY <1>1, <2>4, <2>5 DEF SInv
  <1>4. CASE FetchFails
    <2>1. outcome' = "failed" /\ current' = current /\ chain' = chain
      BY <1>4 DEF FetchFails
    <2>2. TypeOK'
      BY <1>0, <2>1 DEF SInv, TypeOK
    <2>3. WalkInv'
      BY <1>0, <2>1 DEF SInv, WalkInv, Linked, StatesOf, Root
    <2>4. HeldNow' /\ UidsBounded' /\ (Fetched => Fetched')
      BY <1>0, <2>1 DEF SInv, HeldNow, holding, UidsBounded, Fetched
    <2> QED
      BY <1>1, <2>2, <2>3, <2>4 DEF SInv
  <1> QED
    BY <1>2, <1>3, <1>4 DEF Walk, WalkStep

-----------------------------------------------------------------------------
\* fetchSnapshot makes a snapshot of the incarnation it read, without a chain.
LEMMA SnapshotTyped ==
    ASSUME NEW o \in Objects, NEW uid \in Nat, NEW status \in Statuses
    PROVE  LET s == fetchSnapshot(o, uid, status)
           IN s \in Snapshot /\ s.UID = uid /\ s.OwnerChain = <<>>
  <1> DEFINE kind == KindOf[o]
             Phases == {phaseOf(KindOf[x], y) : x \in Objects, y \in Statuses}
             Containers == {extractContainerStatuses(y.containers) : y \in Statuses} \cup {<<>>}
             Conditions == {y.conditions : y \in Statuses} \cup {<<>>}
             phase == phaseOf(kind, status)
             containers == IF kind = "Pod" THEN extractContainerStatuses(status.containers)
                           ELSE <<>>
             conditions == IF kind \in {"Deployment", "StatefulSet", "DaemonSet", "Job"}
                           THEN status.conditions ELSE <<>>
  <1>1. phase \in Phases
    OBVIOUS
  <1>2. containers \in Containers
    OBVIOUS
  <1>3. conditions \in Conditions
    OBVIOUS
  <1>4. <<>> \in Seq([object : Objects, uid : Nat])
    OBVIOUS
  <1>5. fetchSnapshot(o, uid, status)
          = [object |-> o, UID |-> uid, OwnerChain |-> <<>>, Phase |-> phase,
             ContainerStatuses |-> containers, WorkloadConditions |-> conditions]
    BY DEF fetchSnapshot
  <1>6. Snapshot = [object : Objects, UID : Nat, OwnerChain : Seq([object : Objects, uid : Nat]),
                    Phase : Phases, ContainerStatuses : Containers,
                    WorkloadConditions : Conditions]
    BY DEF Snapshot
  <1> HIDE DEF Phases, Containers, Conditions, phase, containers, conditions
  <1> QED
    BY <1>1, <1>2, <1>3, <1>4, <1>5, <1>6

\* The chain does not decide whether a snapshot can be encoded, and a snapshot
\* with its chain is a snapshot.
LEMMA AttachedTyped ==
    ASSUME TypeOK, NEW s \in Snapshot
    PROVE  /\ attached(s) \in Snapshot
           /\ attached(s).OwnerChain = IF outcome = "failed" THEN <<>> ELSE chain
           /\ attached(s).UID = s.UID
           /\ encodable(attached(s)) <=> encodable(s)
           /\ s.OwnerChain = <<>> => [attached(s) EXCEPT !.OwnerChain = <<>>] = s
  <1> DEFINE c == IF outcome = "failed" THEN <<>> ELSE chain
  <1>1. c \in Seq([object : Objects, uid : Nat])
    BY DEF TypeOK
  <1>2. attached(s) = [s EXCEPT !.OwnerChain = c]
    BY DEF attached
  <1> HIDE DEF c
  <1>3. /\ attached(s) \in Snapshot /\ attached(s).OwnerChain = c /\ attached(s).UID = s.UID
        /\ attached(s).ContainerStatuses = s.ContainerStatuses
    BY <1>1, <1>2, SMTT(30) DEF Snapshot
  <1>4. ASSUME NEW e, s.OwnerChain = e PROVE [attached(s) EXCEPT !.OwnerChain = e] = s
    <2> DEFINE u == attached(s)
    <2>1. /\ u.object = s.object /\ u.Phase = s.Phase
          /\ u.WorkloadConditions = s.WorkloadConditions
      BY <1>2 DEF Snapshot
    <2> HIDE DEF u
    <2>2. [u EXCEPT !.OwnerChain = e]
            = [object |-> u.object, UID |-> u.UID, OwnerChain |-> e, Phase |-> u.Phase,
               ContainerStatuses |-> u.ContainerStatuses,
               WorkloadConditions |-> u.WorkloadConditions]
      BY <1>3, SMTT(30) DEF Snapshot, u
    <2>3. s = [object |-> s.object, UID |-> s.UID, OwnerChain |-> s.OwnerChain,
               Phase |-> s.Phase, ContainerStatuses |-> s.ContainerStatuses,
               WorkloadConditions |-> s.WorkloadConditions]
      BY DEF Snapshot
    <2> QED
      BY <1>3, <1>4, <2>1, <2>2, <2>3 DEF u
  <1>5. encodable(attached(s)) <=> encodable(s)
    BY <1>3 DEF encodable
  <1> QED
    BY <1>3, <1>4, <1>5 DEF c

\* The steps of the call itself.
LEMMA CallInvStep ==
    ASSUME SInv, FetchSnapshot \/ SnapshotFails \/ Reply
    PROVE  SInv'
  <1>1. UNCHANGED vars /\ call' = call
    BY DEF FetchSnapshot, SnapshotFails, Reply
  <1>2. TypeOK' /\ HeldNow' /\ UidsBounded'
    BY <1>1 DEF vars, walkVars, SInv, TypeOK, HeldNow, holding, UidsBounded
  <1>3. WalkInv'
    BY <1>1 DEF vars, walkVars, SInv, WalkInv, Linked, StatesOf, Root
  <1>4. CASE FetchSnapshot
    <2>1. /\ stage = "fetching" /\ stage' = "walking" /\ leaf \in DOMAIN cluster
      BY <1>4 DEF FetchSnapshot
    <2>2. PICK status \in Statuses : snap' = fetchSnapshot(leaf, cluster[leaf].uid, status)
      BY <1>4 DEF FetchSnapshot
    <2>3. leaf \in Objects /\ leaf \in Fetchable /\ cluster[leaf].uid \in Nat
      BY <2>1 DEF SInv, TypeOK
    <2>4. snap' \in Snapshot /\ snap'.UID = cluster[leaf].uid /\ snap'.OwnerChain = <<>>
      BY <2>2, <2>3, SnapshotTyped
    <2>5. call = "GetObjectSnapshot" => Fetched'
      <3> SUFFICES ASSUME call = "GetObjectSnapshot" PROVE Fetched'
        OBVIOUS
      <3>1. chain = <<>> /\ cluster[leaf].uid <= changes
        BY <2>1 DEF SInv, CallInv, UidsBounded
      <3>2. /\ cluster' = cluster /\ changes' = changes /\ leaf' = leaf /\ chain' = chain
            /\ held' = held
        BY <1>1 DEF vars, walkVars
      <3>3. snap'.UID <= cluster[leaf].uid
        BY <2>3, <2>4
      <3> QED
        BY <2>1, <2>3, <2>4, <3>1, <3>2, <3>3 DEF Fetched
    <2>6. CallInv'
      BY <1>1, <2>1, <2>5 DEF CallInv
    <2> QED
      BY <1>2, <1>3, <2>6 DEF SInv
  <1>5. CASE SnapshotFails
    <2>1. stage = "fetching" /\ stage' = "replied" /\ reply' = Failed /\ snap' = snap
      BY <1>5 DEF SnapshotFails
    <2>2. CallInv'
      BY <1>1, <2>1 DEF SInv, CallInv
    <2> QED
      BY <1>2, <1>3, <2>2 DEF SInv
  <1>6. CASE Reply
    <2>1. /\ stage = "walking" /\ outcome # "walking" /\ stage' = "replied" /\ snap' = snap
          /\ call = "GetObjectSnapshot" => reply' = sent(attached(snap))
      BY <1>6 DEF Reply
    <2>2. Fetched => Fetched'
      BY <1>1, <2>1 DEF vars, walkVars, Fetched
    <2>3. sent(attached(snap))' = sent(attached(snap)) /\ outcome' = outcome
      BY <1>1, <2>1 DEF vars, walkVars, sent, attached, encodable
    <2>4. CallInv'
      BY <1>1, <2>1, <2>2, <2>3 DEF SInv, CallInv
    <2> QED
      BY <1>2, <1>3, <2>4 DEF SInv
  <1> QED
    BY <1>4, <1>5, <1>6

\* Every step, of the call and of the cluster, keeps the invariant.
LEMMA SnapshotNextInv == SInv /\ [SnapshotNext]_snapshotVars => SInv'
  <1> SUFFICES ASSUME SInv, [SnapshotNext]_snapshotVars PROVE SInv'
    OBVIOUS
  <1>1. CASE SnapshotNext
    BY <1>1, ClusterStepInv, WalkInvStep, CallInvStep DEF SnapshotNext
  <1>2. CASE UNCHANGED snapshotVars
    <2> USE <1>2 DEF snapshotVars, vars, walkVars, callVars
    <2>1. TypeOK' /\ HeldNow' /\ UidsBounded'
      BY DEF SInv, TypeOK, HeldNow, holding, UidsBounded
    <2>2. WalkInv'
      BY DEF SInv, WalkInv, Linked, StatesOf, Root
    <2>3. CallInv'
      BY DEF SInv, CallInv, Fetched, sent, attached, encodable
    <2> QED
      BY <2>1, <2>2, <2>3 DEF SInv
  <1> QED
    BY <1>1, <1>2

LEMMA SnapshotInvariance == SnapshotSpec => []SInv
  BY SnapshotInitInv, SnapshotNextInv, PTL DEF SnapshotSpec

-----------------------------------------------------------------------------
\* The state of a walk keeps its type, and no chain exceeds the depth limit
\* although owners may form cycles.
THEOREM WalkTypeCorrect == SnapshotSpec => []TypeOK
  <1>1. SInv => TypeOK
    BY DEF SInv
  <1> QED
    BY <1>1, SnapshotInvariance, PTL

\* However the cluster changes during the walk, a resolved chain is made of links
\* that were real during the call.
THEOREM ChainCorrect == SnapshotSpec => []ChainGenuine
  <1>1. SInv => ChainGenuine
    <2> SUFFICES ASSUME SInv, outcome = "resolved"
                 PROVE  ChainGenuine
      BY DEF ChainGenuine
    <2>1. /\ chain # <<>> /\ chain[1].object = leaf
          /\ \A i \in 1 .. Len(chain) - 1 : Linked(chain[i], chain[i + 1].object)
          /\ Root(chain[Len(chain)])
      BY DEF SInv, WalkInv
    <2>2. Last(chain) = chain[Len(chain)]
      BY DEF Last
    <2> QED
      BY <2>1, <2>2 DEF ChainGenuine, Linked, Root
  <1> QED
    BY <1>1, SnapshotInvariance, PTL

\* The chain of a reply never belongs to an earlier incarnation of the object
\* than its snapshot.
THEOREM ReadsCorrect == SnapshotSpec => []ReadsInOrder
  <1>1. SInv => ReadsInOrder
    <2> SUFFICES ASSUME SInv, snapshotSent, reply.OwnerChain # <<>>
                 PROVE  LET first == Head(reply.OwnerChain)
                        IN /\ outcome = "resolved" /\ first.object = leaf
                           /\ first.uid >= reply.UID
                           /\ changes = 1 => first.uid = reply.UID
      BY DEF ReadsInOrder
    <2>1. Fetched /\ outcome # "walking" /\ reply = sent(attached(snap)) /\ reply # Failed
      BY DEF SInv, CallInv, snapshotSent
    <2>2. reply = attached(snap) /\ snap \in Snapshot /\ snap.UID \in Nat
      BY <2>1 DEF sent, Fetched, Snapshot
    <2>3. /\ reply.OwnerChain = IF outcome = "failed" THEN <<>> ELSE chain
          /\ reply.UID = snap.UID
      BY <2>2, AttachedTyped DEF SInv
    <2>4. outcome = "resolved" /\ reply.OwnerChain = chain /\ chain # <<>>
      BY <2>1, <2>3 DEF SInv, TypeOK
    <2>5. Head(chain) = chain[1] /\ chain[1].uid \in Nat
      <3>1. chain \in Seq(Entry)
        BY DEF SInv, TypeOK, Entry
      <3>2. Head(chain) = chain[1] /\ chain[1] \in Entry
        BY <2>4, <3>1
      <3> QED
        BY <3>2 DEF Entry
    <2>6. /\ chain[1].object = leaf /\ snap.UID <= chain[1].uid
          /\ changes = 1 => chain[1].uid = snap.UID
      BY <2>1, <2>4 DEF SInv, WalkInv, Fetched
    <2> QED
      BY <2>2, <2>3, <2>4, <2>5, <2>6
  <1> QED
    BY <1>1, SnapshotInvariance, PTL

\* A walk that fails costs the caller the chain, never the snapshot.
THEOREM FailureTolerated == SnapshotSpec => []ChainFailureTolerated
  <1>1. SInv => ChainFailureTolerated
    <2> SUFFICES ASSUME SInv, call = "GetObjectSnapshot", stage = "replied", snap # None,
                        encodable(snap)
                 PROVE  reply # Failed /\ [reply EXCEPT !.OwnerChain = <<>>] = snap
      BY DEF ChainFailureTolerated
    <2>1. snap \in Snapshot /\ snap.OwnerChain = <<>> /\ reply = sent(attached(snap))
      BY DEF SInv, CallInv, Fetched
    <2>2. /\ attached(snap) \in Snapshot /\ encodable(attached(snap))
          /\ [attached(snap) EXCEPT !.OwnerChain = <<>>] = snap
      BY <2>1, AttachedTyped DEF SInv
    <2>3. reply = attached(snap)
      BY <2>1, <2>2 DEF sent
    <2> QED
      BY <2>2, <2>3, ErrorAssumption
  <1> QED
    BY <1>1, SnapshotInvariance, PTL
=============================================================================
