------------------------------ MODULE OwnerChain ------------------------------
(***************************************************************************)
(* pkg/enrichment: ResolveOwnerChain follows ownerReferences upwards with  *)
(* one request to the API server per object, while objects are created,    *)
(* deleted and adopted.  References are followed by kind and name; an      *)
(* object here is such a pair, and its uid tells its incarnations apart.   *)
(* ObjectSnapshot puts the walk into the calls that make it.               *)
(***************************************************************************)
EXTENDS Integers, SequencesExt

CONSTANTS
    Objects,       \* kind and name pairs
    Fetchable,     \* those whose kind getOwnerRefs can fetch
    OwnerLists,    \* ownerReferences an object may have: Owner and Controller
    MaxChainDepth, \* 10
    MaxChanges     \* bound on the changes of the cluster

ASSUME ObjectsAssumption ==
    /\ Fetchable \subseteq Objects
    /\ OwnerLists \subseteq Seq([Owner : Objects, Controller : BOOLEAN])
ASSUME DepthAssumption == MaxChainDepth \in Nat \ {0} /\ MaxChanges \in Nat

VARIABLES
    cluster, \* existing object -> its uid and ownerReferences
    changes, \* changes of the cluster so far; the next uid
    leaf,    \* the object the call asks about
    current, \* currentKind and currentName
    chain,   \* the chain so far, leaf first
    outcome, \* "walking", "resolved" or "failed"
    held     \* the states of objects the cluster held during the call (history)

walkVars == <<leaf, current, chain, outcome>>
vars == <<cluster, changes, walkVars, held>>

\* The states of the objects of a cluster.
holding(c) == {[object |-> o, uid |-> c[o].uid, owners |-> c[o].owners] : o \in DOMAIN c}

\* An API server at any moment: some objects exist.
Init ==
    /\ \E existing \in SUBSET Fetchable :
         cluster \in [existing -> [uid : {1}, owners : OwnerLists]]
    /\ changes = 1
    /\ leaf \in Objects /\ current = leaf
    /\ chain = <<>> /\ outcome = "walking" /\ held = holding(cluster)

-----------------------------------------------------------------------------
\* Mutants of the definitions below: plausible slips in the code they model.
nextOwnerFirst(owners) == owners[1].Owner

exhaustedNever(walked) == FALSE

-----------------------------------------------------------------------------
\* Another client creates or replaces an object, which gives it a new uid, or
\* changes its owners, as an adoption does, which does not.
Put(o) ==
    /\ changes < MaxChanges
    /\ \E owners \in OwnerLists,
          uid \in {changes + 1} \cup {cluster[x].uid : x \in DOMAIN cluster \cap {o}} :
         cluster' = [x \in DOMAIN cluster \cup {o} |->
                       IF x = o THEN [uid |-> uid, owners |-> owners] ELSE cluster[x]]
    /\ changes' = changes + 1
    /\ held' = held \cup holding(cluster')
    /\ UNCHANGED walkVars

Delete(o) ==
    /\ changes < MaxChanges /\ o \in DOMAIN cluster
    /\ cluster' = [x \in DOMAIN cluster \ {o} |-> cluster[x]]
    /\ changes' = changes + 1
    /\ UNCHANGED <<walkVars, held>>

\* The first controlling owner, or the first one.
nextOwner(owners) ==
    LET controllers == {i \in DOMAIN owners : owners[i].Controller}
    IN IF controllers = {} THEN owners[1].Owner ELSE owners[Min(controllers)].Owner

\* The loop has run maxChainDepth times.
exhausted(walked) == Len(walked) = MaxChainDepth

\* One iteration: the object is fetched, appended and its owner taken up.
Fetch ==
    /\ outcome = "walking" /\ current \in DOMAIN cluster
    /\ LET object == cluster[current]
           walked == Append(chain, [object |-> current, uid |-> object.uid])
       IN /\ chain' = walked
          /\ IF object.owners = <<>> \/ exhausted(walked)
             THEN outcome' = "resolved" /\ UNCHANGED current
             ELSE current' = nextOwner(object.owners) /\ UNCHANGED outcome
    /\ UNCHANGED <<cluster, changes, leaf, held>>

\* An object of another kind ends the chain, without a uid (0).
StopAtUnknownKind ==
    /\ outcome = "walking" /\ current \notin Fetchable
    /\ chain' = Append(chain, [object |-> current, uid |-> 0])
    /\ outcome' = "resolved"
    /\ UNCHANGED <<cluster, changes, leaf, current, held>>

\* The object does not exist or the request fails: callers drop the chain.
FetchFails ==
    /\ outcome = "walking" /\ current \in Fetchable
    /\ outcome' = "failed"
    /\ UNCHANGED <<cluster, changes, leaf, current, chain, held>>

ClusterStep == \E o \in Fetchable : Put(o) \/ Delete(o)

WalkStep == Fetch \/ StopAtUnknownKind \/ FetchFails

-----------------------------------------------------------------------------
(***************************************************************************)
(* Properties                                                              *)
(***************************************************************************)
\* The type of the walk; a chain never exceeds maxChainDepth, also when owners
\* form a cycle (ownerchain.go 11 and 21).
TypeOK ==
    /\ DOMAIN cluster \subseteq Fetchable
    /\ \A o \in DOMAIN cluster : cluster[o] \in [uid : Nat, owners : OwnerLists]
    /\ changes \in Nat \ {0} /\ {leaf, current} \subseteq Objects
    /\ chain \in Seq([object : Objects, uid : Nat]) /\ Len(chain) <= MaxChainDepth
    /\ outcome \in {"walking", "resolved", "failed"}
    /\ held \subseteq [object : Fetchable, uid : Nat, owners : OwnerLists]

\* Is p the owner that controls an object with these references, or its first one
\* when none does?
Controls(p, owners) ==
    \E i \in DOMAIN owners :
        /\ owners[i].Owner = p
        /\ owners[i].Controller \/ (i = 1 /\ \A j \in DOMAIN owners : ~owners[j].Controller)
        /\ \A j \in 1 .. i - 1 : ~owners[j].Controller

\* The states in which the incarnation that an entry of a chain names existed
\* during the call.
StatesOf(entry) == {state \in held : state.object = entry.object /\ state.uid = entry.uid}

\* However the cluster changes between the requests of a walk, a chain is made
\* of links that were real during the call: it starts at the leaf, goes from an
\* incarnation to the owner that controlled it then, and ends at one that had no
\* owner, at a kind that cannot be fetched, or at the depth limit (ownerchain.go
\* 13-51).  In a cluster that is left alone it is the ancestry of the leaf.
ChainGenuine ==
    outcome = "resolved" =>
        /\ chain[1].object = leaf
        /\ \A i \in 1 .. Len(chain) - 1 :
             \E state \in StatesOf(chain[i]) : Controls(chain[i + 1].object, state.owners)
        /\ LET root == Last(chain)
           IN \/ root.object \notin Fetchable /\ root.uid = 0
              \/ \E state \in StatesOf(root) :
                   state.owners = <<>> \/ Len(chain) = MaxChainDepth

=============================================================================
