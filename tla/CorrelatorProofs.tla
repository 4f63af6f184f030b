--------------------------- MODULE CorrelatorProofs ---------------------------
(***************************************************************************)
(* Proofs about Correlator and Response: one call of Correlate and what is *)
(* made of its timeline, for any events in any number, whatever order Go's *)
(* maps are iterated in and sort.Slice leaves equal times in.              *)
(***************************************************************************)
EXTENDS Response, FiniteSetTheorems, TLAPS

\* Where a slice has events of E.
At(s, E) == {i \in DOMAIN s : s[i] \in E}

\* Where it has them from place n on.
From(s, n, E) == {i \in n .. Len(s) : s[i] \in E}

\* The same of the slices gs of the groups in G, and of a timeline.
Slots(gs, G, E) == UNION {{<<g, i>> : i \in At(gs[g], E)} : g \in G}

Listed(ces, E) == {i \in DOMAIN ces : ces[i].event \in E}

\* Events in the order of time.
InOrder(s) == \A i, j \in DOMAIN s : i < j => s[i].LastSeen <= s[j].LastSeen

\* What annotateGroup makes of the i-th event of group g, whose events are gevs.
Annotation(gevs, ce, g, i) ==
    /\ ce.event = gevs[i] /\ ce.GroupID = g
    /\ ce.CausedBy \in knownCause(gevs[i].Reason, seenReasons(gevs, i))
    /\ ce.IsRootCause = (ce.CausedBy = "")

Correlated == [event : Events, GroupID : {groupIDFor(e) : e \in Events},
               CausedBy : {""} \cup {edge[1] : edge \in causalEdges}, IsRootCause : BOOLEAN]

-----------------------------------------------------------------------------
\* A group holds events of the query with its ID, in the order of time.
GroupsOK ==
    \A g \in DOMAIN groups :
        /\ groups[g] \in Seq(Events) /\ Len(groups[g]) > 0 /\ InOrder(groups[g])
        /\ \A i \in DOMAIN groups[g] :
             groupIDFor(groups[g][i]) = g /\ groups[g][i] \in ToSet(evs)

\* The loop over the sorted events: those still to come are not older than the
\* grouped ones, and together they are the events of the query.
Grouping ==
    /\ evs # <<>> /\ annotated = [g \in {} |-> <<>>] /\ all = <<>> /\ rootCauses = <<>>
    /\ sorted \in Seq(Events) /\ InOrder(sorted) /\ next \in 1 .. Len(sorted)
    /\ \A i \in DOMAIN sorted : sorted[i] \in ToSet(evs)
    /\ \A g \in DOMAIN groups : \A i \in DOMAIN groups[g], k \in next .. Len(sorted) :
         groups[g][i].LastSeen <= sorted[k].LastSeen
    /\ \A E \in SUBSET Events :
         /\ IsFiniteSet(Slots(groups, DOMAIN groups, E))
         /\ Cardinality(Slots(groups, DOMAIN groups, E)) + Cardinality(From(sorted, next, E))
              = Cardinality(At(evs, E))

\* The groups together hold every event of the query as often as it does.
GroupsComplete ==
    \A E \in SUBSET Events :
        /\ IsFiniteSet(Slots(groups, DOMAIN groups, E))
        /\ Cardinality(Slots(groups, DOMAIN groups, E)) = Cardinality(At(evs, E))

AnnotatedOK ==
    /\ DOMAIN annotated \subseteq DOMAIN groups
    /\ \A g \in DOMAIN annotated :
         /\ annotated[g] \in Seq(Correlated) /\ Len(annotated[g]) = Len(groups[g])
         /\ \A i \in DOMAIN groups[g] : Annotation(groups[g], annotated[g][i], g, i)

\* The timeline so far: annotated events, all those of the groups taken over,
\* each as often as the query has it.
TimelineOK ==
    /\ all \in Seq(Correlated)
    /\ \A k \in DOMAIN all : \E g \in DOMAIN groups : \E i \in DOMAIN groups[g] :
         Annotation(groups[g], all[k], g, i)
    /\ \A g \in DOMAIN groups \ DOMAIN annotated : \A i \in DOMAIN groups[g] :
         \E k \in DOMAIN all : Annotation(groups[g], all[k], g, i)
    /\ \A E \in SUBSET Events :
         /\ IsFiniteSet(Slots(groups, DOMAIN annotated, E))
         /\ Cardinality(Listed(all, E)) + Cardinality(Slots(groups, DOMAIN annotated, E))
              = Cardinality(At(evs, E))

TimelineInOrder ==
    \A i, j \in DOMAIN all : i < j => all[i].event.LastSeen <= all[j].event.LastSeen

\* The root causes among the first n events of the timeline.
Collected(n) ==
    /\ rootCauses \in Seq(Correlated)
    /\ ToSet(rootCauses) = {all[k] : k \in {k \in 1 .. n : all[k].IsRootCause}}
    /\ Len(rootCauses) = Cardinality({k \in 1 .. n : all[k].IsRootCause})

Stages == {"sort", "group", "annotate", "flatten", "order", "collect", "done"}

CInv ==
    /\ evs \in Seq(Events) /\ pc \in Stages /\ GroupsOK
    /\ pc = "sort" =>
         /\ groups = [g \in {} |-> <<>>] /\ annotated = [g \in {} |-> <<>>]
         /\ all = <<>> /\ rootCauses = <<>> /\ next = 1
    /\ pc = "group" => Grouping
    /\ pc \notin {"sort", "group"} => GroupsComplete /\ AnnotatedOK
    /\ pc \in {"annotate", "flatten", "order"} => evs # <<>> /\ next = 1 /\ rootCauses = <<>>
    /\ pc = "annotate" => all = <<>>
    /\ pc \in {"flatten", "order", "collect", "done"} => TimelineOK
    /\ pc \in {"order", "collect", "done"} => DOMAIN annotated = {}
    /\ pc \in {"collect", "done"} => TimelineInOrder
    /\ pc = "collect" => next \in 1 .. Len(all) /\ Collected(next - 1)
    /\ pc = "done" => Collected(Len(all))

-----------------------------------------------------------------------------
(***************************************************************************)
(* The operators                                                           *)
(***************************************************************************)
\* No reason is caused by the empty string, which stands for "no cause".
LEMMA EdgesNamed == \A edge \in causalEdges : edge[1] # "" /\ edge = <<edge[1], edge[2]>>
  <1>1. \A edge \in causalEdges : edge = <<edge[1], edge[2]>>
    BY DEF causalEdges
  <1>2. ASSUME NEW cause, NEW reason, <<cause, reason>> \in causalEdges PROVE cause # ""
    BY <1>2 DEF causalEdges
  <1> QED BY <1>1, <1>2

\* A cause that knownCause names was seen and leads to the reason, and it names
\* none only when no reason seen does.
LEMMA KnownCauseJustified ==
    ASSUME NEW reason, NEW seen, NEW c \in knownCause(reason, seen)
    PROVE  /\ c = "" => \A r \in seen : <<r, reason>> \notin causalEdges
           /\ c # "" => c \in seen /\ <<c, reason>> \in causalEdges
           /\ c \in {""} \cup {edge[1] : edge \in causalEdges}
  <1> DEFINE causes == causedByIndex(reason) \cap seen
  <1>1. ASSUME NEW r PROVE r \in causedByIndex(reason) <=> <<r, reason>> \in causalEdges
    <2>1. r \in causedByIndex(reason) <=> \E edge \in causalEdges : edge[2] = reason /\ edge[1] = r
      BY DEF causedByIndex
    <2>2. \A edge \in causalEdges : edge = <<edge[1], edge[2]>>
      BY EdgesNamed
    <2> QED BY <2>1, <2>2
  <1>2. ASSUME NEW r, <<r, reason>> \in causalEdges PROVE r # ""
    BY <1>2, EdgesNamed
  <1>3. c \in IF causes = {} THEN {""} ELSE causes
    BY DEF knownCause
  <1>4. ASSUME NEW r, <<r, reason>> \in causalEdges PROVE r \in {edge[1] : edge \in causalEdges}
    BY <1>4
  <1>5. CASE causes = {}
    BY <1>1, <1>3, <1>5
  <1>6. CASE causes # {}
    <2>1. c \in causedByIndex(reason) /\ c \in seen
      BY <1>3, <1>6
    <2> QED BY <1>1, <1>2, <1>4, <2>1
  <1> QED BY <1>5, <1>6

\* The events of E in a slice that was rearranged by p are as many as before.
LEMMA RearrangedCount ==
    ASSUME NEW D, IsFiniteSet(D), NEW p \in Bijection(D, D),
           NEW A, A \subseteq D, NEW B, B \subseteq D, \A i \in D : i \in A <=> p[i] \in B
    PROVE  Cardinality(A) = Cardinality(B)
  <1> DEFINE q == [i \in A |-> p[i]]
  <1>1. p \in [D -> D] /\ (\A i, j \in D : p[i] = p[j] => i = j) /\ \A k \in D : \E i \in D : p[i] = k
    BY DEF Bijection, Injection, Surjection, IsInjective
  <1>2. q \in [A -> B]
    BY <1>1
  <1>3. \A i, j \in A : q[i] = q[j] => i = j
    BY <1>1
  <1>4. \A k \in B : \E i \in A : q[i] = k
    BY <1>1
  <1>5. q \in Bijection(A, B)
    BY <1>2, <1>3, <1>4 DEF Bijection, Injection, Surjection, IsInjective
  <1>6. ExistsBijection(A, B)
    BY <1>5 DEF ExistsBijection
  <1>7. IsFiniteSet(A)
    BY FS_Subset
  <1> QED BY <1>6, <1>7, FS_Bijection

\* sort.Slice rearranges a slice and puts it in the order of time.
LEMMA OrderingsSort ==
    ASSUME NEW S, \A e \in S : e.LastSeen \in Nat, NEW s \in Seq(S), NEW t \in orderings(s)
    PROVE  /\ t \in Seq(S) /\ Len(t) = Len(s) /\ DOMAIN t = DOMAIN s /\ InOrder(t)
           /\ \E p \in Bijection(DOMAIN s, DOMAIN s) : \A i \in DOMAIN s : t[i] = s[p[i]]
  <1> DEFINE D == DOMAIN s
  <1>1. Len(s) \in Nat /\ D = 1 .. Len(s) /\ \A i \in D : s[i] \in S
    OBVIOUS
  <1>2. PICK p \in [D -> D] :
          /\ IsInjective(p) /\ t = [i \in D |-> s[p[i]]]
          /\ \A i, j \in D : i < j =>
               \/ s[p[i]].LastSeen < s[p[j]].LastSeen
               \/ /\ s[p[i]].LastSeen = s[p[j]].LastSeen
                  /\ Len(s) > StableLimit \/ p[i] < p[j]
    BY DEF orderings
  <1> HIDE DEF D
  <1>3. p \in Injection(D, D)
    BY <1>2 DEF Injection, IsInjective
  <1>4. IsFiniteSet(D)
    BY <1>1, FS_Interval
  <1>5. p \in Bijection(D, D)
    BY <1>3, <1>4, FS_Injection DEF Bijection
  <1>6. t \in Seq(S) /\ Len(t) = Len(s) /\ DOMAIN t = D
    <2>1. t \in [1 .. Len(s) -> S]
      BY <1>1, <1>2
    <2> QED BY <1>1, <2>1
  <1>7. InOrder(t)
    <2> SUFFICES ASSUME NEW i \in D, NEW j \in D, i < j PROVE t[i].LastSeen <= t[j].LastSeen
      BY <1>6 DEF InOrder
    <2>1. s[p[i]].LastSeen \in Nat /\ s[p[j]].LastSeen \in Nat
      BY <1>1, <1>2
    <2>2. s[p[i]].LastSeen < s[p[j]].LastSeen \/ s[p[i]].LastSeen = s[p[j]].LastSeen
      BY <1>2
    <2>3. t[i] = s[p[i]] /\ t[j] = s[p[j]]
      BY <1>2
    <2> QED BY <2>1, <2>2, <2>3
  <1>8. \A i \in D : t[i] = s[p[i]]
    BY <1>2
  <1> QED BY <1>5, <1>6, <1>7, <1>8 DEF D

\* A slot is a group and a place in it.
LEMMA SlotsElements ==
    ASSUME NEW gs, NEW G, NEW E
    PROVE  \A x : x \in Slots(gs, G, E) <=> \E g \in G : \E i \in DOMAIN gs[g] :
                                               x = <<g, i>> /\ gs[g][i] \in E
  BY DEF Slots, At

\* Appending an event adds its place to those of E, if it is in E.
LEMMA AppendedPlaces ==
    ASSUME NEW S, NEW s \in Seq(S), NEW e \in S, NEW E
    PROVE  At(Append(s, e), E) = IF e \in E THEN At(s, E) \cup {Len(s) + 1} ELSE At(s, E)
  <1> DEFINE t == Append(s, e)
  <1>1. /\ DOMAIN t = 1 .. Len(s) + 1 /\ DOMAIN s = 1 .. Len(s) /\ Len(s) \in Nat
        /\ \A i \in 1 .. Len(s) : t[i] = s[i]
        /\ t[Len(s) + 1] = e
    OBVIOUS
  <1> HIDE DEF t
  <1>2. \A i : i \in DOMAIN t <=> i \in DOMAIN s \/ i = Len(s) + 1
    BY <1>1
  <1>3. ASSUME NEW i PROVE i \in At(t, E) <=> i \in At(s, E) \/ (i = Len(s) + 1 /\ e \in E)
    BY <1>1, <1>2 DEF At
  <1>4. At(t, E) = IF e \in E THEN At(s, E) \cup {Len(s) + 1} ELSE At(s, E)
    BY <1>3
  <1> QED BY <1>4 DEF t

-----------------------------------------------------------------------------
(***************************************************************************)
(* The invariant: one lemma for each action                                *)
(***************************************************************************)
\* The events of E in a slice are finitely many.
LEMMA AtFinite ==
    ASSUME NEW S, NEW s \in Seq(S), NEW E
    PROVE  IsFiniteSet(At(s, E)) /\ Cardinality(At(s, E)) \in Nat
  <1>1. Len(s) \in Nat /\ DOMAIN s = 1 .. Len(s)
    OBVIOUS
  <1>2. IsFiniteSet(1 .. Len(s))
    BY <1>1, FS_Interval
  <1>3. At(s, E) \subseteq 1 .. Len(s)
    BY <1>1 DEF At
  <1> QED BY <1>2, <1>3, FS_Subset, FS_CardinalityType

LEMMA InitInv == Init => CInv
  <1> SUFFICES ASSUME Init PROVE CInv
    OBVIOUS
  <1>1. PICK m \in 0 .. MaxEvents : evs \in [1 .. m -> Events]
    BY DEF Init, BoundedSeq, SeqOf
  <1>2. evs \in Seq(Events)
    BY <1>1, LimitsAssumption
  <1>3. DOMAIN groups = {}
    BY DEF Init
  <1>4. GroupsOK
    BY <1>3 DEF GroupsOK
  <1> QED BY <1>2, <1>4 DEF Init, CInv, Stages

LEMMA NothingStep == ASSUME CInv, CorrelateNothing PROVE CInv'
  <1>1. /\ pc = "sort" /\ pc' = "done" /\ evs = <<>>
        /\ UNCHANGED <<evs, sorted, next, groups, annotated, all, rootCauses>>
    BY DEF CorrelateNothing
  <1>2. /\ evs' \in Seq(Events) /\ all' = <<>> /\ rootCauses' = <<>> /\ evs' = <<>>
        /\ groups' = [g \in {} |-> <<>>] /\ annotated' = [g \in {} |-> <<>>]
    BY <1>1 DEF CInv
  <1>3. DOMAIN groups' = {} /\ DOMAIN annotated' = {}
    BY <1>2
  <1>4. ASSUME NEW E PROVE At(<<>>, E) = {} /\ Listed(<<>>, E) = {}
    BY DEF At, Listed
  <1>5. ASSUME NEW E PROVE Slots(groups', {}, E) = {}
    BY DEF Slots
  <1>6. IsFiniteSet({}) /\ Cardinality({}) = 0
    BY FS_EmptySet
  <1>7. GroupsOK' /\ AnnotatedOK'
    BY <1>3 DEF GroupsOK, AnnotatedOK
  <1>8. GroupsComplete'
    BY <1>2, <1>3, <1>4, <1>5, <1>6 DEF GroupsComplete
  <1>9. TimelineOK'
    <2>1. all' \in Seq(Correlated) /\ DOMAIN all' = {}
      BY <1>2
    <2>2. \A E \in SUBSET Events :
            /\ IsFiniteSet(Slots(groups', DOMAIN annotated', E))
            /\ Cardinality(Listed(all', E)) + Cardinality(Slots(groups', DOMAIN annotated', E))
                 = Cardinality(At(evs', E))
      <3> TAKE E \in SUBSET Events
      <3>1. Slots(groups', DOMAIN annotated', E) = {} /\ Listed(all', E) = {} /\ At(evs', E) = {}
        BY <1>2, <1>3, <1>4, <1>5
      <3> QED BY <1>6, <3>1
    <2> QED BY <1>3, <2>1, <2>2 DEF TimelineOK
  <1>10. TimelineInOrder'
    BY <1>2 DEF TimelineInOrder
  <1>11. Collected(Len(all))'
    <2>1. rootCauses' \in Seq(Correlated) /\ Len(rootCauses') = 0 /\ DOMAIN rootCauses' = {}
          /\ Len(all') = 0
      BY <1>2
    <2>2. {k \in 1 .. Len(all') : all'[k].IsRootCause} = {}
      BY <2>1
    <2>3. ToSet(rootCauses') = {}
      BY <2>1 DEF ToSet
    <2> QED BY <1>6, <2>1, <2>2, <2>3 DEF Collected
  <1> QED BY <1>1, <1>2, <1>3, <1>7, <1>8, <1>9, <1>10, <1>11 DEF CInv, Stages

LEMMA SortStep == ASSUME CInv, SortInput PROVE CInv'
  <1>1. /\ pc = "sort" /\ pc' = "group" /\ evs # <<>> /\ sorted' \in orderings(evs)
        /\ UNCHANGED <<evs, next, groups, annotated, all, rootCauses>>
    BY DEF SortInput
  <1>2. /\ evs \in Seq(Events) /\ all = <<>> /\ rootCauses = <<>> /\ next = 1 /\ GroupsOK
        /\ groups = [g \in {} |-> <<>>] /\ annotated = [g \in {} |-> <<>>]
    BY <1>1 DEF CInv
  <1>3. /\ sorted' \in Seq(Events) /\ Len(sorted') = Len(evs) /\ DOMAIN sorted' = DOMAIN evs
        /\ InOrder(sorted')
        /\ \E p \in Bijection(DOMAIN evs, DOMAIN evs) : \A i \in DOMAIN evs : sorted'[i] = evs[p[i]]
    <2>1. \A e \in Events : e.LastSeen \in Nat
      BY EventsAssumption
    <2> QED BY <1>1, <1>2, <2>1, OrderingsSort
  <1>4. PICK p \in Bijection(DOMAIN evs, DOMAIN evs) : \A i \in DOMAIN evs : sorted'[i] = evs[p[i]]
    BY <1>3
  <1>5. p \in [DOMAIN evs -> DOMAIN evs]
    BY DEF Bijection, Injection
  <1>6. Len(evs) \in Nat /\ Len(evs) > 0 /\ DOMAIN evs = 1 .. Len(evs)
    BY <1>1, <1>2
  <1>7. \A i \in DOMAIN sorted' : sorted'[i] \in ToSet(evs)
    BY <1>3, <1>4, <1>5 DEF ToSet
  <1>8. DOMAIN groups' = {}
    BY <1>1, <1>2
  <1>9. ASSUME NEW E \in SUBSET Events
        PROVE  /\ IsFiniteSet(Slots(groups', DOMAIN groups', E))
               /\ Cardinality(Slots(groups', DOMAIN groups', E)) + Cardinality(From(sorted', next', E))
                    = Cardinality(At(evs', E))
    <2> DEFINE A == From(sorted', next', E)
               B == At(evs, E)
    <2>1. A \subseteq DOMAIN evs /\ B \subseteq DOMAIN evs
      BY <1>1, <1>2, <1>3, <1>6 DEF At, From
    <2>2. \A i \in DOMAIN evs : i \in A <=> p[i] \in B
      BY <1>1, <1>2, <1>3, <1>4, <1>5, <1>6 DEF At, From
    <2>3. IsFiniteSet(DOMAIN evs)
      BY <1>6, FS_Interval
    <2> HIDE DEF A, B
    <2>4. Cardinality(A) = Cardinality(B)
      BY <2>1, <2>2, <2>3, RearrangedCount
    <2>5. Slots(groups', DOMAIN groups', E) = {}
      BY <1>8 DEF Slots
    <2>6. Cardinality(B) \in Nat
      BY <1>2, AtFinite DEF B
    <2>7. IsFiniteSet(Slots(groups', DOMAIN groups', E)) /\ Cardinality(Slots(groups', DOMAIN groups', E)) = 0
      BY <2>5, FS_EmptySet
    <2>8. 0 + Cardinality(A) = Cardinality(B)
      BY <2>4, <2>6
    <2>9. evs' = evs
      BY <1>1
    <2> QED BY <2>7, <2>8, <2>9, Zenon DEF A, B
  <1>10. Grouping'
    BY <1>1, <1>2, <1>3, <1>6, <1>7, <1>8, <1>9 DEF Grouping
  <1>11. GroupsOK'
    BY <1>8 DEF GroupsOK
  <1> QED BY <1>1, <1>2, <1>10, <1>11 DEF CInv, Stages

\* Appending an event to a group, perhaps a new one, adds one slot.
AddedTo(gs, gid, old, e, hs) ==
    /\ gid \in DOMAIN gs => gs[gid] = old
    /\ gid \notin DOMAIN gs => old = <<>>
    /\ hs = [g \in DOMAIN gs \cup {gid} |-> IF g = gid THEN Append(old, e) ELSE gs[g]]

LEMMA SlotAdded ==
    ASSUME NEW gs, NEW gid, NEW S, NEW old \in Seq(S), NEW e \in S, NEW E,
           NEW hs, AddedTo(gs, gid, old, e, hs), IsFiniteSet(Slots(gs, DOMAIN gs, E))
    PROVE  /\ IsFiniteSet(Slots(hs, DOMAIN hs, E))
           /\ Cardinality(Slots(hs, DOMAIN hs, E))
                = Cardinality(Slots(gs, DOMAIN gs, E)) + IF e \in E THEN 1 ELSE 0
  <1> DEFINE A == Slots(gs, DOMAIN gs, E)
             B == Slots(hs, DOMAIN hs, E)
             x == <<gid, Len(old) + 1>>
  <1>1. Len(old) \in Nat /\ DOMAIN old = 1 .. Len(old)
    OBVIOUS
  <1>2. \A i : i \in At(Append(old, e), E) <=> i \in At(old, E) \/ (i = Len(old) + 1 /\ e \in E)
    BY AppendedPlaces
  <1>3. gid \notin DOMAIN gs => At(old, E) = {}
    BY DEF At, AddedTo
  <1>4. ASSUME NEW y PROVE y \in A <=> \E g \in DOMAIN gs : \E i \in At(gs[g], E) : y = <<g, i>>
    BY DEF Slots
  <1>5. ASSUME NEW y PROVE y \in B <=> \E g \in DOMAIN hs : \E i \in At(hs[g], E) : y = <<g, i>>
    BY DEF Slots
  <1>6. /\ DOMAIN hs = DOMAIN gs \cup {gid} /\ hs[gid] = Append(old, e)
        /\ gid \in DOMAIN gs => gs[gid] = old
        /\ \A g \in DOMAIN gs : g # gid => hs[g] = gs[g]
    BY DEF AddedTo
  <1> HIDE DEF A, B
  <1>7. ASSUME NEW y PROVE y \in B <=> y \in A \/ (y = x /\ e \in E)
    <2>1. ASSUME y \in A PROVE y \in B
      <3>1. PICK g \in DOMAIN gs : \E i \in At(gs[g], E) : y = <<g, i>>
        BY <1>4, <2>1
      <3>2. CASE g = gid
        BY <1>2, <1>5, <1>6, <3>1, <3>2
      <3>3. CASE g # gid
        BY <1>5, <1>6, <3>1, <3>3
      <3> QED BY <3>2, <3>3
    <2>2. ASSUME y = x, e \in E PROVE y \in B
      BY <1>2, <1>5, <1>6, <2>2
    <2>3. ASSUME y \in B PROVE y \in A \/ (y = x /\ e \in E)
      <3>1. PICK g \in DOMAIN hs : \E i \in At(hs[g], E) : y = <<g, i>>
        BY <1>5, <2>3
      <3>2. CASE g = gid
        <4>1. PICK i \in At(Append(old, e), E) : y = <<gid, i>>
          BY <1>6, <3>1, <3>2
        <4>2. CASE i \in At(old, E)
          BY <1>3, <1>4, <1>6, <4>1, <4>2
        <4> QED BY <1>2, <4>1, <4>2
      <3>3. CASE g # gid
        BY <1>4, <1>6, <3>1, <3>3
      <3> QED BY <3>2, <3>3
    <2> QED BY <2>1, <2>2, <2>3
  <1>8. x \notin A
    <2> SUFFICES ASSUME x \in A PROVE FALSE
      OBVIOUS
    <2>1. PICK g \in DOMAIN gs : \E i \in At(gs[g], E) : x = <<g, i>>
      BY <1>4
    <2>2. g = gid /\ Len(old) + 1 \in At(old, E)
      BY <1>6, <2>1
    <2> QED BY <1>1, <2>2 DEF At
  <1> HIDE DEF x
  <1>9. IsFiniteSet(A) /\ Cardinality(A) \in Nat
    BY FS_CardinalityType DEF A
  <1>10. CASE e \in E
    <2>1. B = A \cup {x}
      BY <1>7, <1>10
    <2>2. IsFiniteSet(B) /\ Cardinality(B) = Cardinality(A) + 1
      BY <1>8, <1>9, <2>1, FS_AddElement
    <2> QED BY <1>10, <2>2 DEF A, B
  <1>11. CASE e \notin E
    <2>1. B = A
      BY <1>7, <1>11
    <2>2. Cardinality(A) = Cardinality(A) + 0
      BY <1>9
    <2> QED BY <1>9, <1>11, <2>1, <2>2 DEF A, B
  <1> QED BY <1>10, <1>11

\* Taking the next event out of those still to come leaves one less of E.
LEMMA NextTaken ==
    ASSUME NEW s, Len(s) \in Nat, NEW n \in Nat, n <= Len(s), NEW E
    PROVE  /\ Cardinality(From(s, n + 1, E)) \in Nat
           /\ Cardinality(From(s, n, E)) = Cardinality(From(s, n + 1, E)) + IF s[n] \in E THEN 1 ELSE 0
  <1> DEFINE m == Len(s)
             A == From(s, n + 1, E)
             B == From(s, n, E)
  <1>1. A \subseteq n + 1 .. m /\ n \notin A
    BY DEF From
  <1>2. IsFiniteSet(n + 1 .. m)
    BY FS_Interval
  <1>3. IsFiniteSet(A) /\ Cardinality(A) \in Nat
    BY <1>1, <1>2, FS_Subset, FS_CardinalityType
  <1>4. \A i : i \in n .. m <=> i \in n + 1 .. m \/ i = n
    OBVIOUS
  <1>5. B = IF s[n] \in E THEN A \cup {n} ELSE A
    BY <1>4 DEF From
  <1> HIDE DEF A, B
  <1>6. CASE s[n] \in E
    BY <1>1, <1>3, <1>5, <1>6, FS_AddElement DEF A, B
  <1>7. CASE s[n] \notin E
    <2>1. Cardinality(A) = Cardinality(A) + 0
      BY <1>3
    <2> QED BY <1>3, <1>5, <1>7, <2>1 DEF A, B
  <1> QED BY <1>6, <1>7

LEMMA GroupStep == ASSUME CInv, Group PROVE CInv'
  <1> DEFINE e == sorted[next]
             gid == groupIDFor(e)
             old == eventsOf(gid)
             last == next = Len(sorted)
  <1>1. /\ pc = "group" /\ UNCHANGED <<evs, sorted, annotated, all, rootCauses>>
        /\ groups' = [g \in DOMAIN groups \cup {gid} |->
                        IF g = gid THEN Append(eventsOf(g), e) ELSE groups[g]]
        /\ pc' = IF last THEN "annotate" ELSE pc
        /\ next' = IF last THEN 1 ELSE next + 1
    BY DEF Group
  <1>2. evs \in Seq(Events) /\ GroupsOK /\ Grouping
    BY <1>1 DEF CInv
  <1>3. /\ sorted \in Seq(Events) /\ InOrder(sorted) /\ next \in 1 .. Len(sorted)
        /\ Len(sorted) \in Nat /\ DOMAIN sorted = 1 .. Len(sorted) /\ next \in DOMAIN sorted
    BY <1>2 DEF Grouping
  <1>4. e \in Events /\ e \in ToSet(evs) /\ e.LastSeen \in Nat
    BY <1>2, <1>3, EventsAssumption DEF Grouping
  <1>5. /\ gid \in DOMAIN groups => old = groups[gid]
        /\ gid \notin DOMAIN groups => old = <<>>
        /\ old \in Seq(Events)
    BY <1>2 DEF eventsOf, GroupsOK
  <1>6. groups' = [g \in DOMAIN groups \cup {gid} |-> IF g = gid THEN Append(old, e) ELSE groups[g]]
    BY <1>1
  <1> HIDE DEF e, gid, old, last
  <1>7. /\ DOMAIN groups' = DOMAIN groups \cup {gid} /\ groups'[gid] = Append(old, e)
        /\ \A g \in DOMAIN groups : g # gid => groups'[g] = groups[g]
    BY <1>6
  <1>8. /\ Len(old) \in Nat /\ DOMAIN old = 1 .. Len(old)
        /\ DOMAIN Append(old, e) = 1 .. Len(old) + 1
        /\ \A i \in 1 .. Len(old) : Append(old, e)[i] = old[i]
        /\ Append(old, e)[Len(old) + 1] = e
        /\ Append(old, e) \in Seq(Events) /\ Len(Append(old, e)) = Len(old) + 1
    BY <1>4, <1>5
  <1>9. ASSUME NEW i \in DOMAIN old
        PROVE  /\ old[i] \in Events /\ old[i].LastSeen \in Nat
               /\ groupIDFor(old[i]) = gid /\ old[i] \in ToSet(evs)
               /\ \A k \in next .. Len(sorted) : old[i].LastSeen <= sorted[k].LastSeen
    <2>1. gid \in DOMAIN groups /\ old = groups[gid]
      BY <1>5, <1>8
    <2>2. /\ groupIDFor(old[i]) = gid /\ old[i] \in ToSet(evs)
          /\ \A k \in next .. Len(sorted) : old[i].LastSeen <= sorted[k].LastSeen
      BY <1>2, <2>1 DEF GroupsOK, Grouping
    <2> QED BY <1>5, <2>2, EventsAssumption
  <1>10. GroupsOK'
    <2> SUFFICES ASSUME NEW g \in DOMAIN groups'
                 PROVE  /\ groups'[g] \in Seq(Events) /\ Len(groups'[g]) > 0 /\ InOrder(groups'[g])
                        /\ \A i \in DOMAIN groups'[g] :
                             groupIDFor(groups'[g][i]) = g /\ groups'[g][i] \in ToSet(evs')
      BY DEF GroupsOK
    <2>1. CASE g # gid
      BY <1>1, <1>2, <1>7, <2>1 DEF GroupsOK
    <2>2. CASE g = gid
      <3> DEFINE new == Append(old, e)
      <3>1. InOrder(new)
        <4> SUFFICES ASSUME NEW i \in DOMAIN new, NEW j \in DOMAIN new, i < j
                     PROVE  new[i].LastSeen <= new[j].LastSeen
          BY DEF InOrder
        <4>1. i \in DOMAIN old /\ new[i] = old[i]
          BY <1>8
        <4>2. CASE j \in DOMAIN old
          <5>1. InOrder(old)
            BY <1>2, <1>5, <1>8, <4>1 DEF GroupsOK
          <5> QED BY <1>8, <4>1, <4>2, <5>1 DEF InOrder
        <4>3. CASE j = Len(old) + 1
          <5>1. next \in next .. Len(sorted)
            BY <1>3
          <5> QED BY <1>8, <1>9, <4>1, <4>3, <5>1 DEF e
        <4> QED BY <1>8, <4>2, <4>3
      <3>2. ASSUME NEW i \in DOMAIN new
            PROVE  groupIDFor(new[i]) = gid /\ new[i] \in ToSet(evs)
        <4>1. CASE i \in DOMAIN old
          BY <1>8, <1>9, <4>1
        <4>2. CASE i = Len(old) + 1
          BY <1>4, <1>8, <4>2 DEF gid
        <4> QED BY <1>8, <4>1, <4>2
      <3>3. new \in Seq(Events) /\ Len(new) > 0
        BY <1>8
      <3>4. groups'[g] = new /\ evs' = evs
        BY <1>1, <1>7, <2>2
      <3> QED BY <2>2, <3>1, <3>2, <3>3, <3>4
    <2> QED BY <2>1, <2>2
  <1>11. ASSUME NEW g \in DOMAIN groups', NEW i \in DOMAIN groups'[g], NEW k \in next + 1 .. Len(sorted)
         PROVE  groups'[g][i].LastSeen <= sorted[k].LastSeen
    <2>1. k \in next .. Len(sorted) /\ k \in DOMAIN sorted /\ next < k
      BY <1>3
    <2>2. CASE g # gid
      BY <1>2, <1>7, <2>1, <2>2 DEF Grouping
    <2>3. CASE g = gid /\ i \in DOMAIN old
      BY <1>7, <1>8, <1>9, <2>1, <2>3
    <2>4. CASE g = gid /\ i = Len(old) + 1
      BY <1>3, <1>7, <1>8, <2>1, <2>4 DEF InOrder, e
    <2> QED BY <1>7, <1>8, <2>2, <2>3, <2>4
  <1>12. ASSUME NEW E \in SUBSET Events
         PROVE  /\ IsFiniteSet(Slots(groups', DOMAIN groups', E))
                /\ Cardinality(Slots(groups', DOMAIN groups', E))
                     + Cardinality(From(sorted, next + 1, E))
                     = Cardinality(At(evs, E))
    <2> DEFINE A == Cardinality(Slots(groups, DOMAIN groups, E))
               B == Cardinality(From(sorted, next, E))
               C == Cardinality(From(sorted, next + 1, E))
               one == IF e \in E THEN 1 ELSE 0
    <2>1. IsFiniteSet(Slots(groups, DOMAIN groups, E)) /\ A + B = Cardinality(At(evs, E))
      BY <1>2 DEF Grouping
    <2>2. /\ IsFiniteSet(Slots(groups', DOMAIN groups', E))
          /\ Cardinality(Slots(groups', DOMAIN groups', E)) = A + one
      <3>1. AddedTo(groups, gid, old, e, groups')
        BY <1>5, <1>6 DEF AddedTo
      <3> QED BY <1>4, <1>5, <2>1, <3>1, SlotAdded
    <2>3. C \in Nat /\ B = C + one
      <3>1. next \in Nat /\ next <= Len(sorted)
        BY <1>3
      <3> QED BY <1>3, <3>1, NextTaken DEF e
    <2>4. A \in Nat /\ one \in Nat
      BY <2>1, FS_CardinalityType
    <2> HIDE DEF A, B, C, one
    <2>5. (A + one) + C = A + B
      BY <2>3, <2>4
    <2> QED BY <2>1, <2>2, <2>5 DEF C
  <1>13. CASE last
    <2>1. pc' = "annotate" /\ next' = 1
      BY <1>1, <1>13
    <2>2. GroupsComplete'
      <3> SUFFICES ASSUME NEW E \in SUBSET Events
                   PROVE  /\ IsFiniteSet(Slots(groups', DOMAIN groups', E))
                          /\ Cardinality(Slots(groups', DOMAIN groups', E)) = Cardinality(At(evs', E))
        BY DEF GroupsComplete
      <3>1. From(sorted, next + 1, E) = {}
        BY <1>3, <1>13 DEF last, From
      <3>2. Cardinality(Slots(groups', DOMAIN groups', E)) + 0 = Cardinality(At(evs, E))
        BY <1>12, <3>1, FS_EmptySet
      <3>3. Cardinality(Slots(groups', DOMAIN groups', E)) \in Nat
        BY <1>12, FS_CardinalityType
      <3>4. Cardinality(Slots(groups', DOMAIN groups', E)) = Cardinality(At(evs, E))
        BY <3>2, <3>3
      <3> QED BY <1>1, <1>12, <3>4
    <2>3. AnnotatedOK' /\ evs' # <<>> /\ all' = <<>> /\ rootCauses' = <<>>
      BY <1>1, <1>2 DEF AnnotatedOK, Grouping
    <2> QED BY <1>1, <1>2, <1>10, <2>1, <2>2, <2>3 DEF CInv, Stages
  <1>14. CASE ~ last
    <2>1. pc' = "group" /\ next' = next + 1 /\ next' \in 1 .. Len(sorted)
      BY <1>1, <1>3, <1>14 DEF last
    <2>2. Grouping'
      <3>1. /\ evs' # <<>> /\ annotated' = [g \in {} |-> <<>>] /\ all' = <<>> /\ rootCauses' = <<>>
            /\ \A i \in DOMAIN sorted' : sorted'[i] \in ToSet(evs')
        BY <1>1, <1>2 DEF Grouping
      <3>2. sorted' \in Seq(Events) /\ InOrder(sorted') /\ next' \in 1 .. Len(sorted')
        BY <1>1, <1>3, <2>1
      <3>3. \A g \in DOMAIN groups' : \A i \in DOMAIN groups'[g], k \in next' .. Len(sorted') :
              groups'[g][i].LastSeen <= sorted'[k].LastSeen
        BY <1>1, <1>11, <2>1, ZenonT(30)
      <3>4. \A E \in SUBSET Events :
              /\ IsFiniteSet(Slots(groups', DOMAIN groups', E))
              /\ Cardinality(Slots(groups', DOMAIN groups', E)) + Cardinality(From(sorted', next', E))
                   = Cardinality(At(evs', E))
        BY <1>1, <1>12, <2>1
      <3> QED BY <3>1, <3>2, <3>3, <3>4 DEF Grouping
    <2> QED BY <1>1, <1>2, <1>10, <2>1, <2>2 DEF CInv, Stages
  <1> QED BY <1>13, <1>14

\* An event's annotation is a correlated event.
LEMMA AnnotationTyped ==
    ASSUME NEW gevs \in Seq(Events), NEW i \in DOMAIN gevs, NEW gid, groupIDFor(gevs[i]) = gid,
           NEW c \in knownCause(gevs[i].Reason, seenReasons(gevs, i))
    PROVE  /\ correlated(gevs[i], gid, c) \in Correlated
           /\ Annotation(gevs, correlated(gevs[i], gid, c), gid, i)
  <1>1. gevs[i] \in Events
    OBVIOUS
  <1>2. gid \in {groupIDFor(e) : e \in Events}
    BY <1>1
  <1>3. c \in {""} \cup {edge[1] : edge \in causalEdges}
    BY KnownCauseJustified
  <1>4. (c = "") \in BOOLEAN
    OBVIOUS
  <1>5. correlated(gevs[i], gid, c) \in Correlated
    BY <1>1, <1>2, <1>3, <1>4, Zenon DEF correlated, Correlated
  <1>6. Annotation(gevs, correlated(gevs[i], gid, c), gid, i)
    BY DEF correlated, Annotation
  <1> QED BY <1>5, <1>6

LEMMA AnnotateStep ==
    ASSUME CInv, NEW gid \in DOMAIN groups, annotateGroup(gid)
    PROVE  CInv'
  <1> DEFINE gevs == groups[gid]
             cause(i) == knownCause(gevs[i].Reason, seenReasons(gevs, i))
  <1>1. /\ pc = "annotate" /\ UNCHANGED <<evs, sorted, next, groups, all, rootCauses>>
        /\ gid \notin DOMAIN annotated
        /\ pc' = IF DOMAIN annotated' = DOMAIN groups THEN "flatten" ELSE pc
    BY DEF annotateGroup
  <1>2. PICK c : /\ \A i \in DOMAIN gevs : c[i] \in cause(i)
                 /\ annotated' = [g \in DOMAIN annotated \cup {gid} |->
                       IF g = gid THEN [i \in DOMAIN gevs |-> correlated(gevs[i], gid, c[i])]
                                  ELSE annotated[g]]
    BY DEF annotateGroup
  <1>3. /\ evs \in Seq(Events) /\ GroupsOK /\ GroupsComplete /\ AnnotatedOK
        /\ evs # <<>> /\ next = 1 /\ rootCauses = <<>> /\ all = <<>>
    BY <1>1 DEF CInv
  <1> DEFINE new == [i \in DOMAIN gevs |-> correlated(gevs[i], gid, c[i])]
  <1>4. DOMAIN annotated' = DOMAIN annotated \cup {gid} /\ annotated'[gid] = new
        /\ \A g \in DOMAIN annotated : annotated'[g] = annotated[g]
    BY <1>1, <1>2
  <1>5. /\ gevs \in Seq(Events) /\ Len(gevs) \in Nat /\ DOMAIN gevs = 1 .. Len(gevs)
        /\ \A i \in DOMAIN gevs : groupIDFor(gevs[i]) = gid
    BY <1>3 DEF GroupsOK
  <1>6. \A i \in DOMAIN gevs : c[i] \in knownCause(gevs[i].Reason, seenReasons(gevs, i))
    BY <1>2
  <1> HIDE DEF gevs, cause
  <1>7. \A i \in DOMAIN gevs : new[i] \in Correlated /\ Annotation(gevs, new[i], gid, i)
    BY <1>5, <1>6, AnnotationTyped
  <1>8. new \in Seq(Correlated) /\ Len(new) = Len(gevs)
    <2>1. new \in [1 .. Len(gevs) -> Correlated]
      BY <1>5, <1>7
    <2> QED BY <1>5, <2>1
  <1> HIDE DEF new
  <1>9. AnnotatedOK'
    <2>1. DOMAIN annotated' \subseteq DOMAIN groups'
      BY <1>1, <1>3, <1>4 DEF AnnotatedOK
    <2>2. ASSUME NEW g \in DOMAIN annotated'
          PROVE  /\ annotated'[g] \in Seq(Correlated) /\ Len(annotated'[g]) = Len(groups'[g])
                 /\ \A i \in DOMAIN groups'[g] : Annotation(groups'[g], annotated'[g][i], g, i)
      <3>1. CASE g = gid
        BY <1>1, <1>4, <1>7, <1>8, <3>1 DEF gevs
      <3>2. CASE g \in DOMAIN annotated
        BY <1>1, <1>3, <1>4, <3>2 DEF AnnotatedOK
      <3> QED BY <1>4, <3>1, <3>2
    <2> QED BY <2>1, <2>2 DEF AnnotatedOK
  <1>10. GroupsOK' /\ GroupsComplete'
    BY <1>1, <1>3 DEF GroupsOK, GroupsComplete
  <1>11. CASE DOMAIN annotated' = DOMAIN groups
    <2>1. pc' = "flatten"
      BY <1>1, <1>11
    <2>2. all' = <<>> /\ all' \in Seq(Correlated) /\ DOMAIN all' = {}
      BY <1>1, <1>3
    <2>3. ASSUME NEW E \in SUBSET Events
          PROVE  /\ IsFiniteSet(Slots(groups', DOMAIN annotated', E))
                 /\ Cardinality(Listed(all', E)) + Cardinality(Slots(groups', DOMAIN annotated', E))
                      = Cardinality(At(evs', E))
      <3>1. /\ IsFiniteSet(Slots(groups', DOMAIN annotated', E))
            /\ Cardinality(Slots(groups', DOMAIN annotated', E)) = Cardinality(At(evs', E))
        BY <1>1, <1>3, <1>11 DEF GroupsComplete
      <3>2. Listed(all', E) = {}
        BY <2>2 DEF Listed
      <3>3. Cardinality(Listed(all', E)) = 0
        BY <3>2, FS_EmptySet
      <3>4. Cardinality(Slots(groups', DOMAIN annotated', E)) \in Nat
        BY <3>1, FS_CardinalityType
      <3> QED BY <3>1, <3>3, <3>4
    <2>4. DOMAIN groups' \ DOMAIN annotated' = {}
      BY <1>1, <1>11
    <2>5. TimelineOK'
      BY <2>2, <2>3, <2>4 DEF TimelineOK
    <2> QED BY <1>1, <1>3, <1>9, <1>10, <2>1, <2>5 DEF CInv, Stages
  <1>12. CASE DOMAIN annotated' # DOMAIN groups
    <2>1. pc' = "annotate"
      BY <1>1, <1>12
    <2> QED BY <1>1, <1>3, <1>9, <1>10, <2>1 DEF CInv, Stages
  <1> QED BY <1>11, <1>12

\* The places of E in a slice, moved or paired with a group, are as many.
Moved(n, P) == {n + i : i \in P}

Paired(g, P) == {<<g, i>> : i \in P}

LEMMA MovedPlaces ==
    ASSUME NEW P \in SUBSET Nat, IsFiniteSet(P), NEW n \in Nat, NEW g
    PROVE  /\ IsFiniteSet(Moved(n, P)) /\ Cardinality(Moved(n, P)) = Cardinality(P)
           /\ IsFiniteSet(Paired(g, P)) /\ Cardinality(Paired(g, P)) = Cardinality(P)
  <1> DEFINE A == {n + i : i \in P}
             B == {<<g, i>> : i \in P}
             f == [i \in P |-> n + i]
             h == [i \in P |-> <<g, i>>]
  <1>1. f \in Bijection(P, A)
    <2>1. f \in [P -> A] /\ \A a \in A : \E i \in P : f[i] = a
      OBVIOUS
    <2>2. \A i, j \in P : f[i] = f[j] => i = j
      OBVIOUS
    <2> HIDE DEF f, A
    <2> QED BY <2>1, <2>2 DEF Bijection, Injection, Surjection, IsInjective
  <1>2. h \in Bijection(P, B)
    <2>1. h \in [P -> B] /\ \A b \in B : \E i \in P : h[i] = b
      OBVIOUS
    <2>2. \A i, j \in P : h[i] = h[j] => i = j
      OBVIOUS
    <2> HIDE DEF h, B
    <2> QED BY <2>1, <2>2 DEF Bijection, Injection, Surjection, IsInjective
  <1> HIDE DEF A, B, f, h
  <1>3. ExistsBijection(P, A) /\ ExistsBijection(P, B)
    BY <1>1, <1>2 DEF ExistsBijection
  <1>4. IsFiniteSet(A) /\ Cardinality(A) = Cardinality(P) /\ IsFiniteSet(B) /\ Cardinality(B) = Cardinality(P)
    BY <1>3, FS_Bijection
  <1> QED BY <1>4 DEF A, B, Moved, Paired

\* Two disjoint finite sets have together as many elements as each.
LEMMA DisjointUnion ==
    ASSUME NEW A, NEW B, IsFiniteSet(A), IsFiniteSet(B), A \cap B = {}
    PROVE  /\ IsFiniteSet(A \cup B) /\ Cardinality(A \cup B) = Cardinality(A) + Cardinality(B)
           /\ Cardinality(A) \in Nat /\ Cardinality(B) \in Nat
  <1>1. Cardinality(A) \in Nat /\ Cardinality(B) \in Nat
    BY FS_CardinalityType
  <1>2. IsFiniteSet(A \cup B) /\ Cardinality(A \cup B) = Cardinality(A) + Cardinality(B) - 0
    BY FS_Union, FS_EmptySet
  <1> QED BY <1>1, <1>2

\* Of a timeline only finitely many events are in E.
LEMMA ListedFinite ==
    ASSUME NEW S, NEW ces \in Seq(S), NEW E
    PROVE  IsFiniteSet(Listed(ces, E)) /\ Cardinality(Listed(ces, E)) \in Nat
  <1>1. Len(ces) \in Nat /\ DOMAIN ces = 1 .. Len(ces)
    OBVIOUS
  <1>2. IsFiniteSet(1 .. Len(ces))
    BY <1>1, FS_Interval
  <1>3. Listed(ces, E) \subseteq 1 .. Len(ces)
    BY <1>1 DEF Listed
  <1> QED BY <1>2, <1>3, FS_Subset, FS_CardinalityType

\* The places of a slice that another one is appended to.
Joined(s, t, u) ==
    /\ Len(s) \in Nat /\ Len(t) \in Nat
    /\ DOMAIN s = 1 .. Len(s) /\ DOMAIN t = 1 .. Len(t) /\ DOMAIN u = 1 .. Len(s) + Len(t)
    /\ \A k \in DOMAIN s : k \in DOMAIN u /\ u[k] = s[k]
    /\ \A i \in DOMAIN t : Len(s) + i \in DOMAIN u /\ u[Len(s) + i] = t[i]
    /\ \A k \in DOMAIN u : k \in DOMAIN s \/ \E i \in DOMAIN t : k = Len(s) + i

LEMMA ConcatPlaces ==
    ASSUME NEW S, NEW s \in Seq(S), NEW t \in Seq(S)
    PROVE  Joined(s, t, s \o t) /\ s \o t \in Seq(S)
  <1>1. /\ s \o t \in Seq(S) /\ Len(s) \in Nat /\ Len(t) \in Nat
        /\ DOMAIN s = 1 .. Len(s) /\ DOMAIN t = 1 .. Len(t) /\ DOMAIN (s \o t) = 1 .. Len(s) + Len(t)
    OBVIOUS
  <1>2. ASSUME NEW k \in DOMAIN s PROVE k \in DOMAIN (s \o t) /\ (s \o t)[k] = s[k]
    BY <1>1
  <1>3. ASSUME NEW i \in DOMAIN t PROVE Len(s) + i \in DOMAIN (s \o t) /\ (s \o t)[Len(s) + i] = t[i]
    BY <1>1
  <1>4. ASSUME NEW k \in DOMAIN (s \o t), k \notin DOMAIN s PROVE \E i \in DOMAIN t : k = Len(s) + i
    <2>1. k - Len(s) \in DOMAIN t /\ k = Len(s) + (k - Len(s))
      BY <1>1, <1>4
    <2> QED BY <2>1
  <1> QED BY <1>1, <1>2, <1>3, <1>4 DEF Joined

LEMMA FlattenStep ==
    ASSUME CInv, NEW gid \in DOMAIN groups, Flatten(gid)
    PROVE  CInv'
  <1> DEFINE gevs == groups[gid]
             new == annotated[gid]
             n == Len(all)
  <1>1. /\ pc = "flatten" /\ gid \in DOMAIN annotated /\ all' = all \o new
        /\ UNCHANGED <<evs, sorted, next, groups, rootCauses>>
        /\ annotated' = [g \in DOMAIN annotated \ {gid} |-> annotated[g]]
        /\ pc' = IF DOMAIN annotated' = {} THEN "order" ELSE pc
    BY DEF Flatten, appendGroup
  <1>2. /\ evs \in Seq(Events) /\ GroupsOK /\ GroupsComplete /\ AnnotatedOK /\ TimelineOK
        /\ evs # <<>> /\ next = 1 /\ rootCauses = <<>>
    BY <1>1 DEF CInv
  <1>3. /\ DOMAIN annotated' = DOMAIN annotated \ {gid}
        /\ \A g \in DOMAIN annotated' : annotated'[g] = annotated[g]
    BY <1>1
  <1>4. /\ new \in Seq(Correlated) /\ Len(new) = Len(gevs)
        /\ gevs \in Seq(Events) /\ all \in Seq(Correlated)
        /\ \A i \in DOMAIN gevs : Annotation(gevs, new[i], gid, i)
    BY <1>1, <1>2 DEF GroupsOK, AnnotatedOK, TimelineOK
  <1> HIDE DEF gevs, new
  <1>5. /\ n \in Nat /\ Len(gevs) \in Nat /\ DOMAIN gevs = 1 .. Len(gevs)
        /\ DOMAIN all = 1 .. n /\ DOMAIN new = DOMAIN gevs
        /\ DOMAIN all' = 1 .. n + Len(gevs) /\ all' \in Seq(Correlated)
        /\ \A k \in DOMAIN all : k \in DOMAIN all' /\ all'[k] = all[k]
        /\ \A i \in DOMAIN gevs : n + i \in DOMAIN all' /\ all'[n + i] = new[i]
        /\ \A k \in DOMAIN all' : k \in DOMAIN all \/ \E i \in DOMAIN gevs : k = n + i
    <2>1. Len(gevs) \in Nat /\ DOMAIN gevs = 1 .. Len(gevs)
      BY <1>4
    <2>2. DOMAIN new = DOMAIN gevs
      BY <1>4, <2>1
    <2>3. all' = all \o new
      BY <1>1
    <2>4. Joined(all, new, all') /\ all' \in Seq(Correlated)
      BY <1>4, <2>3, ConcatPlaces
    <2> QED BY <1>4, <2>1, <2>2, <2>4 DEF Joined
  <1> HIDE DEF n
  <1>6. GroupsOK' /\ GroupsComplete'
    BY <1>1, <1>2 DEF GroupsOK, GroupsComplete
  <1>7. AnnotatedOK'
    BY <1>1, <1>2, <1>3 DEF AnnotatedOK
  <1>8. ASSUME NEW k \in DOMAIN all'
        PROVE  \E g \in DOMAIN groups' : \E i \in DOMAIN groups'[g] : Annotation(groups'[g], all'[k], g, i)
    <2>1. CASE k \in DOMAIN all
      BY <1>1, <1>2, <1>5, <2>1 DEF TimelineOK
    <2>2. CASE k \notin DOMAIN all
      <3>1. PICK i \in DOMAIN gevs : k = n + i
        BY <1>5, <2>2
      <3>2. Annotation(gevs, all'[k], gid, i)
        BY <1>4, <1>5, <3>1
      <3> QED BY <1>1, <3>1, <3>2 DEF gevs
    <2> QED BY <2>1, <2>2
  <1>9. ASSUME NEW g \in DOMAIN groups' \ DOMAIN annotated', NEW i \in DOMAIN groups'[g]
        PROVE  \E k \in DOMAIN all' : Annotation(groups'[g], all'[k], g, i)
    <2>1. CASE g = gid
      <3>1. i \in DOMAIN gevs /\ groups'[g] = gevs
        BY <1>1, <2>1 DEF gevs
      <3> QED BY <1>4, <1>5, <2>1, <3>1
    <2>2. CASE g # gid
      <3>1. g \in DOMAIN groups \ DOMAIN annotated /\ groups'[g] = groups[g] /\ i \in DOMAIN groups[g]
        BY <1>1, <1>3, <2>2
      <3>2. PICK k \in DOMAIN all : Annotation(groups[g], all[k], g, i)
        BY <1>2, <3>1 DEF TimelineOK
      <3> QED BY <1>5, <3>1, <3>2
    <2> QED BY <2>1, <2>2
  <1>10. ASSUME NEW E \in SUBSET Events
         PROVE  /\ IsFiniteSet(Slots(groups', DOMAIN annotated', E))
                /\ Cardinality(Listed(all', E)) + Cardinality(Slots(groups', DOMAIN annotated', E))
                     = Cardinality(At(evs', E))
    <2> DEFINE P == At(gevs, E)
               moved == Moved(n, P)
               paired == Paired(gid, P)
               A == Listed(all, E)
               S == Slots(groups, DOMAIN annotated, E)
               T == Slots(groups', DOMAIN annotated', E)
    <2>1. IsFiniteSet(S) /\ Cardinality(A) + Cardinality(S) = Cardinality(At(evs, E))
      BY <1>2 DEF TimelineOK
    <2>2. IsFiniteSet(A) /\ IsFiniteSet(P)
      BY <1>4, ListedFinite, AtFinite
    <2>3. P \in SUBSET Nat /\ \A i \in P : i \in DOMAIN gevs
      BY <1>5 DEF At
    <2>4. Listed(all', E) = A \cup moved
      <3>1. ASSUME NEW k PROVE k \in Listed(all', E) <=> k \in A \/ k \in moved
        <4>1. ASSUME NEW i \in DOMAIN gevs PROVE all'[n + i].event = gevs[i]
          BY <1>4, <1>5 DEF Annotation
        <4>2. k \in A => k \in Listed(all', E)
          BY <1>5 DEF Listed
        <4>3. k \in moved => k \in Listed(all', E)
          BY <1>5, <2>3, <4>1 DEF Listed, At, Moved
        <4>4. ASSUME k \in Listed(all', E) PROVE k \in A \/ k \in moved
          <5>1. k \in DOMAIN all' /\ all'[k].event \in E
            BY <4>4 DEF Listed
          <5>2. CASE k \in DOMAIN all
            BY <1>5, <5>1, <5>2 DEF Listed
          <5>3. CASE k \notin DOMAIN all
            <6>1. PICK i \in DOMAIN gevs : k = n + i
              BY <1>5, <5>1, <5>3
            <6>2. i \in P
              BY <4>1, <5>1, <6>1 DEF At
            <6> QED BY <6>1, <6>2 DEF Moved
          <5> QED BY <5>2, <5>3
        <4> QED BY <4>2, <4>3, <4>4
      <3> QED BY <3>1
    <2>5. A \cap moved = {}
      <3>1. \A k \in A : k \in 1 .. n
        BY <1>5 DEF Listed
      <3>2. \A i \in P : n + i \notin 1 .. n
        BY <1>5, <2>3
      <3> QED BY <3>1, <3>2 DEF Moved
    <2>6. S = T \cup paired
      <3>1. ASSUME NEW x PROVE x \in S <=> \E g \in DOMAIN annotated : \E i \in At(groups[g], E) : x = <<g, i>>
        BY DEF Slots
      <3>2. ASSUME NEW x
            PROVE  x \in T <=> \E g \in DOMAIN annotated \ {gid} : \E i \in At(groups[g], E) : x = <<g, i>>
        BY <1>1, <1>3 DEF Slots
      <3>3. ASSUME NEW x PROVE x \in paired <=> \E i \in At(groups[gid], E) : x = <<gid, i>>
        BY DEF gevs, Paired
      <3> HIDE DEF S, T, paired
      <3> QED BY <1>1, <3>1, <3>2, <3>3
    <2>7. T \cap paired = {}
      <3>1. ASSUME NEW x \in T PROVE x[1] # gid
        BY <1>3 DEF Slots
      <3>2. ASSUME NEW x \in paired PROVE x[1] = gid
        BY DEF Paired
      <3> HIDE DEF T, paired
      <3> QED BY <3>1, <3>2
    <2>8. /\ IsFiniteSet(moved) /\ Cardinality(moved) = Cardinality(P)
          /\ IsFiniteSet(paired) /\ Cardinality(paired) = Cardinality(P)
      <3> HIDE DEF P
      <3> QED BY <1>5, <2>2, <2>3, MovedPlaces
    <2> HIDE DEF P, moved, paired, A, S, T
    <2>9. IsFiniteSet(T)
      BY <2>1, <2>6, FS_Subset
    <2>10. Cardinality(S) = Cardinality(T) + Cardinality(P) /\ Cardinality(T) \in Nat /\ Cardinality(P) \in Nat
      BY <2>6, <2>7, <2>8, <2>9, DisjointUnion
    <2>11. Cardinality(A \cup moved) = Cardinality(A) + Cardinality(P) /\ Cardinality(A) \in Nat
      BY <2>2, <2>5, <2>8, DisjointUnion
    <2>12. Cardinality(A \cup moved) + Cardinality(T) = Cardinality(A) + Cardinality(S)
      BY <2>10, <2>11
    <2>13. Cardinality(Listed(all', E)) + Cardinality(T) = Cardinality(At(evs', E))
      BY <1>1, <2>1, <2>4, <2>12
    <2> QED BY <2>9, <2>13 DEF T
  <1>11. TimelineOK'
    BY <1>5, <1>8, <1>9, <1>10 DEF TimelineOK
  <1>12. CASE DOMAIN annotated' = {}
    <2>1. pc' = "order"
      BY <1>1, <1>12
    <2> QED BY <1>1, <1>2, <1>6, <1>7, <1>11, <1>12, <2>1 DEF CInv, Stages
  <1>13. CASE DOMAIN annotated' # {}
    <2>1. pc' = "flatten"
      BY <1>1, <1>13
    <2> QED BY <1>1, <1>2, <1>6, <1>7, <1>11, <2>1 DEF CInv, Stages
  <1> QED BY <1>12, <1>13

\* A timeline that has taken over all groups has every event of the query.
LEMMA TimelineCounts ==
    ASSUME evs \in Seq(Events), TimelineOK, DOMAIN annotated = {}
    PROVE  /\ \A E \in SUBSET Events : Cardinality(Listed(all, E)) = Cardinality(At(evs, E))
           /\ Len(all) = Len(evs) /\ Len(evs) \in Nat /\ DOMAIN all = 1 .. Len(all)
  <1>1. all \in Seq(Correlated)
    BY DEF TimelineOK
  <1>2. ASSUME NEW E \in SUBSET Events
        PROVE  Cardinality(Listed(all, E)) = Cardinality(At(evs, E))
    <2>1. Slots(groups, DOMAIN annotated, E) = {}
      BY DEF Slots
    <2>2. Cardinality(Slots(groups, DOMAIN annotated, E)) = 0
      BY <2>1, FS_EmptySet
    <2>3. Cardinality(Listed(all, E)) \in Nat
      BY <1>1, ListedFinite
    <2>4. Cardinality(Listed(all, E)) + 0 = Cardinality(At(evs, E))
      BY <2>2 DEF TimelineOK
    <2> QED BY <2>3, <2>4
  <1>3. /\ Len(all) \in Nat /\ DOMAIN all = 1 .. Len(all) /\ \A k \in DOMAIN all : all[k] \in Correlated
        /\ Len(evs) \in Nat /\ DOMAIN evs = 1 .. Len(evs) /\ \A k \in DOMAIN evs : evs[k] \in Events
    BY <1>1
  <1>4. \A k \in DOMAIN all : all[k].event \in Events
    BY <1>3, Zenon DEF Correlated
  <1>5. Listed(all, Events) = 1 .. Len(all) /\ At(evs, Events) = 1 .. Len(evs)
    BY <1>3, <1>4 DEF Listed, At
  <1>6. Cardinality(1 .. Len(all)) = Cardinality(1 .. Len(evs))
    BY <1>2, <1>5
  <1>7. \A m \in Nat : Cardinality(1 .. m) = m
    BY FS_Interval
  <1> QED BY <1>2, <1>3, <1>6, <1>7

LEMMA OrderStep == ASSUME CInv, Order PROVE CInv'
  <1> DEFINE keyed == [i \in DOMAIN all |-> [LastSeen |-> all[i].event.LastSeen, ce |-> all[i]]]
             K == [LastSeen : Nat, ce : Correlated]
             D == DOMAIN all
  <1>1. pc = "order" /\ pc' = "collect" /\ UNCHANGED <<evs, sorted, next, groups, annotated, rootCauses>>
    BY DEF Order
  <1>2. PICK s \in orderings(keyed) : all' = [i \in DOMAIN s |-> s[i].ce]
    BY DEF Order
  <1>3. /\ evs \in Seq(Events) /\ GroupsOK /\ GroupsComplete /\ AnnotatedOK /\ TimelineOK
        /\ evs # <<>> /\ next = 1 /\ rootCauses = <<>> /\ DOMAIN annotated = {}
    BY <1>1 DEF CInv
  <1>4. /\ all \in Seq(Correlated) /\ Len(all) \in Nat /\ D = 1 .. Len(all)
        /\ \A i \in D : all[i] \in Correlated
    BY <1>3 DEF TimelineOK
  <1>5. \A i \in D : all[i].event \in Events /\ all[i].event.LastSeen \in Nat
    BY <1>4, EventsAssumption, Zenon DEF Correlated
  <1>6. /\ DOMAIN keyed = D
        /\ \A i \in D : keyed[i].LastSeen = all[i].event.LastSeen /\ keyed[i].ce = all[i] /\ keyed[i] \in K
    <2> HIDE DEF D
    <2> QED BY <1>4, <1>5 DEF D
  <1>7. keyed \in Seq(K) /\ \A e \in K : e.LastSeen \in Nat
    <2>1. keyed \in [1 .. Len(all) -> K]
      <3> HIDE DEF K
      <3> QED BY <1>4, <1>6
    <2>2. \A e \in K : e.LastSeen \in Nat
      OBVIOUS
    <2> HIDE DEF keyed, K
    <2> QED BY <1>4, <2>1, <2>2
  <1> HIDE DEF keyed, K, D
  <1>8. /\ DOMAIN s = D /\ InOrder(s)
        /\ \E p \in Bijection(D, D) : \A i \in D : s[i] = keyed[p[i]]
    BY <1>6, <1>7, OrderingsSort
  <1>9. PICK p \in Bijection(D, D) : \A i \in D : s[i] = keyed[p[i]]
    BY <1>8
  <1>10. p \in [D -> D] /\ \A k \in D : \E i \in D : p[i] = k
    BY DEF Bijection, Injection, Surjection
  <1>11. DOMAIN all' = D /\ \A i \in D : all'[i] = all[p[i]] /\ s[i].LastSeen = all'[i].event.LastSeen
    BY <1>2, <1>6, <1>8, <1>9, <1>10
  <1>12. all' \in Seq(Correlated) /\ Len(all') = Len(all)
    <2>1. all' \in [1 .. Len(all) -> Correlated]
      BY <1>2, <1>4, <1>8, <1>10, <1>11
    <2> QED BY <1>4, <2>1
  <1>13. TimelineInOrder'
    BY <1>8, <1>11 DEF TimelineInOrder, InOrder
  <1>14. ASSUME NEW E \in SUBSET Events
         PROVE  /\ IsFiniteSet(Slots(groups', DOMAIN annotated', E))
                /\ Cardinality(Listed(all', E)) + Cardinality(Slots(groups', DOMAIN annotated', E))
                     = Cardinality(At(evs', E))
    <2>1. Cardinality(Listed(all', E)) = Cardinality(Listed(all, E))
      <3>1. Listed(all', E) \subseteq D /\ Listed(all, E) \subseteq D
        BY <1>11 DEF Listed, D
      <3>2. \A i \in D : i \in Listed(all', E) <=> p[i] \in Listed(all, E)
        BY <1>10, <1>11 DEF Listed, D
      <3>3. IsFiniteSet(D)
        BY <1>4, FS_Interval
      <3> QED BY <3>1, <3>2, <3>3, RearrangedCount
    <2> QED BY <1>1, <1>3, <2>1 DEF TimelineOK
  <1>15. TimelineOK'
    <2>1. ASSUME NEW k \in DOMAIN all'
          PROVE  \E g \in DOMAIN groups' : \E i \in DOMAIN groups'[g] : Annotation(groups'[g], all'[k], g, i)
      <3>1. p[k] \in DOMAIN all /\ all'[k] = all[p[k]]
        BY <1>10, <1>11 DEF D
      <3> QED BY <1>1, <1>3, <3>1 DEF TimelineOK
    <2>2. ASSUME NEW g \in DOMAIN groups' \ DOMAIN annotated', NEW i \in DOMAIN groups'[g]
          PROVE  \E k \in DOMAIN all' : Annotation(groups'[g], all'[k], g, i)
      <3>1. PICK k \in DOMAIN all : Annotation(groups[g], all[k], g, i)
        BY <1>1, <1>3 DEF TimelineOK
      <3>2. PICK j \in D : p[j] = k
        BY <1>10 DEF D
      <3> QED BY <1>1, <1>11, <3>1, <3>2
    <2> QED BY <1>12, <1>14, <2>1, <2>2 DEF TimelineOK
  <1>16. GroupsOK' /\ GroupsComplete' /\ AnnotatedOK'
    BY <1>1, <1>3 DEF GroupsOK, GroupsComplete, AnnotatedOK
  <1>17. next' = 1 /\ next' \in 1 .. Len(all')
    <2>1. Len(all) = Len(evs)
      BY <1>3, TimelineCounts
    <2>2. Len(evs) \in Nat /\ Len(evs) > 0
      BY <1>3
    <2> QED BY <1>1, <1>3, <1>12, <2>1, <2>2
  <1>18. Collected(next - 1)'
    <2>1. rootCauses' \in Seq(Correlated) /\ Len(rootCauses') = 0 /\ DOMAIN rootCauses' = {}
      BY <1>1, <1>3
    <2>2. {k \in 1 .. next' - 1 : all'[k].IsRootCause} = {}
      BY <1>17
    <2>3. ToSet(rootCauses') = {}
      BY <2>1 DEF ToSet
    <2> QED BY <2>1, <2>2, <2>3, FS_EmptySet DEF Collected
  <1> QED BY <1>1, <1>3, <1>13, <1>15, <1>16, <1>17, <1>18 DEF CInv, Stages

LEMMA CollectStep == ASSUME CInv, CollectRootCause PROVE CInv'
  <1> DEFINE Before(n) == {k \in 1 .. n : all[k].IsRootCause}
             ce == all[next]
  <1>1. /\ pc = "collect" /\ UNCHANGED <<evs, sorted, groups, annotated, all>>
        /\ rootCauses' = IF ce.IsRootCause THEN Append(rootCauses, ce) ELSE rootCauses
        /\ pc' = IF next = Len(all) THEN "done" ELSE pc
        /\ next' = IF next = Len(all) THEN 1 ELSE next + 1
    BY DEF CollectRootCause
  <1>2. /\ evs \in Seq(Events) /\ GroupsOK /\ GroupsComplete /\ AnnotatedOK /\ TimelineOK
        /\ DOMAIN annotated = {} /\ TimelineInOrder /\ next \in 1 .. Len(all) /\ Collected(next - 1)
    BY <1>1 DEF CInv
  <1>3. /\ all \in Seq(Correlated) /\ Len(all) \in Nat /\ DOMAIN all = 1 .. Len(all)
        /\ next \in Nat /\ next > 0 /\ next <= Len(all) /\ ce \in Correlated
    BY <1>2 DEF TimelineOK
  <1>4. /\ rootCauses \in Seq(Correlated)
        /\ ToSet(rootCauses) = {all[k] : k \in Before(next - 1)}
        /\ Len(rootCauses) = Cardinality(Before(next - 1))
    BY <1>2 DEF Collected
  <1>5. \A k : k \in 1 .. next <=> k \in 1 .. next - 1 \/ k = next
    BY <1>3
  <1>6. Before(next) = IF ce.IsRootCause THEN Before(next - 1) \cup {next} ELSE Before(next - 1)
    BY <1>5
  <1>7. IsFiniteSet(Before(next - 1)) /\ next \notin Before(next - 1)
    <2>1. Before(next - 1) \subseteq 1 .. next - 1 /\ next \notin 1 .. next - 1
      BY <1>3
    <2>2. IsFiniteSet(1 .. next - 1)
      BY <1>3, FS_Interval
    <2> HIDE DEF Before
    <2> QED BY <2>1, <2>2, FS_Subset
  <1> HIDE DEF Before, ce
  <1>8. /\ rootCauses' \in Seq(Correlated)
        /\ ToSet(rootCauses') = {all[k] : k \in Before(next)}
        /\ Len(rootCauses') = Cardinality(Before(next))
    <2>1. CASE ce.IsRootCause
      <3>1. rootCauses' = Append(rootCauses, ce) /\ Before(next) = Before(next - 1) \cup {next}
        BY <1>1, <1>6, <2>1
      <3>2. /\ rootCauses' \in Seq(Correlated) /\ Len(rootCauses') = Len(rootCauses) + 1
            /\ DOMAIN rootCauses' = 1 .. Len(rootCauses) + 1 /\ DOMAIN rootCauses = 1 .. Len(rootCauses)
            /\ Len(rootCauses) \in Nat
            /\ \A i \in 1 .. Len(rootCauses) : rootCauses'[i] = rootCauses[i]
            /\ rootCauses'[Len(rootCauses) + 1] = ce
        BY <1>3, <1>4, <3>1
      <3>3. \A i : i \in DOMAIN rootCauses' <=> i \in DOMAIN rootCauses \/ i = Len(rootCauses) + 1
        BY <3>2
      <3>4. ToSet(rootCauses') = ToSet(rootCauses) \cup {ce}
        BY <3>2, <3>3 DEF ToSet
      <3>5. Cardinality(Before(next)) = Cardinality(Before(next - 1)) + 1
        BY <1>7, <3>1, FS_AddElement
      <3> QED BY <1>4, <3>1, <3>2, <3>4, <3>5 DEF ce
    <2>2. CASE ~ ce.IsRootCause
      BY <1>1, <1>4, <1>6, <2>2
    <2> QED BY <2>1, <2>2
  <1>9. GroupsOK' /\ GroupsComplete' /\ AnnotatedOK' /\ TimelineOK' /\ TimelineInOrder'
    BY <1>1, <1>2 DEF GroupsOK, GroupsComplete, AnnotatedOK, TimelineOK, TimelineInOrder
  <1>10. CASE next = Len(all)
    <2>1. pc' = "done"
      BY <1>1, <1>10
    <2>2. Collected(Len(all))'
      BY <1>1, <1>8, <1>10 DEF Collected, Before
    <2> QED BY <1>1, <1>2, <1>9, <2>1, <2>2 DEF CInv, Stages
  <1>11. CASE next # Len(all)
    <2>1. pc' = "collect" /\ next' = next + 1 /\ next' \in 1 .. Len(all')
      <3>1. pc' = "collect" /\ next' = next + 1 /\ all' = all
        BY <1>1, <1>11, Zenon
      <3>2. \A a, b \in Nat : a <= b /\ a # b => a + 1 \in 1 .. b
        OBVIOUS
      <3>3. next + 1 \in 1 .. Len(all)
        BY <1>3, <1>11, <3>2, Zenon
      <3> QED BY <3>1, <3>3
    <2>2. next' - 1 = next
      BY <1>3, <2>1
    <2>3. Collected(next - 1)'
      <3>1. {k \in 1 .. next' - 1 : all'[k].IsRootCause} = Before(next)
        BY <1>1, <2>2 DEF Before
      <3>2. {all'[k] : k \in Before(next)} = {all[k] : k \in Before(next)}
        BY <1>1
      <3> QED BY <1>8, <3>1, <3>2, Zenon DEF Collected
    <2> QED BY <1>1, <1>2, <1>9, <2>1, <2>3 DEF CInv, Stages
  <1> QED BY <1>10, <1>11

\* The invariant holds throughout a call of Correlate.
THEOREM CorrelateInv == Spec => []CInv
  <1>1. ASSUME CInv, [Next]_vars PROVE CInv'
    <2>1. CASE UNCHANGED vars
      <3>1. CInv' <=> CInv
        BY <2>1 DEF vars, CInv, GroupsOK, Grouping, GroupsComplete, AnnotatedOK, TimelineOK,
                    TimelineInOrder, Collected
      <3> QED BY <1>1, <3>1
    <2> QED BY <1>1, <2>1, NothingStep, SortStep, GroupStep, AnnotateStep, FlattenStep, OrderStep,
               CollectStep DEF Next
  <1> QED BY <1>1, InitInv, PTL DEF Spec

-----------------------------------------------------------------------------
(***************************************************************************)
(* What holds of the result                                                *)
(***************************************************************************)
\* Events of one workload are in one group.
LEMMA SameWorkloadSameGroup ==
    ASSUME NEW e \in Events, NEW f \in Events, SameWorkload(e, f)
    PROVE  groupIDFor(e) = groupIDFor(f)
  <1> DEFINE Ref == [UID : STRING, KindName : STRING]
             top(x) == IF x.OwnerChain # <<>> THEN Last(x.OwnerChain) ELSE x.Object
  <1>1. ASSUME NEW chain \in Seq(Ref), NEW o
        PROVE  Last(<<o>> \o chain) = IF chain # <<>> THEN Last(chain) ELSE o
    <2> HIDE DEF Ref
    <2>1. Len(chain) \in Nat /\ (chain # <<>> => Len(chain) > 0) /\ (chain = <<>> => Len(chain) = 0)
      OBVIOUS
    <2>2. Len(<<o>> \o chain) = Len(chain) + 1 /\ (<<o>> \o chain)[1] = o
          /\ \A i \in 1 .. Len(chain) : (<<o>> \o chain)[i + 1] = chain[i]
      OBVIOUS
    <2>3. CASE chain # <<>>
      <3>1. Len(chain) \in 1 .. Len(chain)
        BY <2>1, <2>3
      <3> QED BY <2>2, <2>3, <3>1 DEF Last
    <2>4. CASE chain = <<>>
      BY <2>1, <2>2, <2>4 DEF Last
    <2> QED BY <2>3, <2>4
  <1>2. e.OwnerChain \in Seq(Ref) /\ f.OwnerChain \in Seq(Ref)
    BY EventsAssumption
  <1> HIDE DEF Ref
  <1>3. Last(<<e.Object>> \o e.OwnerChain) = top(e) /\ Last(<<f.Object>> \o f.OwnerChain) = top(f)
    BY <1>1, <1>2
  <1>4. Last(<<e.Object>> \o e.OwnerChain) = Last(<<f.Object>> \o f.OwnerChain)
    BY DEF SameWorkload, Workload
  <1>5. top(e) = top(f)
    BY <1>3, <1>4
  <1> QED BY <1>5 DEF groupIDFor

\* The parts of the invariant when Correlate has returned.
LEMMA AtTheEnd ==
    ASSUME CInv, pc = "done"
    PROVE  /\ evs \in Seq(Events) /\ GroupsOK /\ GroupsComplete /\ TimelineOK
           /\ DOMAIN annotated = {} /\ TimelineInOrder /\ Collected(Len(all))
  BY DEF CInv

\* Every event of the query is in the group of its ID.
LEMMA InItsGroup ==
    ASSUME evs \in Seq(Events), GroupsOK, GroupsComplete, NEW e \in ToSet(evs)
    PROVE  /\ e \in Events /\ groupIDFor(e) \in DOMAIN groups
           /\ \E i \in DOMAIN groups[groupIDFor(e)] : groups[groupIDFor(e)][i] = e
  <1>1. PICK k \in DOMAIN evs : evs[k] = e
    BY DEF ToSet
  <1>2. e \in Events
    BY <1>1
  <1>3. k \in At(evs, {e})
    BY <1>1 DEF At
  <1>4. /\ IsFiniteSet(Slots(groups, DOMAIN groups, {e}))
        /\ Cardinality(Slots(groups, DOMAIN groups, {e})) = Cardinality(At(evs, {e}))
    BY <1>2 DEF GroupsComplete
  <1>5. Cardinality(At(evs, {e})) # 0
    BY <1>3, AtFinite, FS_EmptySet
  <1>6. Slots(groups, DOMAIN groups, {e}) # {}
    BY <1>4, <1>5, FS_EmptySet
  <1>7. PICK g \in DOMAIN groups : \E i \in DOMAIN groups[g] : groups[g][i] = e
    BY <1>6, SlotsElements
  <1>8. groupIDFor(e) = g
    BY <1>7 DEF GroupsOK
  <1> QED BY <1>2, <1>7, <1>8

\* An event of the timeline is the annotation of an event of its group.
LEMMA Traced ==
    ASSUME GroupsOK, TimelineOK, NEW k \in DOMAIN all
    PROVE  LET g == all[k].GroupID IN
           /\ g \in DOMAIN groups /\ groupIDFor(all[k].event) = g
           /\ all[k].event \in Events /\ all[k].event.LastSeen \in Nat
           /\ \E i \in DOMAIN groups[g] : Annotation(groups[g], all[k], g, i)
  <1>1. PICK g \in DOMAIN groups : \E i \in DOMAIN groups[g] : Annotation(groups[g], all[k], g, i)
    BY DEF TimelineOK
  <1>2. PICK i \in DOMAIN groups[g] : Annotation(groups[g], all[k], g, i)
    BY <1>1
  <1>3. all[k].GroupID = g /\ all[k].event = groups[g][i]
    BY <1>2 DEF Annotation
  <1>4. groupIDFor(groups[g][i]) = g /\ groups[g] \in Seq(Events)
    BY DEF GroupsOK
  <1>5. groups[g][i] \in Events
    BY <1>4
  <1> QED BY <1>2, <1>3, <1>4, <1>5, EventsAssumption

\* The events of a group, and how they precede one another.
LEMMA GroupEvents ==
    ASSUME GroupsOK, NEW g \in DOMAIN groups
    PROVE  /\ Len(groups[g]) \in Nat /\ Len(groups[g]) > 0 /\ DOMAIN groups[g] = 1 .. Len(groups[g])
           /\ \A i \in DOMAIN groups[g] : /\ groups[g][i] \in Events /\ groups[g][i].LastSeen \in Nat
                                          /\ groups[g][i] \in ToSet(evs)
           /\ \A i, j \in DOMAIN groups[g] : i <= j => groups[g][i].LastSeen <= groups[g][j].LastSeen
           /\ \A i, j \in DOMAIN groups[g] : i < j => groups[g][i].LastSeen <= groups[g][j].LastSeen
  <1>1. groups[g] \in Seq(Events) /\ Len(groups[g]) > 0 /\ InOrder(groups[g])
        /\ \A i \in DOMAIN groups[g] : groups[g][i] \in ToSet(evs)
    BY DEF GroupsOK
  <1>2. Len(groups[g]) \in Nat /\ DOMAIN groups[g] = 1 .. Len(groups[g])
        /\ \A i \in DOMAIN groups[g] : groups[g][i] \in Events
    BY <1>1
  <1>3. \A i \in DOMAIN groups[g] : groups[g][i].LastSeen \in Nat
    BY <1>2, EventsAssumption
  <1>4. ASSUME NEW i \in DOMAIN groups[g], NEW j \in DOMAIN groups[g], i <= j
        PROVE  groups[g][i].LastSeen <= groups[g][j].LastSeen
    <2>1. CASE i = j
      BY <1>3, <2>1
    <2>2. CASE i < j
      BY <1>1, <2>2 DEF InOrder
    <2> QED BY <1>2, <1>4, <2>1, <2>2
  <1>5. \A i, j \in DOMAIN groups[g] : i < j => groups[g][i].LastSeen <= groups[g][j].LastSeen
    BY <1>1 DEF InOrder
  <1> QED BY <1>1, <1>2, <1>3, <1>4, <1>5

\* The first event of a group is a root cause of the timeline.
LEMMA FirstIsRoot ==
    ASSUME CInv, pc = "done", NEW g \in DOMAIN groups
    PROVE  \E ce \in ToSet(rootCauses) : ce.event = groups[g][1] /\ ce.GroupID = g /\ ce \in ToSet(all)
  <1>1. GroupsOK /\ TimelineOK /\ DOMAIN annotated = {} /\ Collected(Len(all))
    BY AtTheEnd
  <1>2. 1 \in DOMAIN groups[g]
    BY <1>1, GroupEvents
  <1>3. PICK k \in DOMAIN all : Annotation(groups[g], all[k], g, 1)
    BY <1>1, <1>2 DEF TimelineOK
  <1>4. seenReasons(groups[g], 1) = {}
    BY DEF seenReasons
  <1>5. all[k].CausedBy \in knownCause(groups[g][1].Reason, {})
    BY <1>3, <1>4 DEF Annotation
  <1>6. all[k].CausedBy = ""
    BY <1>5, KnownCauseJustified
  <1>7. all[k].IsRootCause
    BY <1>3, <1>6, Zenon DEF Annotation
  <1>8. k \in 1 .. Len(all)
    BY <1>1 DEF TimelineOK
  <1>9. all[k] \in ToSet(rootCauses)
    BY <1>1, <1>7, <1>8 DEF Collected
  <1>10. all[k].event = groups[g][1] /\ all[k].GroupID = g
    BY <1>3 DEF Annotation
  <1>11. all[k] \in ToSet(all)
    BY DEF ToSet
  <1> QED BY <1>9, <1>10, <1>11

\* Correlate loses no event and invents none, and returns them in the order of
\* time, whatever the order of its maps and of equal times (correlator.go 18-57).
THEOREM TimelineCorrect == Spec => []TimelineComplete
  <1>1. ASSUME CInv PROVE TimelineComplete
    <2> SUFFICES ASSUME pc = "done"
                 PROVE  /\ \A e \in ToSet(evs) :
                             Cardinality({i \in DOMAIN all : all[i].event = e})
                               = Cardinality({i \in DOMAIN evs : evs[i] = e})
                        /\ Len(all) = Len(evs)
                        /\ TimelineInOrder
      BY DEF TimelineComplete, TimelineInOrder
    <2>1. /\ evs \in Seq(Events) /\ TimelineOK /\ DOMAIN annotated = {} /\ TimelineInOrder
          /\ GroupsOK /\ GroupsComplete
      BY <1>1, AtTheEnd
    <2>2. /\ \A E \in SUBSET Events : Cardinality(Listed(all, E)) = Cardinality(At(evs, E))
          /\ Len(all) = Len(evs)
      BY <2>1, TimelineCounts
    <2>3. ASSUME NEW e \in ToSet(evs)
          PROVE  Cardinality({i \in DOMAIN all : all[i].event = e})
                   = Cardinality({i \in DOMAIN evs : evs[i] = e})
      <3>1. {e} \in SUBSET Events
        BY <2>1, InItsGroup
      <3>2. Listed(all, {e}) = {i \in DOMAIN all : all[i].event = e}
        BY DEF Listed
      <3>3. At(evs, {e}) = {i \in DOMAIN evs : evs[i] = e}
        BY DEF At
      <3> QED BY <2>2, <3>1, <3>2, <3>3
    <2> QED BY <2>1, <2>2, <2>3
  <1> QED BY <1>1, CorrelateInv, PTL

\* The event that caused another one, or might have, in its group.
LEMMA CauseInGroup ==
    ASSUME GroupsOK, NEW g \in DOMAIN groups, NEW i \in DOMAIN groups[g], NEW ce,
           Annotation(groups[g], ce, g, i)
    PROVE  /\ ce.IsRootCause => \A j \in DOMAIN groups[g] :
                j < i => <<groups[g][j].Reason, ce.event.Reason>> \notin causalEdges
           /\ ~ ce.IsRootCause =>
                /\ <<ce.CausedBy, ce.event.Reason>> \in causalEdges /\ ce.CausedBy # ""
                /\ \E j \in DOMAIN groups[g] : j < i /\ groups[g][j].Reason = ce.CausedBy
  <1> DEFINE gevs == groups[g]
             seen == seenReasons(gevs, i)
  <1>1. /\ ce.event = gevs[i] /\ ce.CausedBy \in knownCause(gevs[i].Reason, seen)
        /\ ce.IsRootCause = (ce.CausedBy = "")
    BY DEF Annotation
  <1>2. Len(gevs) \in Nat /\ DOMAIN gevs = 1 .. Len(gevs)
    BY GroupEvents
  <1>3. \A j : j \in 1 .. i - 1 <=> j \in DOMAIN gevs /\ j < i
    BY <1>2
  <1>4. \A r : r \in seen <=> \E j \in DOMAIN gevs : j < i /\ gevs[j].Reason = r
    BY <1>3 DEF seenReasons
  <1> HIDE DEF seen, gevs
  <1>5. /\ ce.CausedBy = "" => \A r \in seen : <<r, ce.event.Reason>> \notin causalEdges
        /\ ce.CausedBy # "" => ce.CausedBy \in seen /\ <<ce.CausedBy, ce.event.Reason>> \in causalEdges
    <2>1. /\ ce.CausedBy = "" => \A r \in seen : <<r, gevs[i].Reason>> \notin causalEdges
          /\ ce.CausedBy # "" => ce.CausedBy \in seen /\ <<ce.CausedBy, gevs[i].Reason>> \in causalEdges
      <3>1. ce.CausedBy \in knownCause(gevs[i].Reason, seen)
        BY <1>1
      <3> QED BY <3>1, KnownCauseJustified, Zenon
    <2> QED BY <1>1, <2>1
  <1>6. ASSUME ce.IsRootCause PROVE ce.CausedBy = ""
    BY <1>1, <1>6, Zenon
  <1>7. ASSUME ~ ce.IsRootCause PROVE ce.CausedBy # ""
    BY <1>1, <1>7, Zenon
  <1> QED BY <1>4, <1>5, <1>6, <1>7 DEF gevs

\* When no two workloads share a group, an event names a cause exactly when a
\* causing event of its workload precedes it (correlator.go 89-105, types.go
\* 15-21); so sharing a group, which the run namesakes shows, is the only way an
\* annotation can be wrong.
THEOREM CausesCorrect == Spec => [](GroupsAreWorkloads => CausesJustified)
  <1>1. ASSUME CInv, GroupsAreWorkloads PROVE CausesJustified
    <2> SUFFICES ASSUME pc = "done", NEW k \in DOMAIN all
                 PROVE  LET ce == all[k]
                            before(f) == SameWorkload(f, ce.event) /\ f.LastSeen <= ce.event.LastSeen
                        IN IF ce.IsRootCause
                           THEN \A f \in ToSet(evs) :
                                  before(f) /\ <<f.Reason, ce.event.Reason>> \in causalEdges
                                    => f.LastSeen = ce.event.LastSeen
                           ELSE /\ <<ce.CausedBy, ce.event.Reason>> \in causalEdges
                                /\ \E f \in ToSet(evs) : before(f) /\ f.Reason = ce.CausedBy
      BY DEF CausesJustified
    <2> DEFINE ce == all[k]
               g == ce.GroupID
    <2>1. /\ evs \in Seq(Events) /\ GroupsOK /\ GroupsComplete /\ TimelineOK /\ DOMAIN annotated = {}
      BY <1>1, AtTheEnd
    <2>2. /\ g \in DOMAIN groups /\ groupIDFor(ce.event) = g
          /\ ce.event \in Events /\ ce.event.LastSeen \in Nat
          /\ \E i \in DOMAIN groups[g] : Annotation(groups[g], ce, g, i)
      BY <2>1, Traced
    <2>3. PICK i \in DOMAIN groups[g] : Annotation(groups[g], ce, g, i)
      BY <2>2
    <2>4. ce.event = groups[g][i]
      BY <2>3 DEF Annotation
    <2> HIDE DEF ce, g
    <2>5. /\ ce.IsRootCause => \A j \in DOMAIN groups[g] :
               j < i => <<groups[g][j].Reason, ce.event.Reason>> \notin causalEdges
          /\ ~ ce.IsRootCause =>
               /\ <<ce.CausedBy, ce.event.Reason>> \in causalEdges
               /\ \E j \in DOMAIN groups[g] : j < i /\ groups[g][j].Reason = ce.CausedBy
      BY <2>1, <2>2, <2>3, CauseInGroup
    <2>6. /\ DOMAIN groups[g] = 1 .. Len(groups[g]) /\ Len(groups[g]) \in Nat
          /\ \A j \in DOMAIN groups[g] : /\ groups[g][j] \in Events /\ groups[g][j].LastSeen \in Nat
                                         /\ groups[g][j] \in ToSet(evs)
          /\ \A j, m \in DOMAIN groups[g] : j <= m => groups[g][j].LastSeen <= groups[g][m].LastSeen
      BY <2>1, <2>2, GroupEvents
    <2>7. ASSUME ce.IsRootCause, NEW f \in ToSet(evs), SameWorkload(f, ce.event),
                 f.LastSeen <= ce.event.LastSeen, <<f.Reason, ce.event.Reason>> \in causalEdges
          PROVE  f.LastSeen = ce.event.LastSeen
      <3>1. f \in Events /\ groupIDFor(f) \in DOMAIN groups
            /\ \E j \in DOMAIN groups[groupIDFor(f)] : groups[groupIDFor(f)][j] = f
        BY <2>1, InItsGroup
      <3>2. groupIDFor(f) = g
        BY <2>2, <2>7, <3>1, SameWorkloadSameGroup
      <3>3. PICK j \in DOMAIN groups[g] : groups[g][j] = f
        BY <3>1, <3>2
      <3>4. ~ (j < i)
        BY <2>5, <2>7, <3>3
      <3>5. i <= j
        BY <2>6, <3>4
      <3>6. ce.event.LastSeen <= f.LastSeen /\ f.LastSeen \in Nat
        BY <2>4, <2>6, <3>3, <3>5
      <3> QED BY <2>2, <2>7, <3>6
    <2>8. ASSUME ~ ce.IsRootCause
          PROVE  \E f \in ToSet(evs) : /\ SameWorkload(f, ce.event) /\ f.LastSeen <= ce.event.LastSeen
                                       /\ f.Reason = ce.CausedBy
      <3>1. PICK j \in DOMAIN groups[g] : j < i /\ groups[g][j].Reason = ce.CausedBy
        BY <2>5, <2>8
      <3>2. j <= i
        BY <2>6, <3>1
      <3>3. groups[g][j] \in ToSet(evs) /\ groups[g][j].LastSeen <= ce.event.LastSeen
        BY <2>4, <2>6, <3>2
      <3>4. PICK m \in DOMAIN all : Annotation(groups[g], all[m], g, j)
        BY <2>1, <2>2 DEF TimelineOK
      <3>5. all[m].event = groups[g][j] /\ all[m].GroupID = g
        BY <3>4 DEF Annotation
      <3>6. SameWorkload(all[m].event, ce.event)
        BY <1>1, <3>5 DEF GroupsAreWorkloads, ce, g
      <3> QED BY <3>1, <3>3, <3>5, <3>6
    <2>9. CASE ce.IsRootCause
      BY <2>7, <2>9, Zenon DEF ce
    <2>10. CASE ~ ce.IsRootCause
      BY <2>5, <2>8, <2>10, Zenon DEF ce
    <2> QED BY <2>9, <2>10
  <1> QED BY <1>1, CorrelateInv, PTL

\* Under the same condition every event can be traced to a root cause of its
\* workload that is not later than it (correlator.go 49-54).
THEOREM RootsCorrect == Spec => [](GroupsAreWorkloads => EveryWorkloadHasRoot)
  <1>1. ASSUME CInv, GroupsAreWorkloads PROVE EveryWorkloadHasRoot
    <2> SUFFICES ASSUME pc = "done", NEW e \in ToSet(evs)
                 PROVE  \E ce \in ToSet(rootCauses) :
                          SameWorkload(ce.event, e) /\ ce.event.LastSeen <= e.LastSeen
      BY DEF EveryWorkloadHasRoot
    <2> DEFINE g == groupIDFor(e)
    <2>1. /\ evs \in Seq(Events) /\ GroupsOK /\ GroupsComplete /\ TimelineOK /\ DOMAIN annotated = {}
      BY <1>1, AtTheEnd
    <2>2. g \in DOMAIN groups /\ \E i \in DOMAIN groups[g] : groups[g][i] = e
      BY <2>1, InItsGroup
    <2>3. PICK i \in DOMAIN groups[g] : groups[g][i] = e
      BY <2>2
    <2> HIDE DEF g
    <2>4. PICK ce \in ToSet(rootCauses) : ce.event = groups[g][1] /\ ce.GroupID = g /\ ce \in ToSet(all)
      BY <1>1, <2>2, FirstIsRoot
    <2>5. PICK k \in DOMAIN all : Annotation(groups[g], all[k], g, i)
      BY <2>1, <2>2 DEF TimelineOK
    <2>6. all[k].event = e /\ all[k].GroupID = g
      BY <2>3, <2>5 DEF Annotation
    <2>7. PICK m \in DOMAIN all : all[m] = ce
      BY <2>4 DEF ToSet
    <2>8. SameWorkload(ce.event, e)
      BY <1>1, <2>4, <2>6, <2>7 DEF GroupsAreWorkloads
    <2>9. groups[g][1].LastSeen <= groups[g][i].LastSeen
      <3>1. /\ 1 \in DOMAIN groups[g] /\ 1 <= i
            /\ \A j, n \in DOMAIN groups[g] : j <= n => groups[g][j].LastSeen <= groups[g][n].LastSeen
        BY <2>1, <2>2, GroupEvents
      <3> QED BY <3>1
    <2> QED BY <2>3, <2>4, <2>8, <2>9
  <1> QED BY <1>1, CorrelateInv, PTL

\* Of two events of the timeline, the one that is not later stands above the
\* other, or they have the same time.
LEMMA AboveOrSameTime ==
    ASSUME TimelineOK, TimelineInOrder, NEW k \in DOMAIN all, NEW m \in DOMAIN all,
           all[m].event.LastSeen <= all[k].event.LastSeen
    PROVE  m < k \/ all[m].event.LastSeen = all[k].event.LastSeen
  <1>1. all \in Seq(Correlated)
    BY DEF TimelineOK
  <1> DEFINE time(n) == all[n].event.LastSeen
  <1>2. \A n \in DOMAIN all : n \in Nat /\ all[n] \in Correlated
    BY <1>1
  <1>3. \A c \in Correlated : c.event \in Events
    BY DEF Correlated
  <1>4. \A n \in DOMAIN all : n \in Nat /\ time(n) \in Nat
    BY <1>2, <1>3, EventsAssumption
  <1>5. k < m => time(k) <= time(m)
    BY DEF TimelineInOrder
  <1>6. k \in Nat /\ m \in Nat /\ time(k) \in Nat /\ time(m) \in Nat
    BY <1>4
  <1>7. time(m) <= time(k) /\ (k = m => time(k) = time(m))
    OBVIOUS
  <1> HIDE DEF time
  <1>8. m < k \/ time(m) = time(k)
    BY <1>5, <1>6, <1>7
  <1> QED
    BY <1>8 DEF time

\* The prompt marks an event as a root cause or names the reason of a line of
\* the same group that stands above it or has the same time (prompt.go 38-83).
THEOREM PromptCorrect == Spec => []PromptGrounded
  <1>1. ASSUME CInv PROVE PromptGrounded
    <2> DEFINE lines == [i \in DOMAIN all |-> [line |-> eventLine(all[i]), marker |-> marker(all[i])]]
    <2> DEFINE grounded(ls) ==
          \A k \in DOMAIN ls : ls[k].marker # "ROOT CAUSE" =>
              \E m \in DOMAIN ls : /\ ls[m].line.Reason = ls[k].marker
                                   /\ ls[m].line.GroupID = ls[k].line.GroupID
                                   /\ m < k \/ ls[m].line.Time = ls[k].line.Time
    <2>0. (pc = "done" /\ all # <<>> => grounded(SummarizeTimeline.timeline)) => PromptGrounded
      BY Zenon DEF PromptGrounded
    <2>00. all # <<>> => SummarizeTimeline.timeline = lines
      BY DEF SummarizeTimeline
    <2> SUFFICES ASSUME pc = "done", all # <<>> PROVE grounded(lines)
      <3> HIDE DEF lines, grounded
      <3> QED BY <2>0, <2>00
    <2> SUFFICES ASSUME NEW k \in DOMAIN all, lines[k].marker # "ROOT CAUSE"
                 PROVE  \E m \in DOMAIN lines :
                          /\ lines[m].line.Reason = lines[k].marker
                          /\ lines[m].line.GroupID = lines[k].line.GroupID
                          /\ m < k \/ lines[m].line.Time = lines[k].line.Time
      <3>1. DOMAIN lines = DOMAIN all
        OBVIOUS
      <3> HIDE DEF lines
      <3> QED BY <3>1, Zenon
    <2> DEFINE ce == all[k]
               g == ce.GroupID
    <2>1. GroupsOK /\ TimelineOK /\ DOMAIN annotated = {} /\ TimelineInOrder
      BY <1>1, AtTheEnd
    <2>2. k \in DOMAIN all /\ lines[k].marker = marker(ce) /\ lines[k].line = eventLine(ce)
      OBVIOUS
    <2>3. g \in DOMAIN groups /\ \E i \in DOMAIN groups[g] : Annotation(groups[g], ce, g, i)
      BY <2>1, <2>2, Traced
    <2>4. PICK i \in DOMAIN groups[g] : Annotation(groups[g], ce, g, i)
      BY <2>3
    <2>5. ce.event = groups[g][i]
      BY <2>4 DEF Annotation
    <2>6. \A m \in DOMAIN all : m \in DOMAIN lines /\ lines[m].line = eventLine(all[m])
      OBVIOUS
    <2> HIDE DEF lines, ce, g
    <2>7. ~ ce.IsRootCause
      BY <2>2 DEF marker
    <2>8. /\ ce.CausedBy # ""
          /\ \E j \in DOMAIN groups[g] : j < i /\ groups[g][j].Reason = ce.CausedBy
      BY <2>1, <2>3, <2>4, <2>7, CauseInGroup
    <2>9. marker(ce) = ce.CausedBy
      BY <2>7, <2>8 DEF marker
    <2>10. PICK j \in DOMAIN groups[g] : j < i /\ groups[g][j].Reason = ce.CausedBy
      BY <2>8
    <2>11. groups[g][j].LastSeen <= groups[g][i].LastSeen
      <3>1. \A a, b \in DOMAIN groups[g] : a < b => groups[g][a].LastSeen <= groups[g][b].LastSeen
        BY <2>1, <2>3, GroupEvents
      <3> QED BY <2>10, <3>1
    <2>12. PICK m \in DOMAIN all : Annotation(groups[g], all[m], g, j)
      BY <2>1, <2>3 DEF TimelineOK
    <2>13. all[m].event = groups[g][j] /\ all[m].GroupID = g
      BY <2>12 DEF Annotation
    <2>14. /\ lines[m].line.Reason = groups[g][j].Reason /\ lines[m].line.GroupID = g
           /\ lines[m].line.Time = groups[g][j].LastSeen
           /\ lines[k].line.GroupID = g /\ lines[k].line.Time = groups[g][i].LastSeen
      <3>1. \A c : /\ eventLine(c).Reason = c.event.Reason /\ eventLine(c).GroupID = c.GroupID
                   /\ eventLine(c).Time = c.event.LastSeen
        BY DEF eventLine
      <3>2. ce.GroupID = g
        BY DEF g
      <3> QED BY <2>2, <2>5, <2>6, <2>13, <3>1, <3>2, Zenon
    <2>15. m \in DOMAIN lines
      BY <2>6
    <2>16. m < k \/ groups[g][j].LastSeen = groups[g][i].LastSeen
      <3>1. all[k].event = groups[g][i]
        BY <2>5 DEF ce
      <3> QED BY <2>1, <2>11, <2>13, <3>1, AboveOrSameTime
    <2> QED BY <2>2, <2>9, <2>10, <2>14, <2>15, <2>16
  <1> QED BY <1>1, CorrelateInv, PTL

\* Event lines keep the place of their events and what is told about them.
LEMMA LinesOf ==
    ASSUME NEW ces
    PROVE  /\ DOMAIN toEventLines(ces) = DOMAIN ces
           /\ \A k \in DOMAIN ces : /\ toEventLines(ces)[k] = eventLine(ces[k])
                                    /\ toEventLines(ces)[k].IsRootCause = ces[k].IsRootCause
                                    /\ toEventLines(ces)[k].Reason = ces[k].event.Reason
                                    /\ toEventLines(ces)[k].Object = ces[k].event.Object.KindName
  BY DEF toEventLines, eventLine

\* A timeline with events has a root cause.
LEMMA SomeRoot ==
    ASSUME CInv, pc = "done", all # <<>>
    PROVE  rootCauses # <<>>
  <1>1. GroupsOK /\ TimelineOK
    BY AtTheEnd
  <1>2. 1 \in DOMAIN all
    BY <1>1 DEF TimelineOK
  <1>3. PICK g \in DOMAIN groups : TRUE
    BY <1>1, <1>2, Traced
  <1>4. PICK ce \in ToSet(rootCauses) : TRUE
    BY <1>3, FirstIsRoot
  <1> QED BY <1>4 DEF ToSet

\* What the concise mode tells is what the full mode counts in its timeline,
\* and the branch "no clear root cause" is never taken (response.go 115-144,
\* 271-299).
THEOREM ModesCorrect == Spec => []ModesAgree
  <1>1. ASSUME CInv, pc = "done"
        PROVE  LET full == Build("incident-summary")
                   told == Build("concise")
                   lines == full.Timeline
               IN /\ told.RootCauses = full.RootCauses /\ told.Summary = full.Summary
                  /\ ToSet(told.RootCauses) = {lines[i] : i \in Roots(lines)}
                  /\ lines = <<>> <=> told.Summary.text = "No events found"
                  /\ lines # <<>> =>
                       /\ told.Summary.events = Len(lines)
                       /\ told.Summary.effects = Cardinality(DOMAIN lines \ Roots(lines))
                       /\ told.Summary.reasons = {lines[i].Reason : i \in Roots(lines)}
                       /\ told.Summary.affected = {lines[i].Object : i \in DOMAIN lines}
    <2> DEFINE full == Build("incident-summary")
               told == Build("concise")
               lines == full.Timeline
               R == {k \in 1 .. Len(all) : all[k].IsRootCause}
    <2>1. /\ lines = toEventLines(all) /\ told.RootCauses = toEventLines(rootCauses)
          /\ full.RootCauses = toEventLines(rootCauses)
          /\ told.Summary = summarise /\ full.Summary = summarise
      BY DEF Build
    <2>2. /\ TimelineOK /\ Collected(Len(all)) /\ all \in Seq(Correlated)
          /\ Len(all) \in Nat /\ DOMAIN all = 1 .. Len(all)
      BY <1>1, AtTheEnd DEF TimelineOK
    <2>3. /\ DOMAIN lines = DOMAIN all
          /\ \A k \in DOMAIN all : /\ lines[k] = eventLine(all[k])
                                   /\ lines[k].IsRootCause = all[k].IsRootCause
                                   /\ lines[k].Reason = all[k].event.Reason
                                   /\ lines[k].Object = all[k].event.Object.KindName
      BY <2>1, LinesOf
    <2>4. lines = <<>> <=> all = <<>>
      <3>1. all = <<>> <=> DOMAIN all = {}
        BY <2>2
      <3>2. lines = <<>> <=> DOMAIN lines = {}
        BY <2>1, SMTT(30) DEF toEventLines
      <3> QED BY <2>3, <3>1, <3>2
    <2> HIDE DEF full, told, lines
    <2>5. Roots(lines) = R
      BY <2>2, <2>3, Zenon DEF Roots, R
    <2>6. rootCauses \in Seq(Correlated) /\ ToSet(rootCauses) = {all[k] : k \in R}
          /\ Len(rootCauses) = Cardinality(R)
      BY <2>2 DEF Collected, R
    <2>7. R \subseteq DOMAIN all
      BY <2>2 DEF R
    <2> HIDE DEF R
    <2>8. ToSet(told.RootCauses) = {lines[i] : i \in Roots(lines)}
      <3>1. ToSet(toEventLines(rootCauses)) = {eventLine(ce) : ce \in ToSet(rootCauses)}
        BY DEF ToSet, toEventLines
      <3>2. {eventLine(ce) : ce \in {all[k] : k \in R}} = {lines[k] : k \in R}
        BY <2>3, <2>7
      <3> QED BY <2>1, <2>5, <2>6, <3>1, <3>2
    <2>9. CASE all = <<>>
      <3>1. summarise.text = "No events found"
        BY <2>9 DEF summarise
      <3>2. lines = <<>> /\ told.Summary = summarise /\ told.Summary = full.Summary
            /\ told.RootCauses = full.RootCauses
        BY <2>1, <2>4, <2>9
      <3> QED BY <2>8, <3>1, <3>2, Zenon DEF full, told, lines
    <2>10. CASE all # <<>>
      <3>1. rootCauses # <<>>
        BY <1>1, <2>10, SomeRoot
      <3>2. summarise = [text |-> "Detected", events |-> Len(all),
                         objects |-> Cardinality(affectedObjects), reasons |-> rootReasons,
                         effects |-> downstream, affected |-> affectedObjects]
        BY <2>10, <3>1 DEF summarise
      <3>3. /\ summarise.text # "No events found" /\ summarise.events = Len(all)
            /\ summarise.reasons = rootReasons /\ summarise.effects = downstream
            /\ summarise.affected = affectedObjects
        BY <3>2
      <3>4. Len(lines) = Len(all)
        BY <2>1, <2>2 DEF toEventLines
      <3>5. downstream = Cardinality(DOMAIN lines \ Roots(lines))
        <4>1. IsFiniteSet(DOMAIN all) /\ Cardinality(DOMAIN all) = Len(all)
          BY <2>2, FS_Interval, SMTT(30)
        <4>2. IsFiniteSet(R) /\ IsFiniteSet(DOMAIN all \ R)
          BY <2>7, <4>1, FS_Subset
        <4>3. R \cap (DOMAIN all \ R) = {} /\ R \cup (DOMAIN all \ R) = DOMAIN all
          BY <2>7
        <4>4. /\ Cardinality(DOMAIN all) = Cardinality(R) + Cardinality(DOMAIN all \ R)
              /\ Cardinality(R) \in Nat /\ Cardinality(DOMAIN all \ R) \in Nat
          BY <4>2, <4>3, DisjointUnion
        <4>5. Len(all) - Len(rootCauses) = Cardinality(DOMAIN all \ R)
          BY <2>6, <4>1, <4>4
        <4> QED BY <2>3, <2>5, <4>5 DEF downstream
      <3>6. rootReasons = {lines[i].Reason : i \in Roots(lines)}
        BY <2>3, <2>5, <2>6, <2>7 DEF rootReasons
      <3>7. affectedObjects = {lines[i].Object : i \in DOMAIN lines}
        BY <2>3 DEF affectedObjects, ToSet
      <3>8. /\ lines # <<>> /\ told.Summary = full.Summary /\ told.RootCauses = full.RootCauses
            /\ told.Summary.text # "No events found" /\ told.Summary.events = Len(lines)
            /\ told.Summary.effects = Cardinality(DOMAIN lines \ Roots(lines))
            /\ told.Summary.reasons = {lines[i].Reason : i \in Roots(lines)}
            /\ told.Summary.affected = {lines[i].Object : i \in DOMAIN lines}
        BY <2>1, <2>4, <2>10, <3>3, <3>4, <3>5, <3>6, <3>7
      <3> QED BY <2>8, <3>8, Zenon DEF full, told, lines
    <2> QED BY <2>9, <2>10
  <1>2. CInv => ModesAgree
    BY <1>1, Zenon DEF ModesAgree
  <1> QED BY <1>2, CorrelateInv, PTL

=============================================================================
