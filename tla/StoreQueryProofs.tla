---------------------------- MODULE StoreQueryProofs ----------------------------
(***************************************************************************)
(* Proofs about the read side of the store, for every filter: the set of   *)
(* events Query and SummarizeNamespace go on to sort, cut and add up is the *)
(* one a scan of all stored events would find.                             *)
(***************************************************************************)
EXTENDS StoreQuery, EventStoreProofs, FiniteSetTheorems, NaturalsInduction, WellFoundedInduction

(***************************************************************************)
(* Folds                                                                   *)
(***************************************************************************)
\* Induction on a set of naturals.
LEMMA Induction ==
    ASSUME NEW P, P \subseteq Nat, 0 \in P, \A n \in P : n + 1 \in P
    PROVE  Nat \subseteq P
<1> DEFINE less == {ss \in Nat \X Nat : ss[1] < ss[2]}
           rest == Nat \ P
<1> SUFFICES ASSUME rest # {} PROVE FALSE
  OBVIOUS
<1>1. IsWellFoundedOn(less, Nat)
  BY NatLessThanWellFounded DEF OpToRel
<1> HIDE DEF less
<1>2. PICK m \in rest : \A y \in rest : ~ (<<y, m>> \in less)
  BY <1>1, WFMin
<1>3. m # 0 /\ m - 1 \in Nat /\ m - 1 \notin P
  BY <1>2
<1>4. <<m - 1, m>> \in less
  BY <1>2, <1>3 DEF less
<1> QED BY <1>2, <1>3, <1>4

\* it folds the subsets of S: it picks an element, folds the others from base and
\* takes one more step.
FoldOn(it, S, T, base, pick, step) ==
    /\ it \in [SUBSET S -> T]
    /\ it[{}] = base
    /\ \A s \in SUBSET S : s # {} => it[s] = step[<<it[s \ {pick[s]}], pick[s]>>]

\* Such a fold exists over every finite set, so a recursive definition of one has
\* a solution.
LEMMA FoldExists ==
    ASSUME NEW S, IsFiniteSet(S), NEW T, NEW base \in T, NEW pick, NEW step,
           \A s \in SUBSET S : s # {} => pick[s] \in s,
           \A t \in T, x \in S : step[<<t, x>>] \in T
    PROVE  \E it : FoldOn(it, S, T, base, pick, step)
<1> DEFINE level(n) == {s \in SUBSET S : Cardinality(s) <= n}
           upTo(n, it) == /\ it \in [level(n) -> T]
                          /\ it[{}] = base
                          /\ \A s \in level(n) : s # {} => it[s] = step[<<it[s \ {pick[s]}], pick[s]>>]
           P == {n \in Nat : \E it : upTo(n, it)}
<1>1. ASSUME NEW s \in SUBSET S
      PROVE  /\ Cardinality(s) \in Nat /\ (Cardinality(s) = 0 <=> s = {})
             /\ s # {} => s \ {pick[s]} \in SUBSET S /\ Cardinality(s \ {pick[s]}) = Cardinality(s) - 1
  <2>1. IsFiniteSet(s)
    BY FS_Subset
  <2> QED BY <2>1, FS_CardinalityType, FS_EmptySet, FS_RemoveElement
<1>2. 0 \in P
  <2> DEFINE it == [s \in level(0) |-> base]
  <2>1. ASSUME NEW s \in level(0) PROVE s = {}
    <3>1. s \in SUBSET S /\ Cardinality(s) <= 0
      OBVIOUS
    <3>2. Cardinality(s) \in Nat /\ (Cardinality(s) = 0 <=> s = {})
      BY <1>1, <3>1
    <3>3. \A c \in Nat : c <= 0 => c = 0
      OBVIOUS
    <3> QED BY <3>1, <3>2, <3>3
  <2>2. {} \in level(0)
    BY FS_EmptySet
  <2>3. upTo(0, it)
    BY <2>1, <2>2
  <2> QED BY <2>3
<1>3. ASSUME NEW n \in P PROVE n + 1 \in P
  <2>1. PICK it : upTo(n, it)
    OBVIOUS
  <2> DEFINE next == [s \in level(n + 1) |->
                        IF s \in level(n) THEN it[s] ELSE step[<<it[s \ {pick[s]}], pick[s]>>]]
  <2>2. n \in Nat /\ n + 1 \in Nat
    OBVIOUS
  <2>3. level(n) \subseteq level(n + 1) /\ {} \in level(n)
    <3>1. ASSUME NEW s \in level(n) PROVE s \in level(n + 1)
      <4>1. s \in SUBSET S /\ Cardinality(s) <= n
        OBVIOUS
      <4>2. Cardinality(s) \in Nat
        BY <1>1, <4>1
      <4>3. \A c \in Nat : c <= n => c <= n + 1
        BY <2>2
      <4> QED BY <4>1, <4>2, <4>3
    <3> QED BY <2>2, <3>1, FS_EmptySet
  <2>4. ASSUME NEW s \in level(n + 1), s # {}
        PROVE  s \ {pick[s]} \in level(n) /\ pick[s] \in S
    BY <1>1, <2>2, <2>4
  <2> HIDE DEF level
  <2>5. next \in [level(n + 1) -> T]
    <3> SUFFICES ASSUME NEW s \in level(n + 1) PROVE next[s] \in T
      OBVIOUS
    <3>1. CASE s \in level(n)
      BY <2>1, <3>1
    <3>2. CASE s \notin level(n)
      <4>1. s # {}
        BY <2>3, <3>2
      <4> QED BY <2>1, <2>4, <3>2, <4>1
    <3> QED BY <3>1, <3>2
  <2>6. next[{}] = base
    BY <2>1, <2>3
  <2>7. ASSUME NEW s \in level(n + 1), s # {}
        PROVE  next[s] = step[<<next[s \ {pick[s]}], pick[s]>>]
    <3>1. s \ {pick[s]} \in level(n) /\ next[s \ {pick[s]}] = it[s \ {pick[s]}]
      BY <2>3, <2>4, <2>7
    <3> QED BY <2>1, <2>7, <3>1
  <2>8. upTo(n + 1, next)
    BY <2>5, <2>6, <2>7
  <2> HIDE DEF upTo, next
  <2> QED BY <2>2, <2>8
<1>4. Cardinality(S) \in P
  <2> HIDE DEF P
  <2>1. P \subseteq Nat
    BY DEF P
  <2> QED BY <1>2, <1>3, <2>1, Induction, FS_CardinalityType
<1>5. PICK it : upTo(Cardinality(S), it)
  BY <1>4
<1>6. level(Cardinality(S)) = SUBSET S
  BY FS_Subset
<1> QED BY <1>5, <1>6 DEF FoldOn

\* A nonempty set of naturals with a bound has a largest element.
LEMMA MaxOfBounded ==
    ASSUME NEW n \in Nat, NEW S, S \subseteq 0 .. n, S # {}
    PROVE  Max(S) \in S /\ \A y \in S : Max(S) >= y
<1> DEFINE above == {k \in Nat : \E y \in S : n - k = y}
           less == {ss \in Nat \X Nat : ss[1] < ss[2]}
<1>1. IsWellFoundedOn(less, Nat)
  BY NatLessThanWellFounded DEF OpToRel
<1>2. above \subseteq Nat /\ above # {}
  <2>1. PICK y \in S : TRUE
    OBVIOUS
  <2>2. n - y \in Nat /\ n - (n - y) = y
    OBVIOUS
  <2> QED BY <2>2
<1> HIDE DEF less
<1>3. PICK k \in above : \A j \in above : ~ (<<j, k>> \in less)
  <2> HIDE DEF above
  <2> QED BY <1>1, <1>2, WFMin
<1>4. n - k \in S /\ k \in Nat
  OBVIOUS
<1>5. \A y \in S : n - k >= y
  <2> SUFFICES ASSUME NEW y \in S PROVE n - k >= y
    OBVIOUS
  <2>1. n - y \in Nat /\ n - (n - y) = y /\ y \in Nat
    OBVIOUS
  <2>2. n - y \in above
    BY <2>1
  <2>3. ~ (n - y < k)
    BY <1>3, <1>4, <2>1, <2>2 DEF less
  <2> QED BY <1>4, <2>1, <2>3
<1>6. \E x \in S : \A y \in S : x >= y
  BY <1>4, <1>5
<1> QED BY <1>6, Zenon DEF Max

-----------------------------------------------------------------------------
(***************************************************************************)
(* What a query selects                                                    *)
(***************************************************************************)
\* An exact index answers a lookup with the events that have the value.
LEMMA LookupExact ==
    ASSUME NEW field, NEW v, v # ""
    PROVE  lookup(IndexOf(field), v) = {i \in DOMAIN field : field[i] = v}
<1> DEFINE S == {i \in DOMAIN field : field[i] = v}
           values == {field[i] : i \in DOMAIN field} \ {""}
<1>1. IndexOf(field) = [w \in values |-> {i \in DOMAIN field : field[i] = w}]
  BY DEF IndexOf
<1>2. DOMAIN IndexOf(field) = values
  BY <1>1
<1>3. CASE v \in values
  BY <1>1, <1>2, <1>3 DEF lookup
<1>4. CASE v \notin values
  <2>1. S = {}
    BY <1>4
  <2> QED BY <1>2, <1>4, <2>1 DEF lookup
<1> QED BY <1>3, <1>4

\* The set an index returns for each field of the stored events.
LEMMA Lookups ==
    ASSUME IndexesExact, NEW v, v # ""
    PROVE  /\ lookup(byNamespace, v) = {i \in DOMAIN byID : byID[i].Namespace = v}
           /\ lookup(byUID, v) = {i \in DOMAIN byID : byID[i].InvolvedObjectUID = v}
           /\ lookup(byReason, v) = {i \in DOMAIN byID : byID[i].Reason = v}
<1> DEFINE ns == [i \in DOMAIN byID |-> byID[i].Namespace]
           us == [i \in DOMAIN byID |-> byID[i].InvolvedObjectUID]
           rs == [i \in DOMAIN byID |-> byID[i].Reason]
<1>1. byNamespace = IndexOf(ns) /\ byUID = IndexOf(us) /\ byReason = IndexOf(rs)
  BY DEF IndexesExact
<1>2. /\ lookup(IndexOf(ns), v) = {i \in DOMAIN ns : ns[i] = v}
      /\ lookup(IndexOf(us), v) = {i \in DOMAIN us : us[i] = v}
      /\ lookup(IndexOf(rs), v) = {i \in DOMAIN rs : rs[i] = v}
  <2> HIDE DEF ns, us, rs
  <2> QED BY LookupExact
<1>3. /\ {i \in DOMAIN ns : ns[i] = v} = {i \in DOMAIN byID : byID[i].Namespace = v}
      /\ {i \in DOMAIN us : us[i] = v} = {i \in DOMAIN byID : byID[i].InvolvedObjectUID = v}
      /\ {i \in DOMAIN rs : rs[i] = v} = {i \in DOMAIN byID : byID[i].Reason = v}
  OBVIOUS
<1> HIDE DEF ns, us, rs
<1> QED BY <1>1, <1>2, <1>3

\* The fields a filter constrains, read off the event.
Selected(f, e) ==
    /\ f.Namespace # "" => e.Namespace = f.Namespace
    /\ f.ObjectUID # "" => e.InvolvedObjectUID = f.ObjectUID
    /\ f.Reason # "" => e.Reason = f.Reason

\* Intersecting the index sets of the constrained fields, of which there may be
\* none, leaves the events that have all the values asked for.
LEMMA CandidatesSelected ==
    ASSUME IndexesExact, NEW f
    PROVE  candidateIDs(f) = {i \in DOMAIN byID : Selected(f, byID[i])}
<1> DEFINE N == {i \in DOMAIN byID : byID[i].Namespace = f.Namespace}
           U == {i \in DOMAIN byID : byID[i].InvolvedObjectUID = f.ObjectUID}
           R == {i \in DOMAIN byID : byID[i].Reason = f.Reason}
           C == constrained(f)
           E == {i \in DOMAIN byID : Selected(f, byID[i])}
<1>1. C = (IF f.Namespace # "" THEN {N} ELSE {}) \cup (IF f.ObjectUID # "" THEN {U} ELSE {})
          \cup (IF f.Reason # "" THEN {R} ELSE {})
  BY Lookups DEF constrained
<1>2. \A i : i \in E <=> /\ i \in DOMAIN byID
                         /\ f.Namespace # "" => i \in N
                         /\ f.ObjectUID # "" => i \in U
                         /\ f.Reason # "" => i \in R
  BY DEF Selected
<1>3. N \subseteq DOMAIN byID /\ U \subseteq DOMAIN byID /\ R \subseteq DOMAIN byID
  OBVIOUS
<1> HIDE DEF N, U, R, C, E
<1>4. CASE C = {}
  <2>1. f.Namespace = "" /\ f.ObjectUID = "" /\ f.Reason = ""
    BY <1>1, <1>4
  <2>2. E = DOMAIN byID
    BY <1>2, <2>1
  <2> QED BY <1>4, <2>2 DEF candidateIDs, C, E
<1>5. CASE C # {}
  <2>1. \A i : i \in intersect(C) <=> (\E s \in C : i \in s) /\ \A s \in C : i \in s
    BY DEF intersect
  <2>2. ASSUME NEW i PROVE i \in intersect(C) <=> i \in E
    <3>1. ASSUME NEW s \in C
          PROVE  s \subseteq DOMAIN byID
      BY <1>1, <1>3
    <3>2. (\A s \in C : i \in s) <=> /\ f.Namespace # "" => i \in N
                                     /\ f.ObjectUID # "" => i \in U
                                     /\ f.Reason # "" => i \in R
      BY <1>1
    <3> QED BY <1>2, <1>5, <2>1, <3>1, <3>2
  <2>3. intersect(C) = E
    BY <2>2
  <2> QED BY <1>5, <2>3 DEF candidateIDs, C, E
<1> QED BY <1>4, <1>5

\* Query's candidates, after the cut at Since, are what a scan of the store
\* finds (store.go 208-276).
CandidatesExact ==
    \A f \in Filters :
        recent(f, candidateIDs(f)) = {i \in DOMAIN byID : Matches(f, byID[i])}

\* The candidates of any filter.
LEMMA CandidatesFound ==
    ASSUME IInv, NEW f, f.Since \in Nat
    PROVE  recent(f, candidateIDs(f)) = {i \in DOMAIN byID : Matches(f, byID[i])}
<1>1. candidateIDs(f) = {i \in DOMAIN byID : Selected(f, byID[i])}
  BY CandidatesSelected DEF IInv
<1>2. ASSUME NEW i \in DOMAIN byID
      PROVE  Matches(f, byID[i])
               <=> Selected(f, byID[i]) /\ ~(f.Since # 0 /\ byID[i].LastSeen < f.Since)
  <2>1. byID[i].LastSeen \in Nat
    BY DEF IInv, TypeOK, PartialFcn, NormalizedEvent
  <2>2. (f.Since = 0 \/ byID[i].LastSeen >= f.Since)
          <=> ~(f.Since # 0 /\ byID[i].LastSeen < f.Since)
    BY <2>1
  <2>3. Matches(f, byID[i])
          <=> Selected(f, byID[i]) /\ (f.Since = 0 \/ byID[i].LastSeen >= f.Since)
    BY Zenon DEF Matches, Selected
  <2> QED BY <2>2, <2>3
<1> QED BY <1>1, <1>2 DEF recent

\* Through any sequence of insertions, updates and evictions, the indexes lead
\* every query to exactly the stored events that match its filter.
THEOREM CandidatesCorrect == Spec => []CandidatesExact
<1>1. ASSUME IInv PROVE CandidatesExact
  BY <1>1, CandidatesFound, FilterAssumption DEF CandidatesExact
<1> QED BY <1>1, Invariance, PTL

-----------------------------------------------------------------------------
(***************************************************************************)
(* The sort                                                                *)
(***************************************************************************)
Descending(r) ==
    \A i, j \in 1 .. Len(r) : i < j => byID[r[i]].LastSeen >= byID[r[j]].LastSeen

\* r lists the n members of I, each once and newest first.
Arranged(r, I, n) ==
    /\ r \in Seq(I) /\ Len(r) = n
    /\ \A x \in I : \E j \in 1 .. Len(r) : r[j] = x
    /\ \A i, j \in 1 .. Len(r) : r[i] = r[j] => i = j
    /\ Descending(r)

\* Where the elements of r are after id was inserted at p.
InsertedAt(q, S, r, p, id) ==
    /\ q \in Seq(S) /\ Len(q) = Len(r) + 1 /\ q[p] = id
    /\ \A j \in 1 .. p - 1 : q[j] = r[j]
    /\ \A j \in p + 1 .. Len(r) + 1 : q[j] = r[j - 1]

LEMMA Inserted ==
    ASSUME NEW S, NEW r \in Seq(S), NEW id \in S, NEW p \in 1 .. Len(r) + 1
    PROVE  InsertedAt(InsertAt(r, p, id), S, r, p, id)
<1> DEFINE a == SubSeq(r, 1, p - 1)
           b == SubSeq(r, p, Len(r))
<1>1. Len(r) \in Nat /\ p \in Nat /\ p - 1 \in Int /\ \A i \in 1 .. Len(r) : r[i] \in S
  OBVIOUS
<1>2. /\ a \in Seq(S) /\ Len(a) = p - 1
      /\ \A i \in 1 .. p - 1 : a[i] = r[i]
  <2>1. \A i \in 1 .. p - 1 : r[i] \in S
    BY <1>1
  <2> QED BY <1>1, <2>1, SubSeqProperties
<1>3. /\ b \in Seq(S) /\ Len(b) = Len(r) - p + 1
      /\ \A i \in 1 .. Len(r) - p + 1 : b[i] = r[p + i - 1]
  <2>1. \A i \in p .. Len(r) : r[i] \in S
    BY <1>1
  <2> QED BY <1>1, <2>1, SubSeqProperties
<1> HIDE DEF a, b
<1> DEFINE c == a \o <<id>>
           q == c \o b
<1>4. /\ c \in Seq(S) /\ Len(c) = p /\ c[p] = id
      /\ \A j \in 1 .. p - 1 : c[j] = r[j]
  <2>1. <<id>> \in Seq(S) /\ Len(<<id>>) = 1 /\ <<id>>[1] = id
    OBVIOUS
  <2> QED BY <1>1, <1>2, <2>1
<1> HIDE DEF c
<1>5. /\ q \in Seq(S) /\ Len(q) = Len(r) + 1
      /\ \A j \in 1 .. p : q[j] = c[j]
  <2>1. q \in Seq(S) /\ Len(q) = Len(c) + Len(b)
        /\ \A j \in 1 .. Len(c) + Len(b) : q[j] = IF j <= Len(c) THEN c[j] ELSE b[j - Len(c)]
    BY <1>3, <1>4, ConcatProperties
  <2>2. \A j \in 1 .. p : j \in 1 .. Len(c) + Len(b) /\ j <= Len(c)
    BY <1>1, <1>3, <1>4
  <2>3. Len(c) + Len(b) = Len(r) + 1
    BY <1>1, <1>3, <1>4
  <2> QED BY <2>1, <2>2, <2>3, Zenon
<1>6. ASSUME NEW j \in p + 1 .. Len(r) + 1 PROVE q[j] = r[j - 1]
  <2>1. j - p \in 1 .. Len(r) - p + 1 /\ p + (j - p) - 1 = j - 1
    BY <1>1
  <2>2. b[j - p] = r[j - 1]
    BY <1>3, <2>1
  <2>3. q[j] = b[j - p]
    BY <1>1, <1>3, <1>4, <2>1
  <2> QED BY <2>2, <2>3
<1>7. InsertAt(r, p, id) = q
  BY DEF InsertAt, a, b, c
<1> HIDE DEF q
<1> QED BY <1>1, <1>4, <1>5, <1>6, <1>7 DEF InsertedAt

\* One round of the insertion sort keeps what is sorted sorted.
LEMMA InsertKeeps ==
    ASSUME NEW I, NEW n \in Nat, NEW r, Arranged(r, I, n), NEW id, id \notin I,
           \A x \in I \cup {id} : byID[x].LastSeen \in Nat
    PROVE  Arranged(insertByLastSeen(r, id), I \cup {id}, n + 1)
<1> DEFINE J == I \cup {id}
           before == {j \in 1 .. Len(r) : byID[r[j]].LastSeen >= byID[id].LastSeen}
           m == Max({0} \cup before)
           q == InsertAt(r, m + 1, id)
<1>1. r \in Seq(I) /\ r \in Seq(J) /\ Len(r) = n /\ \A j \in 1 .. n : r[j] \in I
  BY DEF Arranged
<1>2. m \in {0} \cup before /\ \A y \in {0} \cup before : m >= y
  <2>1. {0} \cup before \subseteq 0 .. n /\ {0} \cup before # {}
    BY <1>1
  <2> HIDE DEF before
  <2> QED BY <2>1, MaxOfBounded
<1> HIDE DEF m
<1>3. m \in 0 .. n /\ m + 1 \in 1 .. Len(r) + 1 /\ m + 1 - 1 = m
  <2>1. m \in 0 .. n
    BY <1>1, <1>2
  <2> QED BY <1>1, <2>1
<1>4. ASSUME NEW j \in 1 .. m PROVE byID[r[j]].LastSeen >= byID[id].LastSeen
  <2>1. m \in before
    <3> HIDE DEF before
    <3>1. m # 0
      BY <1>3
    <3> QED BY <1>2, <3>1
  <2>2. byID[r[m]].LastSeen >= byID[id].LastSeen
    BY <2>1
  <2> HIDE DEF before
  <2>3. j \in 1 .. n /\ m \in 1 .. n /\ (j = m \/ j < m)
    BY <1>3
  <2>4. j = m \/ byID[r[j]].LastSeen >= byID[r[m]].LastSeen
    BY <1>1, <2>3 DEF Arranged, Descending
  <2>5. byID[r[j]].LastSeen \in Nat /\ byID[r[m]].LastSeen \in Nat /\ byID[id].LastSeen \in Nat
    BY <1>1, <2>3
  <2> QED BY <2>2, <2>4, <2>5
<1>5. ASSUME NEW j \in m + 1 .. n PROVE byID[id].LastSeen >= byID[r[j]].LastSeen
  <2>1. j \in 1 .. Len(r) /\ ~(m >= j)
    BY <1>1, <1>3
  <2>2. j \notin before
    BY <1>2, <2>1
  <2>3. byID[r[j]].LastSeen \in Nat /\ byID[id].LastSeen \in Nat
    BY <1>1, <2>1
  <2> QED BY <2>1, <2>2, <2>3
<1>6. insertByLastSeen(r, id) = q
  BY DEF insertByLastSeen, m
<1> HIDE DEF before, q
<1>7. /\ q \in Seq(J) /\ Len(q) = n + 1 /\ q[m + 1] = id
      /\ \A j \in 1 .. m : q[j] = r[j]
      /\ \A j \in m + 2 .. n + 1 : q[j] = r[j - 1]
  <2>1. id \in J
    OBVIOUS
  <2> HIDE DEF J
  <2>2. InsertedAt(q, J, r, m + 1, id)
    <3>1. r \in Seq(J) /\ m + 1 \in 1 .. Len(r) + 1
      BY <1>1, <1>3
    <3> QED BY <2>1, <3>1, Inserted, Zenon DEF q
  <2>3. (m + 1) - 1 = m /\ m + 1 + 1 = m + 2
    BY <1>3
  <2>4. /\ q \in Seq(J) /\ Len(q) = Len(r) + 1 /\ q[m + 1] = id
        /\ \A j \in 1 .. (m + 1) - 1 : q[j] = r[j]
        /\ \A j \in m + 1 + 1 .. Len(r) + 1 : q[j] = r[j - 1]
    BY <2>2, Zenon DEF InsertedAt
  <2>5. Len(r) = n
    BY <1>1
  <2> QED BY <2>3, <2>4, <2>5, Zenon
<1> HIDE DEF J
<1>8. ASSUME NEW x \in J PROVE \E j \in 1 .. Len(q) : q[j] = x
  <2>1. CASE x = id
    BY <1>3, <1>7, <2>1
  <2>2. CASE x # id
    <3>1. PICK j \in 1 .. n : r[j] = x
      BY <1>1, <2>2 DEF Arranged, J
    <3>2. CASE j <= m
      <4>1. j \in 1 .. m /\ j \in 1 .. n + 1
        BY <1>3, <3>2
      <4> QED BY <1>7, <3>1, <4>1
    <3>3. CASE j > m
      <4>1. j + 1 \in m + 2 .. n + 1 /\ j + 1 \in 1 .. n + 1 /\ j + 1 - 1 = j
        BY <1>3, <3>3
      <4> QED BY <1>7, <3>1, <4>1
    <3> QED BY <1>3, <3>2, <3>3
  <2> QED BY <2>1, <2>2
<1>9. \A i, j \in 1 .. n : r[i] = r[j] => i = j
  BY <1>1 DEF Arranged
<1>10. \A j \in 1 .. n : r[j] # id
  BY <1>1
<1>11. ASSUME NEW i \in 1 .. n + 1, NEW j \in 1 .. n + 1, i < j
       PROVE  q[i] # q[j] /\ byID[q[i]].LastSeen >= byID[q[j]].LastSeen
  <2>1. \A a, b \in 1 .. n : a < b => byID[r[a]].LastSeen >= byID[r[b]].LastSeen
    BY <1>1 DEF Arranged, Descending
  <2>2. CASE j \in 1 .. m
    <3>1. q[j] = r[j] /\ i \in 1 .. m /\ q[i] = r[i] /\ i \in 1 .. n /\ j \in 1 .. n
      BY <1>3, <1>7, <1>11, <2>2
    <3> QED BY <1>9, <1>11, <2>1, <3>1
  <2>3. CASE j = m + 1
    <3>1. q[j] = id /\ i \in 1 .. m /\ q[i] = r[i] /\ i \in 1 .. n
      BY <1>3, <1>7, <1>11, <2>3
    <3> QED BY <1>4, <1>10, <3>1
  <2>4. CASE j \in m + 2 .. n + 1
    <3>1. q[j] = r[j - 1] /\ j - 1 \in m + 1 .. n /\ j - 1 \in 1 .. n
      BY <1>3, <1>7, <2>4
    <3>2. CASE i \in 1 .. m
      <4>1. q[i] = r[i] /\ i \in 1 .. n /\ i < j - 1
        BY <1>3, <1>7, <2>4, <3>2
      <4> QED BY <1>9, <2>1, <3>1, <4>1
    <3>3. CASE i = m + 1
      <4>1. q[i] = id
        BY <1>7, <3>3
      <4> QED BY <1>5, <1>10, <3>1, <4>1
    <3>4. CASE i \in m + 2 .. n + 1
      <4>1. q[i] = r[i - 1] /\ i - 1 \in 1 .. n /\ i - 1 < j - 1 /\ i - 1 # j - 1
        BY <1>3, <1>7, <1>11, <2>4, <3>4
      <4> QED BY <1>9, <2>1, <3>1, <4>1
    <3> QED BY <1>3, <3>2, <3>3, <3>4
  <2> QED BY <1>3, <2>2, <2>3, <2>4
<1>12. ASSUME NEW i \in 1 .. n + 1, NEW j \in 1 .. n + 1, q[i] = q[j] PROVE i = j
  <2>1. ~ (i < j) /\ ~ (j < i)
    BY <1>11, <1>12
  <2> QED BY <2>1
<1>13. Arranged(q, J, n + 1)
  <2>1. Descending(q)
    BY <1>7, <1>11 DEF Descending
  <2> QED BY <1>7, <1>8, <1>12, <2>1 DEF Arranged
<1> QED BY <1>6, <1>13 DEF J

\* The largest of the first k + 1 numbers, and the others.
LEMMA LastOf ==
    ASSUME NEW k \in Nat
    PROVE  /\ 1 .. k + 1 # {} /\ Max(1 .. k + 1) = k + 1
           /\ (1 .. k + 1) \ {k + 1} = 1 .. k
<1>1. k + 1 \in Nat /\ k + 1 \in 1 .. k + 1
  OBVIOUS
<1>2. 1 .. k + 1 \subseteq 0 .. k + 1 /\ 1 .. k + 1 # {}
  BY <1>1
<1>3. Max(1 .. k + 1) \in 1 .. k + 1 /\ \A y \in 1 .. k + 1 : Max(1 .. k + 1) >= y
  BY <1>1, <1>2, MaxOfBounded
<1> DEFINE m == Max(1 .. k + 1)
<1> HIDE DEF m
<1>4. m \in 1 .. k + 1 /\ m >= k + 1
  BY <1>1, <1>3 DEF m
<1>5. m = k + 1 /\ (1 .. k + 1) \ {k + 1} = 1 .. k
  BY <1>4
<1> QED BY <1>2, <1>5 DEF m

\* Whatever the positions folded, the step of the sort yields a sequence of IDs.
LEMMA InsertTyped ==
    ASSUME NEW I, NEW r \in Seq(I), NEW id \in I
    PROVE  insertByLastSeen(r, id) \in Seq(I)
<1> DEFINE before == {j \in 1 .. Len(r) : byID[r[j]].LastSeen >= byID[id].LastSeen}
           m == Max({0} \cup before)
<1>1. Len(r) \in Nat /\ {0} \cup before \subseteq 0 .. Len(r) /\ {0} \cup before # {}
  OBVIOUS
<1>2. insertByLastSeen(r, id) = InsertAt(r, m + 1, id)
  BY DEF insertByLastSeen
<1> HIDE DEF before
<1>3. m \in {0} \cup before
  BY <1>1, MaxOfBounded
<1>4. m \in 0 .. Len(r)
  BY <1>1, <1>3
<1> HIDE DEF m
<1>5. m + 1 \in 1 .. Len(r) + 1
  BY <1>1, <1>4
<1>6. InsertedAt(InsertAt(r, m + 1, id), I, r, m + 1, id)
  BY <1>5, Inserted
<1> QED BY <1>2, <1>6 DEF InsertedAt

\* f folds the IDs at any set of positions.
SortFold(f, ids) ==
    f = [s \in SUBSET DOMAIN ids |->
           IF s = {} THEN <<>> ELSE insertByLastSeen(f[s \ {Max(s)}], ids[Max(s)])]

LEMMA SortFolds ==
    ASSUME NEW n \in Nat, NEW I, NEW ids \in [1 .. n -> I]
    PROVE  \E f : SortFold(f, ids) /\ sortByLastSeenDesc(ids) = f[1 .. n]
<1> DEFINE D == 1 .. n
           T == Seq(I)
           pick == [s \in SUBSET D |-> Max(s)]
           step == [w \in T \X D |-> insertByLastSeen(w[1], ids[w[2]])]
<1>1. ASSUME NEW s \in SUBSET D, s # {} PROVE pick[s] \in s
  <2>1. s \subseteq 0 .. n
    OBVIOUS
  <2> QED BY <1>1, <2>1, MaxOfBounded
<1>2. ASSUME NEW t \in T, NEW x \in D PROVE step[<<t, x>>] \in T /\ step[<<t, x>>] = insertByLastSeen(t, ids[x])
  <2>1. ids[x] \in I /\ <<t, x>> \in T \X D
    OBVIOUS
  <2>2. insertByLastSeen(t, ids[x]) \in T
    BY <2>1, InsertTyped
  <2> QED BY <2>1, <2>2
<1>3. IsFiniteSet(D) /\ <<>> \in T
  BY FS_Interval
<1> HIDE DEF pick, step, T
<1>4. PICK it : FoldOn(it, D, T, <<>>, pick, step)
  BY <1>1, <1>2, <1>3, FoldExists
<1>5. SortFold(it, ids)
  <2>1. /\ it \in [SUBSET D -> T] /\ it[{}] = <<>>
        /\ \A s \in SUBSET D : s # {} => it[s] = step[<<it[s \ {pick[s]}], pick[s]>>]
    BY <1>4 DEF FoldOn
  <2>2. ASSUME NEW s \in SUBSET D, s # {}
        PROVE  it[s] = insertByLastSeen(it[s \ {Max(s)}], ids[Max(s)])
    <3>1. pick[s] = Max(s)
      BY DEF pick
    <3>2. Max(s) \in D /\ it[s \ {Max(s)}] \in T
      BY <1>1, <2>1, <2>2, <3>1
    <3> QED BY <1>2, <2>1, <2>2, <3>1, <3>2
  <2>3. DOMAIN ids = D
    OBVIOUS
  <2> DEFINE g == [s \in SUBSET DOMAIN ids |->
                     IF s = {} THEN <<>> ELSE insertByLastSeen(it[s \ {Max(s)}], ids[Max(s)])]
  <2>4. it = g
    BY <2>1, <2>2, <2>3
  <2> QED BY <2>4 DEF SortFold
<1>6. DEFINE f == CHOOSE f : f = [s \in SUBSET DOMAIN ids |->
                   IF s = {} THEN <<>> ELSE insertByLastSeen(f[s \ {Max(s)}], ids[Max(s)])]
<1>7. SortFold(f, ids)
  BY <1>5, Zenon DEF SortFold
<1>8. sortByLastSeenDesc(ids) = f[DOMAIN ids]
  BY Zenon DEF sortByLastSeenDesc, FoldLeft, MapThenFoldSet
<1>9. DOMAIN ids = 1 .. n
  OBVIOUS
<1> HIDE DEF f
<1> QED BY <1>7, <1>8, <1>9

\* The insertion sort returns what it is given, newest first.
LEMMA SortArranges ==
    ASSUME NEW n \in Nat, NEW I, NEW ids \in [1 .. n -> I],
           \A i, j \in 1 .. n : ids[i] = ids[j] => i = j,
           \A x \in I : \E i \in 1 .. n : ids[i] = x,
           \A x \in I : byID[x].LastSeen \in Nat
    PROVE  Arranged(sortByLastSeenDesc(ids), I, n)
<1>1. PICK f : SortFold(f, ids) /\ sortByLastSeenDesc(ids) = f[1 .. n]
  BY SortFolds
<1> DEFINE first(k) == {ids[i] : i \in 1 .. k}
           P == {k \in Nat : k <= n => Arranged(f[1 .. k], first(k), k)}
<1>2. ASSUME NEW s \in SUBSET (1 .. n)
      PROVE  f[s] = IF s = {} THEN <<>> ELSE insertByLastSeen(f[s \ {Max(s)}], ids[Max(s)])
  <2>1. DOMAIN ids = 1 .. n
    OBVIOUS
  <2> QED BY <1>1, <2>1 DEF SortFold
<1>3. 0 \in P
  <2>1. 1 .. 0 = {} /\ first(0) = {}
    OBVIOUS
  <2>2. f[1 .. 0] = <<>>
    BY <1>2, <2>1
  <2>3. Arranged(<<>>, {}, 0)
    BY DEF Arranged, Descending
  <2> QED BY <2>1, <2>2, <2>3
<1>4. ASSUME NEW k \in P PROVE k + 1 \in P
  <2>1. k \in Nat /\ k + 1 \in Nat
    OBVIOUS
  <2> SUFFICES ASSUME k + 1 <= n PROVE Arranged(f[1 .. k + 1], first(k + 1), k + 1)
    BY <2>1
  <2>2. Arranged(f[1 .. k], first(k), k)
    BY <2>1
  <2>3. 1 .. k + 1 \in SUBSET (1 .. n) /\ k + 1 \in 1 .. n /\ 1 .. k \subseteq 1 .. n
    BY <2>1
  <2>4. f[1 .. k + 1] = insertByLastSeen(f[1 .. k], ids[k + 1])
    <3> DEFINE s == 1 .. k + 1
    <3>1. s # {} /\ Max(s) = k + 1 /\ s \ {k + 1} = 1 .. k /\ s \in SUBSET (1 .. n)
      BY <2>1, <2>3, LastOf
    <3> HIDE DEF s
    <3>2. f[s] = IF s = {} THEN <<>> ELSE insertByLastSeen(f[s \ {Max(s)}], ids[Max(s)])
      BY <1>2, <3>1
    <3>3. f[s] = insertByLastSeen(f[1 .. k], ids[k + 1])
      BY <3>1, <3>2
    <3> QED BY <3>3 DEF s
  <2>5. first(k + 1) = first(k) \cup {ids[k + 1]}
    <3>1. \A i : i \in 1 .. k + 1 <=> i \in 1 .. k \/ i = k + 1
      BY <2>1
    <3> QED BY <3>1
  <2>6. ids[k + 1] \notin first(k)
    <3>1. \A i \in 1 .. k : i \in 1 .. n /\ i # k + 1
      BY <2>1, <2>3
    <3> QED BY <2>3, <3>1
  <2>7. \A x \in first(k) \cup {ids[k + 1]} : byID[x].LastSeen \in Nat
    BY <2>3
  <2> HIDE DEF first
  <2> QED BY <2>1, <2>2, <2>4, <2>5, <2>6, <2>7, InsertKeeps
<1>5. n \in P
  <2>1. P \subseteq Nat
    OBVIOUS
  <2> HIDE DEF P
  <2> QED BY <1>3, <1>4, <2>1, Induction
<1>6. Arranged(f[1 .. n], first(n), n)
  BY <1>5
<1>7. first(n) = I
  OBVIOUS
<1> QED BY <1>1, <1>6, <1>7

-----------------------------------------------------------------------------
(***************************************************************************)
(* Query                                                                   *)
(***************************************************************************)
\* What a scan of the stored events finds.
Scan(f) == {i \in DOMAIN byID : Matches(f, byID[i])}

LEMMA ScanFinite ==
    ASSUME IInv, NEW f
    PROVE  /\ IsFiniteSet(Scan(f)) /\ Cardinality(Scan(f)) \in Nat
           /\ \A i \in Scan(f) : i \in Nat /\ byID[i].LastSeen \in Nat
<1>1. maxSize \in Nat /\ nextID \in Nat /\ DOMAIN byID = oldest .. nextID - 1
  BY MaxSizePositive DEF IInv, RingWindow, TypeOK
<1>2. oldest \in Int /\ nextID - 1 \in Int
  BY <1>1 DEF oldest
<1>3. IsFiniteSet(DOMAIN byID)
  BY <1>1, <1>2, FS_Interval
<1>4. Scan(f) \in SUBSET DOMAIN byID
  BY DEF Scan
<1>5. IsFiniteSet(Scan(f))
  BY <1>3, <1>4, FS_Subset
<1>6. \A i \in DOMAIN byID : i \in Nat /\ byID[i].LastSeen \in Nat
  BY DEF IInv, TypeOK, PartialFcn, NormalizedEvent
<1> QED BY <1>4, <1>5, <1>6, FS_CardinalityType

\* r is an answer to a query with this limit that selects E: no limit, when it
\* is not positive, returns all of E.
Answers(r, limit, E) ==
    /\ r \in Seq(E)
    /\ \A i, j \in 1 .. Len(r) : r[i] = r[j] => i = j
    /\ Descending(r)
    /\ Len(r) = IF limit <= 0 \/ limit > Cardinality(E) THEN Cardinality(E) ELSE limit
    /\ limit <= 0 => \A x \in E : \E j \in 1 .. Len(r) : r[j] = x
    /\ \A x \in E : \/ \E j \in 1 .. Len(r) : r[j] = x
                    \/ \A j \in 1 .. Len(r) : byID[x].LastSeen <= byID[r[j]].LastSeen

\* A cut at the limit keeps the newest.
LEMMA TruncateAnswers ==
    ASSUME NEW f, f.Limit \in Int, NEW E, IsFiniteSet(E), NEW r, Arranged(r, E, Cardinality(E)),
           \A x \in E : byID[x].LastSeen \in Nat
    PROVE  Answers(truncate(f, r), f.Limit, E)
<1> DEFINE n == Cardinality(E)
           limit == f.Limit
<1>1. /\ n \in Nat /\ limit \in Int
      /\ r \in Seq(E) /\ Len(r) = n /\ Descending(r)
      /\ \A x \in E : \E j \in 1 .. Len(r) : r[j] = x
      /\ \A i, j \in 1 .. Len(r) : r[i] = r[j] => i = j
  BY FS_CardinalityType DEF Arranged
<1>2. truncate(f, r) = IF limit > 0 /\ Len(r) > limit THEN SubSeq(r, 1, limit) ELSE r
  BY DEF truncate
<1>3. \A i, j \in 1 .. n : i < j => byID[r[i]].LastSeen >= byID[r[j]].LastSeen
  BY <1>1 DEF Descending
<1> HIDE DEF n, limit
<1>4. CASE limit > 0 /\ n > limit
  <2> DEFINE q == SubSeq(r, 1, limit)
  <2>1. truncate(f, r) = q
    BY <1>1, <1>2, <1>4
  <2>2. \A i \in 1 .. limit : i \in 1 .. n /\ r[i] \in E
    BY <1>1, <1>4
  <2>3. q \in Seq(E) /\ Len(q) = limit /\ \A i \in 1 .. limit : q[i] = r[i]
    <3>1. /\ q \in Seq(E) /\ Len(q) = IF 1 <= limit THEN limit - 1 + 1 ELSE 0
          /\ \A i \in 1 .. limit - 1 + 1 : q[i] = r[1 + i - 1]
      BY <1>1, <2>2, SubSeqProperties
    <3>2. limit - 1 + 1 = limit /\ 1 <= limit /\ \A i \in 1 .. limit : 1 + i - 1 = i
      BY <1>1, <1>4
    <3> HIDE DEF q
    <3> QED BY <3>1, <3>2
  <2> HIDE DEF q
  <2>4. \A i, j \in 1 .. limit : q[i] = q[j] => i = j
    BY <1>1, <2>2, <2>3
  <2>5. Descending(q)
    BY <1>3, <2>2, <2>3 DEF Descending
  <2>6. ASSUME NEW x \in E, ~ \E j \in 1 .. limit : q[j] = x, NEW j \in 1 .. limit
        PROVE  byID[x].LastSeen <= byID[q[j]].LastSeen
    <3>1. PICK i \in 1 .. n : r[i] = x
      BY <1>1
    <3>2. i \notin 1 .. limit
      BY <2>3, <2>6, <3>1
    <3>3. j < i /\ j \in 1 .. n
      BY <1>1, <2>2, <3>2
    <3>4. byID[r[j]].LastSeen >= byID[x].LastSeen /\ q[j] = r[j] /\ r[j] \in E
      BY <1>3, <2>2, <2>3, <3>1, <3>3
    <3>5. byID[x].LastSeen \in Nat /\ byID[r[j]].LastSeen \in Nat
      BY <3>4
    <3> QED BY <3>4, <3>5
  <2>7. ~ (limit <= 0) /\ ~ (limit > n)
    BY <1>1, <1>4
  <2>8. Answers(q, limit, E)
    BY <2>3, <2>4, <2>5, <2>6, <2>7 DEF Answers, n
  <2> QED BY <2>1, <2>8 DEF limit
<1>5. CASE ~ (limit > 0 /\ n > limit)
  <2>1. truncate(f, r) = r
    BY <1>1, <1>2, <1>5
  <2>2. Len(r) = IF limit <= 0 \/ limit > n THEN n ELSE limit
    BY <1>1, <1>5
  <2>3. Answers(r, limit, E)
    BY <1>1, <2>2 DEF Answers, n
  <2> QED BY <2>1, <2>3 DEF limit
<1> QED BY <1>4, <1>5

\* Every result of Query answers its filter, for any filter and any limit.
LEMMA QueryAnswers ==
    ASSUME IInv, NEW f, f.Since \in Nat, f.Limit \in Int, NEW r \in Query(f)
    PROVE  Answers(r, f.Limit, Scan(f))
<1> DEFINE E == Scan(f)
           n == Cardinality(E)
<1>1. recent(f, candidateIDs(f)) = E
  BY CandidatesFound DEF Scan
<1>2. IsFiniteSet(E) /\ n \in Nat /\ \A x \in E : byID[x].LastSeen \in Nat
  BY ScanFinite
<1> HIDE DEF E
<1>3. PICK ids \in SetToSeqs(E) : r = truncate(f, sortByLastSeenDesc(ids))
  BY <1>1 DEF Query
<1>4. ids \in [1 .. n -> E] /\ \A i, j \in 1 .. n : i # j => ids[i] # ids[j]
  BY <1>3 DEF SetToSeqs
<1>5. \A i, j \in 1 .. n : ids[i] = ids[j] => i = j
  BY <1>4
<1>6. \A x \in E : \E i \in 1 .. n : ids[i] = x
  <2>1. ids \in Injection(1 .. n, E)
    BY <1>4, <1>5 DEF Injection, IsInjective
  <2>2. IsFiniteSet(1 .. n) /\ Cardinality(1 .. n) = n
    BY <1>2, FS_Interval
  <2>3. ids \in Surjection(1 .. n, E)
    BY <1>2, <2>1, <2>2, FS_Injection
  <2> QED BY <2>3 DEF Surjection
<1>7. Arranged(sortByLastSeenDesc(ids), E, n)
  BY <1>2, <1>4, <1>5, <1>6, SortArranges
<1>8. Answers(truncate(f, sortByLastSeenDesc(ids)), f.Limit, E)
  BY <1>2, <1>7, TruncateAnswers
<1> QED BY <1>3, <1>8 DEF E

\* What Query returns is what a scan of all stored events would, cut to the
\* newest: through indexes kept by insertions, updates and evictions, whatever
\* the order of the maps (store.go 208-293).
THEOREM QueriesCorrect == Spec => []QueryCorrect
<1>1. ASSUME IInv PROVE QueryCorrect
  <2> SUFFICES ASSUME NEW f \in Filters, NEW r \in Query(f)
               PROVE  LET found    == ToSet(r)
                          expected == {i \in DOMAIN byID : Matches(f, byID[i])}
                      IN /\ found \subseteq expected /\ IsInjective(r)
                         /\ Len(r) = IF f.Limit = 0 \/ f.Limit > Cardinality(expected)
                                     THEN Cardinality(expected) ELSE f.Limit
                         /\ \A i, j \in 1 .. Len(r) : i < j => byID[r[i]].LastSeen >= byID[r[j]].LastSeen
                         /\ \A i \in expected \ found, j \in found : byID[i].LastSeen <= byID[j].LastSeen
    BY DEF QueryCorrect
  <2> DEFINE E == {i \in DOMAIN byID : Matches(f, byID[i])}
  <2>1. f.Since \in Nat /\ f.Limit \in Nat /\ f.Limit \in Int
    BY FilterAssumption
  <2>2. Scan(f) = E
    BY DEF Scan
  <2>3. Answers(r, f.Limit, Scan(f))
    BY <1>1, <2>1, QueryAnswers
  <2> HIDE DEF E
  <2>4. Answers(r, f.Limit, E)
    BY <2>2, <2>3
  <2>5. /\ r \in Seq(E) /\ DOMAIN r = 1 .. Len(r) /\ Len(r) \in Nat
        /\ \A i, j \in 1 .. Len(r) : r[i] = r[j] => i = j
        /\ \A x \in E : \/ \E j \in 1 .. Len(r) : r[j] = x
                        \/ \A j \in 1 .. Len(r) : byID[x].LastSeen <= byID[r[j]].LastSeen
    BY <2>4 DEF Answers
  <2>6. ToSet(r) = {r[j] : j \in 1 .. Len(r)}
    BY <2>5 DEF ToSet
  <2>7. ToSet(r) \subseteq E
    BY <2>5, <2>6
  <2>8. IsInjective(r)
    BY <2>5 DEF IsInjective
  <2>9. Len(r) = IF f.Limit = 0 \/ f.Limit > Cardinality(E) THEN Cardinality(E) ELSE f.Limit
    <3>1. f.Limit <= 0 <=> f.Limit = 0
      BY <2>1
    <3> QED BY <2>4, <3>1 DEF Answers
  <2>10. \A i, j \in 1 .. Len(r) : i < j => byID[r[i]].LastSeen >= byID[r[j]].LastSeen
    BY <2>4 DEF Answers, Descending
  <2>11. \A i \in E \ ToSet(r), j \in ToSet(r) : byID[i].LastSeen <= byID[j].LastSeen
    BY <2>5, <2>6
  <2> QED BY <2>7, <2>8, <2>9, <2>10, <2>11 DEF E
<1> QED BY <1>1, Invariance, PTL

-----------------------------------------------------------------------------
(***************************************************************************)
(* Summaries                                                               *)
(***************************************************************************)
\* tot gives the sum of c over each subset of S, in whatever order it is taken.
Totals(tot, S, c) ==
    /\ tot \in [SUBSET S -> Nat] /\ tot[{}] = 0
    /\ \A s \in SUBSET S : \A x \in s : tot[s] = tot[s \ {x}] + c[x]

\* f is a solution of the recursive definition of SumFunction.
SumFold(f, c) ==
    f = [s \in SUBSET DOMAIN c |->
           IF s = {} THEN 0 ELSE c[CHOOSE x \in s : TRUE] + f[s \ {CHOOSE x \in s : TRUE}]]

LEMMA SumFolds ==
    ASSUME NEW S, IsFiniteSet(S), NEW c \in [S -> Nat]
    PROVE  \E f : f \in [SUBSET S -> Nat] /\ SumFold(f, c) /\ SumFunction(c) = f[S]
<1> DEFINE pick == [s \in SUBSET S |-> CHOOSE x \in s : TRUE]
           step == [w \in Nat \X S |-> c[w[2]] + w[1]]
<1>1. ASSUME NEW s \in SUBSET S, s # {}
      PROVE  pick[s] \in s /\ pick[s] = CHOOSE x \in s : TRUE
  <2>1. \E x \in s : TRUE
    BY <1>1
  <2>2. (CHOOSE x \in s : TRUE) \in s
    BY <2>1, Zenon
  <2> QED BY <2>2
<1>2. ASSUME NEW t \in Nat, NEW x \in S
      PROVE  step[<<t, x>>] = c[x] + t /\ step[<<t, x>>] \in Nat
  <2>1. <<t, x>> \in Nat \X S /\ c[x] \in Nat
    OBVIOUS
  <2>2. step[<<t, x>>] = c[x] + t
    BY <2>1
  <2>3. c[x] + t \in Nat
    BY <2>1
  <2> QED BY <2>2, <2>3
<1> HIDE DEF pick, step
<1>3. PICK it : FoldOn(it, S, Nat, 0, pick, step)
  <2>1. 0 \in Nat
    OBVIOUS
  <2> QED BY <1>1, <1>2, <2>1, FoldExists
<1>4. /\ it \in [SUBSET S -> Nat] /\ it[{}] = 0
      /\ \A s \in SUBSET S : s # {} => it[s] = step[<<it[s \ {pick[s]}], pick[s]>>]
  BY <1>3 DEF FoldOn
<1>5. ASSUME NEW g, SumFold(g, c)
      PROVE  g \in [SUBSET S -> Nat]
  <2> DEFINE P == {n \in Nat : \A s \in SUBSET S : Cardinality(s) = n => g[s] \in Nat}
  <2>1. DOMAIN c = S
    OBVIOUS
  <2>2. \A s \in SUBSET S : g[s] = IF s = {} THEN 0
                                   ELSE c[CHOOSE x \in s : TRUE] + g[s \ {CHOOSE x \in s : TRUE}]
    BY <1>5, <2>1 DEF SumFold
  <2>3. ASSUME NEW s \in SUBSET S
        PROVE  /\ Cardinality(s) \in Nat /\ (Cardinality(s) = 0 <=> s = {})
               /\ \A x \in s : Cardinality(s \ {x}) = Cardinality(s) - 1
    <3>1. IsFiniteSet(s)
      BY FS_Subset
    <3> QED BY <3>1, FS_CardinalityType, FS_EmptySet, FS_RemoveElement
  <2>4. 0 \in P
    BY <2>2, <2>3
  <2>5. ASSUME NEW n \in P PROVE n + 1 \in P
    <3> SUFFICES ASSUME NEW s \in SUBSET S, Cardinality(s) = n + 1 PROVE g[s] \in Nat
      OBVIOUS
    <3>1. s # {}
      BY <2>3
    <3> DEFINE x == CHOOSE y \in s : TRUE
    <3>2. x \in s
      BY <1>1, <3>1
    <3>3. g[s] = c[x] + g[s \ {x}]
      BY <2>2, <3>1
    <3> HIDE DEF x
    <3>4. Cardinality(s \ {x}) = n
      BY <2>3, <3>2
    <3>5. g[s \ {x}] \in Nat /\ c[x] \in Nat
      BY <3>2, <3>4
    <3> QED BY <3>3, <3>5
  <2>6. P \subseteq Nat
    OBVIOUS
  <2>7. ASSUME NEW s \in SUBSET S PROVE g[s] \in Nat
    <3>1. Nat \subseteq P
      <4> HIDE DEF P
      <4> QED BY <2>4, <2>5, <2>6, Induction
    <3> QED BY <2>3, <3>1
  <2>8. DOMAIN g = SUBSET S
    BY <1>5, <2>1 DEF SumFold
  <2>9. g = [s \in SUBSET S |-> g[s]]
    BY <1>5, <2>1 DEF SumFold
  <2> QED BY <2>7, <2>9
<1>6. SumFold(it, c)
  <2>1. ASSUME NEW s \in SUBSET S, s # {}
        PROVE  it[s] = c[CHOOSE x \in s : TRUE] + it[s \ {CHOOSE x \in s : TRUE}]
    <3>1. pick[s] \in S /\ it[s \ {pick[s]}] \in Nat /\ pick[s] = CHOOSE x \in s : TRUE
      BY <1>1, <1>4, <2>1
    <3>2. it[s] = c[pick[s]] + it[s \ {pick[s]}]
      BY <1>2, <1>4, <2>1, <3>1
    <3> QED BY <3>1, <3>2
  <2> DEFINE g == [s \in SUBSET S |->
                     IF s = {} THEN 0 ELSE c[CHOOSE x \in s : TRUE] + it[s \ {CHOOSE x \in s : TRUE}]]
  <2>2. it = g
    BY <1>4, <2>1
  <2>3. DOMAIN c = S
    OBVIOUS
  <2> QED BY <2>2, <2>3 DEF SumFold
<1> DEFINE f == CHOOSE f : f = [s \in SUBSET DOMAIN c |->
                  IF s = {} THEN 0 ELSE c[CHOOSE x \in s : TRUE] + f[s \ {CHOOSE x \in s : TRUE}]]
<1>7. SumFold(f, c)
  BY <1>6, Zenon DEF SumFold
<1>8. SumFunction(c) = f[DOMAIN c]
  BY Zenon DEF SumFunction, SumFunctionOnSet, FoldFunctionOnSet, MapThenFoldSet
<1>9. DOMAIN c = S
  OBVIOUS
<1> HIDE DEF f
<1> QED BY <1>5, <1>7, <1>8, <1>9

\* The sum does not depend on the order in which SumFunction picks.
LEMMA SumTotals ==
    ASSUME NEW S, IsFiniteSet(S), NEW c \in [S -> Nat]
    PROVE  \E tot : Totals(tot, S, c) /\ SumFunction(c) = tot[S]
<1>1. PICK f : f \in [SUBSET S -> Nat] /\ SumFold(f, c) /\ SumFunction(c) = f[S]
  BY SumFolds
<1> DEFINE P == {n \in Nat : \A s \in SUBSET S : Cardinality(s) = n =>
                               \A x \in s : f[s] = f[s \ {x}] + c[x]}
<1>2. \A s \in SUBSET S : f[s] = IF s = {} THEN 0
                                 ELSE c[CHOOSE x \in s : TRUE] + f[s \ {CHOOSE x \in s : TRUE}]
  <2>1. DOMAIN c = S
    OBVIOUS
  <2> QED BY <1>1, <2>1 DEF SumFold
<1>3. ASSUME NEW s \in SUBSET S
      PROVE  /\ Cardinality(s) \in Nat /\ (Cardinality(s) = 0 <=> s = {})
             /\ \A x \in s : Cardinality(s \ {x}) = Cardinality(s) - 1
  <2>1. IsFiniteSet(s)
    BY FS_Subset
  <2> QED BY <2>1, FS_CardinalityType, FS_EmptySet, FS_RemoveElement
<1>4. 0 \in P
  BY <1>3
<1>5. ASSUME NEW n \in P PROVE n + 1 \in P
  <2> SUFFICES ASSUME NEW s \in SUBSET S, Cardinality(s) = n + 1, NEW x \in s
               PROVE  f[s] = f[s \ {x}] + c[x]
    OBVIOUS
  <2> DEFINE y == CHOOSE z \in s : TRUE
  <2>1. y \in s
    <3>1. \E z \in s : TRUE
      OBVIOUS
    <3> QED BY <3>1, Zenon
  <2>2. f[s] = c[y] + f[s \ {y}]
    BY <1>2
  <2> HIDE DEF y
  <2>3. c[x] \in Nat /\ c[y] \in Nat /\ s \ {x} \in SUBSET S /\ s \ {y} \in SUBSET S
    BY <2>1
  <2>4. f[s \ {x}] \in Nat /\ f[s \ {y}] \in Nat
    BY <1>1, <2>3
  <2>5. CASE x = y
    BY <2>2, <2>3, <2>4, <2>5
  <2>6. CASE x # y
    <3>1. Cardinality(s \ {x}) = n /\ Cardinality(s \ {y}) = n
      BY <1>3, <2>1
    <3>2. y \in s \ {x} /\ x \in s \ {y} /\ (s \ {x}) \ {y} = (s \ {y}) \ {x}
      BY <2>1, <2>6
    <3>3. f[s \ {x}] = f[(s \ {x}) \ {y}] + c[y]
      BY <2>3, <3>1, <3>2
    <3>4. f[s \ {y}] = f[(s \ {y}) \ {x}] + c[x]
      BY <2>3, <3>1, <3>2
    <3>5. f[(s \ {x}) \ {y}] \in Nat
      BY <1>1, <2>3
    <3>6. f[(s \ {x}) \ {y}] = f[(s \ {y}) \ {x}]
      BY <3>2
    <3> QED BY <2>2, <2>3, <3>3, <3>4, <3>5, <3>6
  <2> QED BY <2>5, <2>6
<1>6. Nat \subseteq P
  <2>1. P \subseteq Nat
    OBVIOUS
  <2> HIDE DEF P
  <2> QED BY <1>4, <1>5, <2>1, Induction
<1>7. \A s \in SUBSET S : \A x \in s : f[s] = f[s \ {x}] + c[x]
  BY <1>3, <1>6
<1>8. f[{}] = 0
  BY <1>2
<1>9. Totals(f, S, c)
  BY <1>1, <1>7, <1>8 DEF Totals
<1> QED BY <1>1, <1>9

\* wrap returns an int32 that differs from its argument by whole widths.
LEMMA Wrapped ==
    ASSUME NEW n \in Int
    PROVE  /\ wrap(n) \in Int /\ -(MaxInt32 + 1) <= wrap(n) /\ wrap(n) <= MaxInt32
           /\ \E q \in Int : n = wrap(n) + (int32Width * q)
<1> DEFINE h == MaxInt32 + 1
           m == int32Width
           x == n + h
<1>1. h \in Nat /\ h > 0 /\ m \in Nat /\ m > 0 /\ m = 2 * h /\ x \in Int
  BY MaxInt32Assumption DEF int32Width
<1>2. wrap(n) = (x % m) - h
  BY MaxInt32Assumption DEF wrap
<1> HIDE DEF h, m, x
<1>3. x % m \in 0 .. m - 1 /\ x = m * (x \div m) + (x % m) /\ x \div m \in Int
  BY <1>1
<1> DEFINE q == x \div m
           p == m * q
           r == x % m
<1>4. p \in Int /\ q \in Int /\ r \in Int /\ 0 <= r /\ r <= m - 1 /\ x = p + r
  BY <1>1, <1>3
<1> HIDE DEF p, q, r
<1>5. x = n + h
  BY DEF x
<1>6. wrap(n) = r - h /\ n = wrap(n) + p
  BY <1>1, <1>2, <1>4, <1>5 DEF r
<1>7. wrap(n) \in Int /\ -h <= wrap(n) /\ wrap(n) <= h - 1
  BY <1>1, <1>4, <1>6
<1>8. h - 1 = MaxInt32 /\ n = wrap(n) + (int32Width * q)
  BY <1>6, MaxInt32Assumption DEF h, p, m
<1> QED BY <1>4, <1>7, <1>8 DEF h

\* An int32 that differs from a total by whole widths is that total if it fits.
LEMMA Congruent ==
    ASSUME NEW a \in Nat, NEW b \in Int, -(MaxInt32 + 1) <= b, b <= MaxInt32,
           NEW q \in Int, a = b + (int32Width * q)
    PROVE  (a - b) % int32Width = 0 /\ (a <= MaxInt32 => b = a)
<1> DEFINE m == int32Width
<1>1. m \in Nat /\ m > 0 /\ MaxInt32 \in Nat /\ m = 2 * (MaxInt32 + 1)
  BY MaxInt32Assumption DEF int32Width
<1> HIDE DEF m
<1>2. m * q \in Int /\ a = b + (m * q)
  BY <1>1 DEF m
<1>3. a - b = m * q
  BY <1>2
<1>4. (m * q) % m = 0
  BY <1>1
<1>5. ASSUME a <= MaxInt32 PROVE b = a
  <2>1. q >= 1 => m * q >= m
    BY <1>1
  <2>2. q <= -1 => m * q <= -m
    BY <1>1
  <2>3. q = 0 => m * q = 0
    BY <1>1
  <2>4. m * q < m /\ m * q > -m
    BY <1>1, <1>2, <1>5
  <2>5. q = 0
    BY <1>1, <1>2, <2>1, <2>2, <2>4
  <2> QED BY <1>2, <2>3, <2>5
<1> QED BY <1>3, <1>4, <1>5 DEF m

\* The groups SummarizeNamespace fills for the events listed in evs.
GroupType == [count : Int, objects : SUBSET STRING, lastSeen : Nat]

Reasons(evs) == {byID[i].Reason : i \in ToSet(evs)}

summaryOf(evs) == FoldLeft(addToGroup, [r \in Reasons(evs) |-> newGroup], evs)

\* after is what adding an event makes of the groups.
Added(after, R, groups, id) ==
    /\ after \in [R -> GroupType]
    /\ \A r \in R : r # byID[id].Reason => after[r] = groups[r]
    /\ LET g == groups[byID[id].Reason] IN
       after[byID[id].Reason] =
         [count    |-> wrap(g.count + byID[id].Count),
          objects  |-> g.objects \cup {byID[id].InvolvedObjectName},
          lastSeen |-> IF byID[id].LastSeen > g.lastSeen THEN byID[id].LastSeen ELSE g.lastSeen]

\* One round of its loop changes the group of one reason.
LEMMA AddedToGroup ==
    ASSUME NEW R, NEW groups \in [R -> GroupType], NEW id, byID[id] \in NormalizedEvent,
           byID[id].Reason \in R
    PROVE  Added(addToGroup(groups, id), R, groups, id)
<1> DEFINE e == byID[id]
           g == groups[e.Reason]
           new == [count    |-> wrap(g.count + e.Count),
                   objects  |-> g.objects \cup {e.InvolvedObjectName},
                   lastSeen |-> IF e.LastSeen > g.lastSeen THEN e.LastSeen ELSE g.lastSeen]
<1>1. addToGroup(groups, id) = [groups EXCEPT ![e.Reason] = new]
  BY DEF addToGroup
<1>2. e.Count \in Nat /\ e.InvolvedObjectName \in STRING /\ e.LastSeen \in Nat
  BY DEF NormalizedEvent
<1>3. g \in GroupType
  OBVIOUS
<1>4. g.count \in Int /\ g.objects \in SUBSET STRING /\ g.lastSeen \in Nat
  BY <1>3 DEF GroupType
<1> HIDE DEF g, e
<1>5. wrap(g.count + e.Count) \in Int
  <2>1. g.count + e.Count \in Int
    BY <1>2, <1>4
  <2> QED BY <2>1, Wrapped
<1>6. (IF e.LastSeen > g.lastSeen THEN e.LastSeen ELSE g.lastSeen) \in Nat
  BY <1>2, <1>4
<1>7. g.objects \cup {e.InvolvedObjectName} \in SUBSET STRING
  BY <1>2, <1>4
<1>8. new \in GroupType
  BY <1>5, <1>6, <1>7, Zenon DEF GroupType
<1>9. e.Reason \in R
  BY DEF e
<1>10. addToGroup(groups, id)[e.Reason] = new
  BY <1>1, <1>9
<1> HIDE DEF new
<1>11. /\ addToGroup(groups, id) \in [R -> GroupType]
       /\ \A r \in R : r # e.Reason => addToGroup(groups, id)[r] = groups[r]
  BY <1>1, <1>8, <1>9
<1> QED BY <1>10, <1>11 DEF Added, new, e, g

\* f is a solution of the recursive definition of FoldLeft in summaryOf.
SummaryFold(f, evs) ==
    f = [s \in SUBSET DOMAIN evs |->
           IF s = {} THEN [r \in Reasons(evs) |-> newGroup]
                     ELSE addToGroup(f[s \ {Max(s)}], evs[Max(s)])]

LEMMA SummaryFolds ==
    ASSUME NEW n \in Nat, NEW E, NEW evs \in [1 .. n -> E],
           \A i \in E : byID[i] \in NormalizedEvent
    PROVE  \E f : SummaryFold(f, evs) /\ summaryOf(evs) = f[1 .. n]
<1> DEFINE D == 1 .. n
           R == Reasons(evs)
           T == [R -> GroupType]
           base == [r \in R |-> newGroup]
           pick == [s \in SUBSET D |-> Max(s)]
           step == [w \in T \X D |-> addToGroup(w[1], evs[w[2]])]
<1>1. ASSUME NEW s \in SUBSET D, s # {} PROVE pick[s] \in s
  <2>1. s \subseteq 0 .. n
    OBVIOUS
  <2> QED BY <1>1, <2>1, MaxOfBounded
<1>2. ASSUME NEW t \in T, NEW x \in D
      PROVE  step[<<t, x>>] \in T /\ step[<<t, x>>] = addToGroup(t, evs[x])
  <2>1. evs[x] \in E /\ <<t, x>> \in T \X D
    OBVIOUS
  <2>2. byID[evs[x]].Reason \in R
    BY DEF Reasons, ToSet
  <2>3. addToGroup(t, evs[x]) \in T
    <3> HIDE DEF R
    <3>1. Added(addToGroup(t, evs[x]), R, t, evs[x])
      BY <2>1, <2>2, AddedToGroup
    <3> QED BY <3>1, Zenon DEF Added
  <2>4. step[<<t, x>>] = addToGroup(t, evs[x])
    <3> HIDE DEF T
    <3> QED BY <2>1
  <2> QED BY <2>3, <2>4
<1>3. IsFiniteSet(D) /\ base \in T
  <2>1. newGroup \in GroupType
    <3>1. {} \in SUBSET STRING /\ 0 \in Int /\ 0 \in Nat
      OBVIOUS
    <3> QED BY <3>1, Zenon DEF newGroup, GroupType
  <2> HIDE DEF R
  <2> QED BY <2>1, FS_Interval
<1> HIDE DEF pick, step, T, base
<1>4. PICK it : FoldOn(it, D, T, base, pick, step)
  BY <1>1, <1>2, <1>3, FoldExists
<1>5. SummaryFold(it, evs)
  <2>1. /\ it \in [SUBSET D -> T] /\ it[{}] = base
        /\ \A s \in SUBSET D : s # {} => it[s] = step[<<it[s \ {pick[s]}], pick[s]>>]
    BY <1>4 DEF FoldOn
  <2>2. ASSUME NEW s \in SUBSET D, s # {}
        PROVE  it[s] = addToGroup(it[s \ {Max(s)}], evs[Max(s)])
    <3>1. pick[s] = Max(s)
      BY DEF pick
    <3>2. Max(s) \in D /\ it[s \ {Max(s)}] \in T
      BY <1>1, <2>1, <2>2, <3>1
    <3> QED BY <1>2, <2>1, <2>2, <3>1, <3>2
  <2>3. DOMAIN evs = D
    OBVIOUS
  <2> DEFINE g == [s \in SUBSET DOMAIN evs |->
                     IF s = {} THEN base ELSE addToGroup(it[s \ {Max(s)}], evs[Max(s)])]
  <2>4. it = g
    BY <2>1, <2>2, <2>3
  <2> QED BY <2>4 DEF SummaryFold, base
<1> DEFINE f == CHOOSE f : f = [s \in SUBSET DOMAIN evs |->
                  IF s = {} THEN [r \in Reasons(evs) |-> newGroup]
                            ELSE addToGroup(f[s \ {Max(s)}], evs[Max(s)])]
<1>6. SummaryFold(f, evs)
  BY <1>5, Zenon DEF SummaryFold
<1>7. summaryOf(evs) = f[DOMAIN evs]
  BY Zenon DEF summaryOf, FoldLeft, MapThenFoldSet
<1>8. DOMAIN evs = 1 .. n
  OBVIOUS
<1> HIDE DEF f
<1> QED BY <1>6, <1>7, <1>8

\* The group g sums up the events G, whose counts add up to total.
SumsUp(g, G, total) ==
    /\ g.count \in Int /\ -(MaxInt32 + 1) <= g.count /\ g.count <= MaxInt32
    /\ \E q \in Int : total = g.count + (int32Width * q)
    /\ g.objects = {byID[i].InvolvedObjectName : i \in G}
    /\ g.lastSeen \in Nat
    /\ \A i \in G : byID[i].LastSeen <= g.lastSeen
    /\ IF G = {} THEN g.lastSeen = 0 ELSE \E i \in G : byID[i].LastSeen = g.lastSeen

\* It still does so when an event is added to it.
LEMMA SumsUpAdding ==
    ASSUME NEW g, NEW G, NEW total \in Nat, SumsUp(g, G, total), NEW id,
           \A i \in G \cup {id} : byID[i] \in NormalizedEvent,
           NEW h, h = [count    |-> wrap(g.count + byID[id].Count),
                       objects  |-> g.objects \cup {byID[id].InvolvedObjectName},
                       lastSeen |-> IF byID[id].LastSeen > g.lastSeen THEN byID[id].LastSeen
                                                                      ELSE g.lastSeen]
    PROVE  SumsUp(h, G \cup {id}, total + byID[id].Count)
<1> DEFINE e == byID[id]
           H == G \cup {id}
           c == e.Count
<1>1. \A i \in H : byID[i].LastSeen \in Nat /\ byID[i].Count \in Nat
  BY DEF NormalizedEvent
<1>2. e.LastSeen \in Nat /\ c \in Nat
  BY <1>1
<1>3. /\ h.count = wrap(g.count + c) /\ h.objects = g.objects \cup {e.InvolvedObjectName}
      /\ h.lastSeen = IF e.LastSeen > g.lastSeen THEN e.LastSeen ELSE g.lastSeen
  OBVIOUS
<1>4. /\ g.count \in Int /\ g.objects = {byID[i].InvolvedObjectName : i \in G}
      /\ g.lastSeen \in Nat /\ \A i \in G : byID[i].LastSeen <= g.lastSeen
      /\ IF G = {} THEN g.lastSeen = 0 ELSE \E i \in G : byID[i].LastSeen = g.lastSeen
  BY DEF SumsUp
<1>5. PICK p \in Int : total = g.count + (int32Width * p)
  BY DEF SumsUp
<1> HIDE DEF c
<1>6. g.count + c \in Int
  BY <1>2, <1>4
<1>7. /\ h.count \in Int /\ -(MaxInt32 + 1) <= h.count /\ h.count <= MaxInt32
      /\ \E q \in Int : g.count + c = h.count + (int32Width * q)
  BY <1>3, <1>6, Wrapped
<1>8. PICK q \in Int : g.count + c = h.count + (int32Width * q)
  BY <1>7
<1>9. p + q \in Int /\ total + c = h.count + (int32Width * (p + q))
  <2>1. int32Width \in Nat
    BY MaxInt32Assumption DEF int32Width
  <2>2. int32Width * (p + q) = (int32Width * p) + (int32Width * q)
        /\ int32Width * p \in Int /\ int32Width * q \in Int
    BY <2>1
  <2> DEFINE a == int32Width * p
             b == int32Width * q
  <2> HIDE DEF a, b
  <2>3. total = g.count + a /\ g.count + c = h.count + b /\ a \in Int /\ b \in Int
    BY <1>5, <1>8, <2>2 DEF a, b
  <2>4. total + c = h.count + (a + b)
    BY <1>2, <1>4, <1>7, <2>3
  <2> QED BY <2>2, <2>4 DEF a, b
<1>10. h.objects = {byID[i].InvolvedObjectName : i \in H}
  BY <1>3, <1>4
<1> HIDE DEF e, H
<1>11. \A i \in H : i \in G \/ i = id
  BY DEF H
<1>12. G \subseteq H /\ id \in H /\ H # {}
  BY DEF H
<1>13. CASE e.LastSeen > g.lastSeen
  <2>1. h.lastSeen = e.LastSeen
    BY <1>3, <1>13
  <2>2. \A i \in H : byID[i].LastSeen <= h.lastSeen
    <3> SUFFICES ASSUME NEW i \in H PROVE byID[i].LastSeen <= e.LastSeen
      BY <2>1
    <3>1. CASE i = id
      BY <1>2, <3>1 DEF e
    <3>2. CASE i \in G
      BY <1>1, <1>2, <1>4, <1>13, <3>2
    <3> QED BY <1>11, <3>1, <3>2
  <2>3. byID[id].LastSeen = h.lastSeen
    BY <2>1 DEF e
  <2>4. h.lastSeen \in Nat
    BY <1>2, <2>1
  <2>5. SumsUp(h, H, total + c)
    BY <1>7, <1>9, <1>10, <1>12, <2>2, <2>3, <2>4 DEF SumsUp
  <2> QED BY <2>5 DEF H, c, e
<1>14. CASE ~ (e.LastSeen > g.lastSeen)
  <2>1. h.lastSeen = g.lastSeen /\ e.LastSeen <= g.lastSeen
    BY <1>2, <1>3, <1>4, <1>14
  <2>2. \A i \in H : byID[i].LastSeen <= h.lastSeen
    BY <1>4, <1>11, <2>1 DEF e
  <2>3. \E i \in H : byID[i].LastSeen = h.lastSeen
    <3>1. CASE G = {}
      <4>1. g.lastSeen = 0
        BY <1>4, <3>1
      <4>2. e.LastSeen = 0
        BY <1>2, <2>1, <4>1
      <4> QED BY <1>12, <2>1, <4>1, <4>2 DEF e
    <3>2. CASE G # {}
      BY <1>4, <1>12, <2>1, <3>2
    <3> QED BY <3>1, <3>2
  <2>4. h.lastSeen \in Nat
    BY <1>4, <2>1
  <2>5. SumsUp(h, H, total + c)
    BY <1>7, <1>9, <1>10, <1>12, <2>2, <2>3, <2>4 DEF SumsUp
  <2> QED BY <2>5 DEF H, c, e
<1> QED BY <1>13, <1>14

Of(E, reason) == {i \in E : byID[i].Reason = reason}

\* The summary of a list of all of E has the reasons of E, and the group of each
\* sums up the events with that reason.
LEMMA SummarySums ==
    ASSUME NEW n \in Nat, NEW E, IsFiniteSet(E), NEW evs \in [1 .. n -> E],
           \A i, j \in 1 .. n : evs[i] = evs[j] => i = j,
           \A x \in E : \E i \in 1 .. n : evs[i] = x,
           \A i \in E : byID[i] \in NormalizedEvent
    PROVE  /\ DOMAIN summaryOf(evs) = {byID[i].Reason : i \in E}
           /\ \A r \in DOMAIN summaryOf(evs) :
                /\ summaryOf(evs)[r] \in GroupType
                /\ SumsUp(summaryOf(evs)[r], Of(E, r), totalOf(Of(E, r))) /\ totalOf(Of(E, r)) \in Nat
<1> DEFINE R == Reasons(evs)
<1>1. PICK f : SummaryFold(f, evs) /\ summaryOf(evs) = f[1 .. n]
  BY SummaryFolds, ZenonT(30)
<1>2. R = {byID[i].Reason : i \in E}
  <2>1. ToSet(evs) = E
    BY DEF ToSet
  <2> QED BY <2>1 DEF Reasons
<1>3. ASSUME NEW s \in SUBSET (1 .. n)
      PROVE  f[s] = IF s = {} THEN [r \in R |-> newGroup] ELSE addToGroup(f[s \ {Max(s)}], evs[Max(s)])
  <2>1. DOMAIN evs = 1 .. n
    OBVIOUS
  <2> QED BY <1>1, <2>1 DEF SummaryFold
<1>4. \A i \in E : byID[i].Reason \in R
  BY <1>2
<1> HIDE DEF R
<1>5. f[1 .. 0] = [r \in R |-> newGroup] /\ f[1 .. 0] \in [R -> GroupType]
  <2>1. 1 .. 0 = {}
    OBVIOUS
  <2>2. newGroup \in GroupType
    <3>1. {} \in SUBSET STRING /\ 0 \in Int /\ 0 \in Nat
      OBVIOUS
    <3> QED BY <3>1, Zenon DEF newGroup, GroupType
  <2>3. f[{}] = [r \in R |-> newGroup]
    BY <1>3
  <2> QED BY <2>1, <2>2, <2>3
<1>6. ASSUME NEW k \in Nat, k + 1 <= n
      PROVE  /\ f[1 .. k + 1] = addToGroup(f[1 .. k], evs[k + 1])
             /\ k + 1 \in 1 .. n /\ evs[k + 1] \in E
  <2> DEFINE s == 1 .. k + 1
  <2>1. k + 1 \in 1 .. n /\ s \in SUBSET (1 .. n)
    BY <1>6
  <2>2. s # {} /\ Max(s) = k + 1 /\ s \ {k + 1} = 1 .. k
    BY LastOf
  <2> HIDE DEF s
  <2>3. f[s] = IF s = {} THEN [r \in R |-> newGroup] ELSE addToGroup(f[s \ {Max(s)}], evs[Max(s)])
    BY <1>3, <2>1
  <2>4. f[s] = addToGroup(f[1 .. k], evs[k + 1])
    BY <2>2, <2>3
  <2> QED BY <2>1, <2>4 DEF s
<1>7. ASSUME NEW r \in R
      PROVE  /\ f[1 .. n] \in [R -> GroupType]
             /\ SumsUp(f[1 .. n][r], Of(E, r), totalOf(Of(E, r))) /\ totalOf(Of(E, r)) \in Nat
  <2> DEFINE G == Of(E, r)
             c == [i \in G |-> byID[i].Count]
             sofar(k) == {i \in G : \E j \in 1 .. k : evs[j] = i}
  <2>1. G \subseteq E /\ \A i \in E : i \in G <=> byID[i].Reason = r
    BY DEF Of
  <2>2. IsFiniteSet(G)
    BY <2>1, FS_Subset
  <2> HIDE DEF G
  <2>3. c \in [G -> Nat]
    BY <2>1 DEF NormalizedEvent
  <2>4. totalOf(G) = SumFunction(c)
    BY DEF totalOf
  <2> HIDE DEF c
  <2>5. PICK tot : Totals(tot, G, c) /\ SumFunction(c) = tot[G]
    BY <2>2, <2>3, SumTotals
  <2>6. tot \in [SUBSET G -> Nat] /\ tot[{}] = 0
        /\ \A s \in SUBSET G : \A x \in s : tot[s] = tot[s \ {x}] + c[x]
    BY <2>5 DEF Totals
  <2> DEFINE P == {k \in Nat : k <= n => /\ f[1 .. k] \in [R -> GroupType]
                                         /\ SumsUp(f[1 .. k][r], sofar(k), tot[sofar(k)])}
  <2>7. 0 \in P
    <3>1. sofar(0) = {}
      OBVIOUS
    <3>2. f[1 .. 0][r] = newGroup
      BY <1>5
    <3>3. SumsUp(newGroup, {}, 0)
      <4>1. 0 \in Int /\ 0 = 0 + (int32Width * 0)
        BY MaxInt32Assumption DEF int32Width
      <4>2. -(MaxInt32 + 1) <= 0 /\ 0 <= MaxInt32
        BY MaxInt32Assumption
      <4>3. newGroup.count = 0 /\ newGroup.objects = {} /\ newGroup.lastSeen = 0
        BY DEF newGroup
      <4> QED BY <4>1, <4>2, <4>3 DEF SumsUp
    <3> HIDE DEF sofar
    <3> QED BY <1>5, <2>6, <3>1, <3>2, <3>3
  <2>8. ASSUME NEW k \in P PROVE k + 1 \in P
    <3>1. k \in Nat /\ k + 1 \in Nat
      OBVIOUS
    <3> SUFFICES ASSUME k + 1 <= n
                 PROVE  /\ f[1 .. k + 1] \in [R -> GroupType]
                        /\ SumsUp(f[1 .. k + 1][r], sofar(k + 1), tot[sofar(k + 1)])
      BY <3>1
    <3> DEFINE id == evs[k + 1]
               groups == f[1 .. k]
    <3>2. groups \in [R -> GroupType] /\ SumsUp(groups[r], sofar(k), tot[sofar(k)])
      BY <3>1
    <3>3. f[1 .. k + 1] = addToGroup(groups, id) /\ k + 1 \in 1 .. n /\ id \in E
      BY <1>6, <3>1
    <3>4. byID[id] \in NormalizedEvent /\ byID[id].Reason \in R
      BY <1>4, <3>3
    <3>5. \A j : j \in 1 .. k + 1 <=> j \in 1 .. k \/ j = k + 1
      BY <3>1
    <3>6. sofar(k) \in SUBSET G /\ sofar(k + 1) \in SUBSET G
          /\ \A i : i \in sofar(k + 1) <=> i \in G /\ (i \in sofar(k) \/ i = id)
      BY <3>5
    <3>7. id \notin sofar(k)
      <4>1. \A j \in 1 .. k : j \in 1 .. n /\ j # k + 1
        BY <3>1, <3>3
      <4> QED BY <3>3, <4>1
    <3> HIDE DEF id, groups, sofar
    <3>8. /\ addToGroup(groups, id) \in [R -> GroupType]
          /\ r # byID[id].Reason => addToGroup(groups, id)[r] = groups[r]
          /\ LET g == groups[byID[id].Reason] IN
             addToGroup(groups, id)[byID[id].Reason] =
               [count    |-> wrap(g.count + byID[id].Count),
                objects  |-> g.objects \cup {byID[id].InvolvedObjectName},
                lastSeen |-> IF byID[id].LastSeen > g.lastSeen THEN byID[id].LastSeen ELSE g.lastSeen]
      <4>1. Added(addToGroup(groups, id), R, groups, id)
        BY <3>2, <3>4, AddedToGroup
      <4> QED BY <4>1 DEF Added
    <3>9. CASE byID[id].Reason # r
      <4>1. id \notin G
        BY <2>1, <3>3, <3>9
      <4>2. \A i : i \in sofar(k + 1) <=> i \in sofar(k)
        BY <3>6, <4>1
      <4>3. sofar(k + 1) = sofar(k)
        BY <4>2
      <4> QED BY <3>2, <3>3, <3>8, <3>9, <4>3
    <3>10. CASE byID[id].Reason = r
      <4>1. id \in G
        BY <2>1, <3>3, <3>10
      <4>2. sofar(k + 1) = sofar(k) \cup {id} /\ sofar(k + 1) \ {id} = sofar(k)
        BY <3>6, <3>7, <4>1
      <4>3. c[id] = byID[id].Count
        BY <4>1 DEF c
      <4>4. tot[sofar(k + 1)] = tot[sofar(k)] + byID[id].Count /\ tot[sofar(k)] \in Nat
        BY <2>6, <3>6, <4>1, <4>2, <4>3
      <4>5. \A i \in sofar(k) \cup {id} : byID[i] \in NormalizedEvent
        BY <2>1, <3>4, <3>6
      <4> DEFINE h == addToGroup(groups, id)[r]
                 g == groups[r]
      <4>6. h = [count    |-> wrap(g.count + byID[id].Count),
                 objects  |-> g.objects \cup {byID[id].InvolvedObjectName},
                 lastSeen |-> IF byID[id].LastSeen > g.lastSeen THEN byID[id].LastSeen ELSE g.lastSeen]
        BY <3>8, <3>10
      <4> HIDE DEF h, g
      <4>7. SumsUp(g, sofar(k), tot[sofar(k)])
        BY <3>2 DEF g
      <4>8. SumsUp(h, sofar(k) \cup {id}, tot[sofar(k)] + byID[id].Count)
        BY <4>4, <4>5, <4>6, <4>7, SumsUpAdding
      <4>9. SumsUp(h, sofar(k + 1), tot[sofar(k + 1)])
        BY <4>2, <4>4, <4>8
      <4> QED BY <3>3, <3>8, <4>9 DEF h
    <3> QED BY <3>9, <3>10
  <2>9. n \in P
    <3>1. P \subseteq Nat
      OBVIOUS
    <3> HIDE DEF P
    <3> QED BY <2>7, <2>8, <3>1, Induction
  <2>10. sofar(n) = G
    BY <2>1
  <2>11. f[1 .. n] \in [R -> GroupType] /\ SumsUp(f[1 .. n][r], G, tot[G])
    <3> HIDE DEF sofar
    <3>1. n <= n
      OBVIOUS
    <3>2. f[1 .. n] \in [R -> GroupType] /\ SumsUp(f[1 .. n][r], sofar(n), tot[sofar(n)])
      BY <2>9, <3>1
    <3> QED BY <2>10, <3>2
  <2>12. tot[G] = totalOf(G) /\ tot[G] \in Nat
    BY <2>4, <2>5, <2>6
  <2> QED BY <2>11, <2>12 DEF G
<1>8. DOMAIN summaryOf(evs) = R
  <2>1. CASE R = {}
    <3>1. n = 0
      <4>1. \A j \in 1 .. n : evs[j] \in E /\ byID[evs[j]].Reason \in R
        BY <1>4
      <4>2. \A j \in 1 .. n : FALSE
        BY <2>1, <4>1
      <4> QED BY <4>2
    <3> QED BY <1>1, <1>5, <3>1
  <2>2. CASE R # {}
    BY <1>1, <1>7, <2>2
  <2> QED BY <2>1, <2>2
<1> QED BY <1>1, <1>2, <1>7, <1>8

\* The filter with which SummarizeNamespace queries.
summaryFilter(namespace, since) ==
    [Namespace |-> namespace, ObjectUID |-> "", Reason |-> "", Since |-> since, Limit |-> 0]

\* Every result of SummarizeNamespace sums up what a scan of the namespace finds.
LEMMA SummaryAnswers ==
    ASSUME IInv, NEW namespace, NEW since \in Nat, NEW s \in SummarizeNamespace(namespace, since)
    PROVE  LET E == Scan(summaryFilter(namespace, since)) IN
           /\ DOMAIN s = {byID[i].Reason : i \in E}
           /\ \A r \in DOMAIN s : /\ s[r] \in GroupType
                                 /\ SumsUp(s[r], Of(E, r), totalOf(Of(E, r)))
                                 /\ totalOf(Of(E, r)) \in Nat
<1> DEFINE f == summaryFilter(namespace, since)
           E == Scan(f)
<1>1. PICK evs \in Query(f) : s = summaryOf(evs)
  BY DEF SummarizeNamespace, summaryFilter, summaryOf, Reasons
<1>2. f.Since \in Nat /\ f.Limit = 0
  BY DEF summaryFilter
<1> HIDE DEF f
<1>3. Answers(evs, f.Limit, E)
  BY <1>2, QueryAnswers
<1>4. IsFiniteSet(E)
  BY ScanFinite
<1>5. \A i \in E : byID[i] \in NormalizedEvent
  BY DEF Scan, IInv, TypeOK, PartialFcn
<1> HIDE DEF E
<1> DEFINE n == Len(evs)
<1>6. n \in Nat /\ evs \in [1 .. n -> E]
  BY <1>3 DEF Answers
<1>7. /\ \A i, j \in 1 .. n : evs[i] = evs[j] => i = j
      /\ \A x \in E : \E i \in 1 .. n : evs[i] = x
  BY <1>2, <1>3 DEF Answers
<1> HIDE DEF n
<1>8. /\ DOMAIN summaryOf(evs) = {byID[i].Reason : i \in E}
      /\ \A r \in DOMAIN summaryOf(evs) :
           /\ summaryOf(evs)[r] \in GroupType
           /\ SumsUp(summaryOf(evs)[r], Of(E, r), totalOf(Of(E, r))) /\ totalOf(Of(E, r)) \in Nat
  BY <1>4, <1>5, <1>6, <1>7, SummarySums
<1> QED BY <1>1, <1>8 DEF E, f

\* A summary has one group for every reason among the events of the namespace,
\* with the objects and the newest time of all of them, and with their total, up
\* to the overflow of an int32 (store.go 305-342).
THEOREM SummariesCorrect == Spec => []SummaryCorrect
<1>1. ASSUME IInv PROVE SummaryCorrect
  <2> SUFFICES ASSUME NEW f \in Filters, NEW s \in SummarizeNamespace(f.Namespace, f.Since)
               PROVE  LET evs == {i \in DOMAIN byID :
                                    Matches([f EXCEPT !.ObjectUID = "", !.Reason = ""], byID[i])}
                      IN /\ DOMAIN s = {byID[i].Reason : i \in evs}
                         /\ \A reason \in DOMAIN s :
                              LET group == {i \in evs : byID[i].Reason = reason}
                              IN /\ (totalOf(group) - s[reason].count) % int32Width = 0
                                 /\ totalOf(group) <= MaxInt32 => s[reason].count = totalOf(group)
                                 /\ s[reason].objects = {byID[i].InvolvedObjectName : i \in group}
                                 /\ s[reason].lastSeen = Max({byID[i].LastSeen : i \in group})
    BY DEF SummaryCorrect
  <2> DEFINE E == {i \in DOMAIN byID : Matches([f EXCEPT !.ObjectUID = "", !.Reason = ""], byID[i])}
  <2>1. f.Since \in Nat
    BY FilterAssumption
  <2>2. Scan(summaryFilter(f.Namespace, f.Since)) = E
    <3> DEFINE a == summaryFilter(f.Namespace, f.Since)
               b == [f EXCEPT !.ObjectUID = "", !.Reason = ""]
    <3>1. f \in [Namespace : STRING, ObjectUID : STRING, Reason : STRING, Since : Nat, Limit : Nat]
      BY FilterAssumption
    <3>2. /\ b.Namespace = f.Namespace /\ b.ObjectUID = "" /\ b.Reason = "" /\ b.Since = f.Since
      BY <3>1
    <3>3. /\ a.Namespace = f.Namespace /\ a.ObjectUID = "" /\ a.Reason = "" /\ a.Since = f.Since
      BY DEF summaryFilter
    <3> HIDE DEF a, b
    <3>4. \A e : Matches(a, e) <=> Matches(b, e)
      BY <3>2, <3>3, Zenon DEF Matches
    <3> QED BY <3>4 DEF Scan, a, b
  <2> HIDE DEF E
  <2>3. /\ DOMAIN s = {byID[i].Reason : i \in E}
        /\ \A r \in DOMAIN s : SumsUp(s[r], Of(E, r), totalOf(Of(E, r))) /\ totalOf(Of(E, r)) \in Nat
    BY <1>1, <2>1, <2>2, SummaryAnswers
  <2>4. ASSUME NEW r \in DOMAIN s
        PROVE  LET group == {i \in E : byID[i].Reason = r}
               IN /\ (totalOf(group) - s[r].count) % int32Width = 0
                  /\ totalOf(group) <= MaxInt32 => s[r].count = totalOf(group)
                  /\ s[r].objects = {byID[i].InvolvedObjectName : i \in group}
                  /\ s[r].lastSeen = Max({byID[i].LastSeen : i \in group})
    <3> DEFINE G == {i \in E : byID[i].Reason = r}
               g == s[r]
    <3>1. Of(E, r) = G
      BY DEF Of
    <3>2. G # {}
      BY <2>3
    <3> HIDE DEF G, g
    <3>3. SumsUp(g, G, totalOf(G)) /\ totalOf(G) \in Nat
      BY <2>3, <3>1 DEF g
    <3>4. (totalOf(G) - g.count) % int32Width = 0 /\ (totalOf(G) <= MaxInt32 => g.count = totalOf(G))
      <4>1. PICK q \in Int : totalOf(G) = g.count + (int32Width * q)
        BY <3>3 DEF SumsUp
      <4>2. g.count \in Int /\ -(MaxInt32 + 1) <= g.count /\ g.count <= MaxInt32
        BY <3>3 DEF SumsUp
      <4> QED BY <3>3, <4>1, <4>2, Congruent
    <3>5. g.objects = {byID[i].InvolvedObjectName : i \in G}
      BY <3>3 DEF SumsUp
    <3>6. g.lastSeen = Max({byID[i].LastSeen : i \in G})
      <4> DEFINE times == {byID[i].LastSeen : i \in G}
      <4>1. g.lastSeen \in Nat /\ g.lastSeen \in times /\ \A t \in times : t <= g.lastSeen
        BY <3>2, <3>3 DEF SumsUp
      <4>2. times \subseteq 0 .. g.lastSeen
        <5>1. \A i \in G : byID[i].LastSeen \in Nat
          <6>1. \A i \in DOMAIN byID : byID[i].LastSeen \in Nat
            BY <1>1 DEF IInv, TypeOK, PartialFcn, NormalizedEvent
          <6> QED BY <6>1 DEF G, E
        <5> QED BY <4>1, <5>1
      <4> HIDE DEF times
      <4>3. Max(times) \in times /\ \A t \in times : Max(times) >= t
        BY <4>1, <4>2, MaxOfBounded
      <4> DEFINE m == Max(times)
      <4> HIDE DEF m
      <4>4. m \in times /\ m >= g.lastSeen
        BY <4>1, <4>3 DEF m
      <4>5. m \in Nat /\ m <= g.lastSeen
        BY <4>1, <4>2, <4>4
      <4>6. m = g.lastSeen
        BY <4>1, <4>4, <4>5
      <4> QED BY <4>6 DEF m, times
    <3> QED BY <3>4, <3>5, <3>6 DEF G, g
  <2> QED BY <2>3, <2>4 DEF E
<1> QED BY <1>1, Invariance, PTL

=============================================================================
