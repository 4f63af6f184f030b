--------------------------- MODULE EventStoreProofs ---------------------------
(***************************************************************************)
(* Proofs about EventStore, for every set of incoming events, every size   *)
(* and every limit on the episodes tracked per key.                        *)
(***************************************************************************)
EXTENDS EventStore, TLAPS, SequenceTheorems

\* The size New settles on is positive.
LEMMA MaxSizePositive == maxSize \in Nat \ {0}
BY SizeAssumption DEF maxSize

\* The modulus in Add's head = (head + 1) % maxSize is a wrap to zero.
LEMMA NextSlot ==
    ASSUME NEW s \in 0 .. maxSize - 1
    PROVE  nextSlot(s) = IF s + 1 = maxSize THEN 0 ELSE s + 1
<1>1. maxSize \in Nat \ {0}
  BY MaxSizePositive
<1>2. CASE s + 1 = maxSize
  <2>1. \A m \in Nat \ {0} : m % m = 0
    OBVIOUS
  <2> QED BY <1>1, <1>2, <2>1 DEF nextSlot
<1>3. CASE s + 1 # maxSize
  <2>1. \A m \in Nat \ {0} : \A n \in 0 .. m - 1 : n % m = n
    OBVIOUS
  <2>2. s + 1 \in 0 .. maxSize - 1
    BY <1>1, <1>3
  <2> HIDE DEF maxSize
  <2> QED BY <1>1, <1>3, <2>1, <2>2 DEF nextSlot
<1> QED BY <1>2, <1>3

-----------------------------------------------------------------------------
\* The index of a field after an event with a fresh ID is inserted.
LEMMA IndexAdd ==
    ASSUME NEW field, NEW id, NEW v,
           id \notin DOMAIN field
    PROVE  addToIndex(IndexOf(field), v, id)
             = IndexOf(put(field, id, v))
<1> DEFINE grown == put(field, id, v)
           values == {field[i] : i \in DOMAIN field} \ {""}
<1>1. /\ DOMAIN grown = DOMAIN field \cup {id}
      /\ grown[id] = v
      /\ \A i \in DOMAIN field : grown[i] = field[i]
  BY DEF put
<1>2. {grown[i] : i \in DOMAIN grown} \ {""} = IF v = "" THEN values ELSE values \cup {v}
  BY <1>1
<1>3. \A w \in {grown[i] : i \in DOMAIN grown} \ {""} :
        {i \in DOMAIN grown : grown[i] = w}
          = IF w = v THEN {i \in DOMAIN field : field[i] = w} \cup {id}
                     ELSE {i \in DOMAIN field : field[i] = w}
  BY <1>1
<1>4. v \notin values /\ v # "" => {i \in DOMAIN field : field[i] = v} = {}
  OBVIOUS
<1> HIDE DEF grown
<1>5. addToIndex(IndexOf(field), v, id) = IndexOf(grown)
  <2>1. CASE v = ""
    BY <1>2, <1>3, <2>1 DEF addToIndex, IndexOf
  <2>2. CASE v # ""
    BY <1>2, <1>3, <1>4, <2>2, ZenonT(30) DEF addToIndex, IndexOf, put
  <2> QED BY <2>1, <2>2
<1> QED BY <1>5 DEF grown

\* The index of a field after the event with a stored ID is removed.
LEMMA IndexRemove ==
    ASSUME NEW field, NEW id \in DOMAIN field
    PROVE  removeFromIndex(IndexOf(field), field[id], id)
             = IndexOf(Restrict(field, DOMAIN field \ {id}))
<1> DEFINE shrunk == Restrict(field, DOMAIN field \ {id})
           v == field[id]
           values == {field[i] : i \in DOMAIN field} \ {""}
           left == {i \in DOMAIN field : field[i] = v} \ {id}
<1>1. /\ DOMAIN shrunk = DOMAIN field \ {id}
      /\ \A i \in DOMAIN field \ {id} : shrunk[i] = field[i]
  BY DEF Restrict
<1>2. {shrunk[i] : i \in DOMAIN shrunk} \ {""} = IF left = {} THEN values \ {v} ELSE values
  BY <1>1
<1>3. \A w \in {shrunk[i] : i \in DOMAIN shrunk} \ {""} :
        {i \in DOMAIN shrunk : shrunk[i] = w} = IF w = v THEN left
                     ELSE {i \in DOMAIN field : field[i] = w}
  BY <1>1
<1>4. /\ DOMAIN IndexOf(field) = values
      /\ \A w \in values : IndexOf(field)[w] = {i \in DOMAIN field : field[i] = w}
  BY DEF IndexOf
<1> HIDE DEF shrunk
<1>5. removeFromIndex(IndexOf(field), v, id) = IndexOf(shrunk)
  <2>1. CASE v = ""
    BY <1>2, <1>3, <2>1 DEF removeFromIndex, IndexOf
  <2>2. CASE v # "" /\ left = {}
    BY <1>2, <1>3, <1>4, <2>2 DEF removeFromIndex, IndexOf, Restrict
  <2>3. CASE v # "" /\ left # {}
    BY <1>2, <1>3, <1>4, <2>3 DEF removeFromIndex, IndexOf
  <2> QED BY <2>1, <2>2, <2>3
<1> QED BY <1>5 DEF shrunk

-----------------------------------------------------------------------------
\* Removing the first occurrence of the head leaves the tail (evict l.168-173).
LEMMA RemoveHead ==
    ASSUME NEW ids \in Seq(Nat), ids # <<>>
    PROVE  RemoveFirst(ids, ids[1]) = Tail(ids)
<1> DEFINE I == {i \in 1 .. Len(ids) : ids[i] = ids[1]}
<1>1. Len(ids) \in Nat \ {0}
  OBVIOUS
<1>2. 1 \in I /\ \A i \in I : 1 <= i
  BY <1>1
<1>3. I \subseteq Int
  OBVIOUS
<1>4. Min(I) = 1
  <2> HIDE DEF I
  <2>1. Min(I) \in I /\ \A i \in I : Min(I) <= i
    <3>1. \E x \in I : \A i \in I : x <= i
      BY <1>2
    <3> QED BY <3>1, Zenon DEF Min
  <2>2. Min(I) \in Int /\ Min(I) <= 1 /\ 1 <= Min(I)
    BY <1>2, <1>3, <2>1
  <2> QED BY <2>2
<1>5. RemoveFirst(ids, ids[1])
        = SubSeq(ids, 1, Min(I) - 1) \o SubSeq(ids, Min(I) + 1, Len(ids))
  <2>1. I # {} /\ \E i \in 1 .. Len(ids) : ids[i] = ids[1]
    BY <1>2
  <2> QED BY <2>1 DEF RemoveFirst, RemoveAt, SelectInSeq
<1>6. SubSeq(ids, 1, 0) = <<>> /\ SubSeq(ids, 2, Len(ids)) = Tail(ids)
  BY <1>1
<1>7. <<>> \o Tail(ids) = Tail(ids)
  BY <1>1
<1> HIDE DEF I
<1> QED BY <1>4, <1>5, <1>6, <1>7

\* The empty history lists nothing.
LEMMA NothingListed == \A i : ~listed(<<>>, i)
<1>1. Len(<<>>) = 0 /\ 1 .. 0 = {}
  OBVIOUS
<1> QED BY <1>1, Zenon DEF listed

\* The empty history is the right one for a key without episodes.
LEMMA EmptyHistory == <<>> \in Seq(Nat) /\ NewestOf(<<>>, {})
<1>1. <<>> \in Seq(Nat) /\ Len(<<>>) = 0 /\ \A j \in 1 .. Len(<<>>) : FALSE
  OBVIOUS
<1> QED BY <1>1, BurstsAssumption DEF NewestOf

\* An ID above all others is not among them.
LEMMA FreshID ==
    ASSUME NEW D, NEW n \in Nat, \A i \in D : i < n
    PROVE  n \notin D
OBVIOUS

\* Whatever a history lists is stored.
LEMMA ListedStored ==
    ASSUME NEW ids, NEW S, NewestOf(ids, S), NEW i, listed(ids, i)
    PROVE  i \in S
BY DEF NewestOf, listed

\* A history without id still lists the newest episodes when id goes.
LEMMA NewestSkip ==
    ASSUME NEW ids \in Seq(Nat), NEW S, NEW id, NewestOf(ids, S), ~listed(ids, id)
    PROVE  NewestOf(ids, S \ {id})
BY DEF NewestOf, listed

\* The history after its oldest episode is evicted, when id is the oldest of S.
LEMMA NewestTail ==
    ASSUME NEW ids \in Seq(Nat), NEW S, S \subseteq Nat, NEW id \in S,
           \A i \in S : id <= i, NewestOf(ids, S), listed(ids, id)
    PROVE  /\ ids # <<>> /\ ids[1] = id
           /\ Tail(ids) \in Seq(Nat)
           /\ \A i : listed(Tail(ids), i) <=> listed(ids, i) /\ i # id
           /\ NewestOf(Tail(ids), S \ {id})
           /\ Tail(ids) = <<>> => S = {id}
<1>1. PICK p \in 1 .. Len(ids) : ids[p] = id
  BY DEF listed
<1>2. Len(ids) \in Nat /\ Len(ids) >= 1
  BY <1>1
<1>3. ids[1] \in S /\ (1 < p => ids[1] < ids[p])
  BY <1>2 DEF NewestOf
<1>4. ids[1] = id
  BY <1>1, <1>2, <1>3
<1> DEFINE t == Tail(ids)
<1>5. /\ t \in Seq(Nat) /\ Len(t) = Len(ids) - 1
      /\ \A i \in 1 .. Len(t) : t[i] = ids[i + 1] /\ i + 1 \in 1 .. Len(ids)
      /\ ids # <<>>
  <2>1. ids # <<>>
    BY <1>2
  <2>2. t \in Seq(Nat) /\ Len(t) = Len(ids) - 1
    BY <2>1
  <2>3. \A i \in 1 .. Len(t) : t[i] = ids[i + 1]
    BY <2>1
  <2>4. \A i \in 1 .. Len(t) : i + 1 \in 1 .. Len(ids)
    BY <1>2, <2>2
  <2> QED BY <2>1, <2>2, <2>3, <2>4
<1> HIDE DEF t
<1>6. ASSUME NEW j \in 2 .. Len(ids) PROVE ids[j] # id
  <2>1. 1 \in 1 .. Len(ids) /\ j \in 1 .. Len(ids) /\ 1 < j
    BY <1>2
  <2>2. ids[1] < ids[j]
    BY <2>1 DEF NewestOf
  <2> QED BY <1>4, <2>2
<1>7. \A i : listed(t, i) <=> listed(ids, i) /\ i # id
  <2>1. ASSUME NEW i, listed(t, i) PROVE listed(ids, i) /\ i # id
    <3>1. PICK j \in 1 .. Len(t) : t[j] = i
      BY <2>1 DEF listed
    <3>2. j + 1 \in 2 .. Len(ids) /\ ids[j + 1] = i
      BY <1>2, <1>5, <3>1, SMTT(30)
    <3> QED BY <1>2, <1>6, <3>2 DEF listed
  <2>2. ASSUME NEW i, listed(ids, i), i # id PROVE listed(t, i)
    <3>1. PICK j \in 1 .. Len(ids) : ids[j] = i
      BY <2>2 DEF listed
    <3>2. j - 1 \in 1 .. Len(t) /\ t[j - 1] = ids[(j - 1) + 1] /\ (j - 1) + 1 = j
      BY <1>2, <1>4, <1>5, <2>2, <3>1, SMTT(30)
    <3> QED BY <3>1, <3>2 DEF listed
  <2> QED BY <2>1, <2>2
<1>8. \A i \in S : listed(ids, i)
  BY <1>4 DEF NewestOf
<1>9. NewestOf(t, S \ {id})
  <2>1. Len(t) <= MaxBurstsPerKey
    BY <1>2, <1>5, BurstsAssumption DEF NewestOf
  <2>2. ASSUME NEW j \in 1 .. Len(t) PROVE t[j] \in S \ {id}
    <3>1. t[j] = ids[j + 1] /\ j + 1 \in 2 .. Len(ids) /\ j + 1 \in 1 .. Len(ids)
      BY <1>2, <1>5
    <3> QED BY <1>6, <3>1 DEF NewestOf
  <2>3. ASSUME NEW i \in 1 .. Len(t), NEW j \in 1 .. Len(t), i < j PROVE t[i] < t[j]
    <3>1. /\ t[i] = ids[i + 1] /\ i + 1 \in 1 .. Len(ids)
          /\ t[j] = ids[j + 1] /\ j + 1 \in 1 .. Len(ids)
          /\ i + 1 < j + 1
      BY <1>2, <1>5, <2>3, SMTT(30)
    <3> QED BY <3>1 DEF NewestOf
  <2> QED BY <1>7, <1>8, <2>1, <2>2, <2>3 DEF NewestOf
<1>10. t = <<>> => S = {id}
  <2>1. t = <<>> => \A i : ~listed(t, i)
    BY NothingListed
  <2> QED BY <1>7, <1>8, <2>1
<1> QED BY <1>4, <1>5, <1>7, <1>9, <1>10 DEF t

\* The history after an episode newer than all others begins (Add l.123-131).
LEMMA NewestAppend ==
    ASSUME NEW ids \in Seq(Nat), NEW S, S \subseteq Nat, NewestOf(ids, S),
           NEW n \in Nat, \A i \in S : i < n
    PROVE  /\ tracked(ids, n) \in Seq(Nat) /\ tracked(ids, n) # <<>>
           /\ \A i : listed(tracked(ids, n), i)
                       <=> i = n \/ (listed(ids, i) /\ i \notin untracked(ids))
           /\ NewestOf(tracked(ids, n), S \cup {n})
           /\ untracked(ids) \subseteq S
           /\ Last(tracked(ids, n)) = n
<1> DEFINE t == tracked(ids, n)
<1>1. Len(ids) \in Nat /\ MaxBurstsPerKey \in Nat \ {0}
  BY BurstsAssumption
<1>2. CASE Len(ids) < MaxBurstsPerKey
  <2>1. /\ t \in Seq(Nat) /\ Len(t) = Len(ids) + 1 /\ t # <<>>
        /\ \A j \in 1 .. Len(ids) : t[j] = ids[j]
        /\ t[Len(ids) + 1] = n
    BY <1>1, <1>2 DEF tracked
  <2>2. untracked(ids) = {}
    BY <1>2 DEF untracked
  <2> HIDE DEF t
  <2>3. \A i : listed(t, i) <=> i = n \/ listed(ids, i)
    <3>1. \A j \in 1 .. Len(t) : j \in 1 .. Len(ids) \/ j = Len(ids) + 1
      BY <1>1, <2>1
    <3>2. \A j \in 1 .. Len(ids) : j \in 1 .. Len(t)
      BY <1>1, <2>1
    <3>3. Len(ids) + 1 \in 1 .. Len(t)
      BY <1>1, <2>1
    <3>4. ASSUME NEW i, listed(t, i) PROVE i = n \/ listed(ids, i)
      BY <2>1, <3>1, <3>4 DEF listed
    <3>5. ASSUME NEW i, i = n \/ listed(ids, i) PROVE listed(t, i)
      BY <2>1, <3>2, <3>3, <3>5 DEF listed
    <3> QED BY <3>4, <3>5
  <2>4. NewestOf(t, S \cup {n})
    <3>1. \A i \in S : listed(ids, i)
      BY <1>1, <1>2 DEF NewestOf
    <3>2. ASSUME NEW j \in 1 .. Len(t) PROVE t[j] \in S \cup {n}
      <4>1. j \in 1 .. Len(ids) \/ j = Len(ids) + 1
        BY <1>1, <2>1
      <4> QED BY <2>1, <4>1 DEF NewestOf
    <3>3. ASSUME NEW i \in 1 .. Len(t), NEW j \in 1 .. Len(t), i < j PROVE t[i] < t[j]
      <4>0. Len(t) = Len(ids) + 1
        BY <2>1
      <4>1. i \in 1 .. Len(ids) /\ (j \in 1 .. Len(ids) \/ j = Len(ids) + 1)
        BY <1>1, <3>3, <4>0
      <4>2. t[i] = ids[i] /\ ids[i] \in S
        BY <2>1, <4>1 DEF NewestOf
      <4>3. CASE j = Len(ids) + 1
        BY <2>1, <4>2, <4>3
      <4>4. CASE j \in 1 .. Len(ids)
        BY <2>1, <3>3, <4>1, <4>4 DEF NewestOf
      <4> QED BY <4>1, <4>3, <4>4
    <3>4. Len(t) <= MaxBurstsPerKey
      BY <1>1, <1>2, <2>1
    <3> QED BY <2>3, <3>1, <3>2, <3>3, <3>4 DEF NewestOf
  <2> QED BY <2>1, <2>2, <2>3, <2>4 DEF t, Last
<1>3. CASE ~(Len(ids) < MaxBurstsPerKey)
  <2>0. Len(ids) = MaxBurstsPerKey /\ ids # <<>> /\ Len(Tail(ids)) = Len(ids) - 1
        /\ Tail(ids) \in Seq(Nat) /\ Len(Tail(ids)) \in Nat /\ Head(ids) = ids[1]
        /\ \A j \in 1 .. Len(Tail(ids)) : Tail(ids)[j] = ids[j + 1]
    BY <1>1, <1>3 DEF NewestOf
  <2>1. /\ t \in Seq(Nat) /\ Len(t) = Len(ids) /\ t # <<>>
        /\ \A j \in 1 .. Len(ids) - 1 : t[j] = ids[j + 1] /\ j + 1 \in 1 .. Len(ids)
        /\ t[Len(ids)] = n
    BY <1>1, <1>3, <2>0 DEF tracked
  <2>2. untracked(ids) = {ids[1]} /\ ids[1] \in S
    BY <1>1, <1>3, <2>0 DEF untracked, NewestOf
  <2> HIDE DEF t
  <2>3. \A i : listed(t, i) <=> i = n \/ (listed(ids, i) /\ i # ids[1])
    <3>1. ASSUME NEW i, listed(t, i) PROVE i = n \/ (listed(ids, i) /\ i # ids[1])
      <4>1. PICK j \in 1 .. Len(ids) : t[j] = i
        BY <2>1, <3>1 DEF listed
      <4>2. CASE j = Len(ids)
        BY <2>1, <4>1, <4>2
      <4>3. CASE j # Len(ids)
        <5>1. i = ids[j + 1] /\ j + 1 \in 1 .. Len(ids) /\ 1 < j + 1
          BY <1>1, <2>1, <4>1, <4>3
        <5>2. ids[1] < i
          BY <1>1, <2>0, <5>1 DEF NewestOf
        <5>3. ids[1] \in Nat
          BY <1>1, <2>2
        <5> QED BY <5>1, <5>2, <5>3 DEF listed
      <4> QED BY <4>2, <4>3
    <3>2. ASSUME NEW i, listed(ids, i), i # ids[1] PROVE listed(t, i)
      <4>1. PICK j \in 1 .. Len(ids) : ids[j] = i
        BY <3>2 DEF listed
      <4>2. j - 1 \in 1 .. Len(ids) - 1 /\ (j - 1) + 1 = j
        BY <1>1, <3>2, <4>1
      <4>3. t[j - 1] = i /\ Len(t) = Len(ids)
        BY <2>1, <4>1, <4>2
      <4>4. j - 1 \in 1 .. Len(t)
        BY <1>1, <4>2, <4>3
      <4> QED BY <4>3, <4>4 DEF listed
    <3>3. listed(t, n)
      BY <1>1, <2>0, <2>1 DEF listed
    <3> QED BY <3>1, <3>2, <3>3
  <2>4. NewestOf(t, S \cup {n})
    <3>1. \A j \in 1 .. Len(t) :
            j = Len(ids) \/ (j \in 1 .. Len(ids) - 1 /\ j + 1 \in 1 .. Len(ids))
      BY <1>1, <2>1
    <3>2. ASSUME NEW j \in 1 .. Len(t) PROVE t[j] \in S \cup {n}
      BY <2>1, <3>1 DEF NewestOf
    <3>3. ASSUME NEW i \in 1 .. Len(t), NEW j \in 1 .. Len(t), i < j PROVE t[i] < t[j]
      <4>1. i \in 1 .. Len(ids) - 1 /\ t[i] = ids[i + 1] /\ i + 1 \in 1 .. Len(ids)
        BY <1>1, <2>1, <3>3
      <4>2. ids[i + 1] \in S
        BY <4>1 DEF NewestOf
      <4>3. CASE j = Len(ids)
        BY <2>1, <4>1, <4>2, <4>3
      <4>4. CASE j \in 1 .. Len(ids) - 1 /\ j + 1 \in 1 .. Len(ids)
        <5>1. t[j] = ids[j + 1] /\ i + 1 < j + 1
          BY <2>1, <3>3, <4>4
        <5> QED BY <4>1, <4>4, <5>1 DEF NewestOf
      <4> QED BY <3>1, <4>3, <4>4
    <3>4. Len(t) = MaxBurstsPerKey
      BY <2>0, <2>1
    <3>5. ASSUME NEW i \in S \cup {n} PROVE listed(t, i) \/ i < t[1]
      <4>1. CASE i = n \/ (listed(ids, i) /\ i # ids[1])
        BY <2>3, <4>1
      <4>2. CASE i # n /\ ~(listed(ids, i) /\ i # ids[1])
        <5>0. ids[1] \in Nat /\ i \in S /\ i \in Nat
          BY <2>2, <4>2
        <5>1. i <= ids[1]
          BY <4>2, <5>0 DEF NewestOf
        <5>2. ids[1] < t[1]
          <6>1. CASE Len(ids) = 1
            BY <2>1, <2>2, <6>1
          <6>2. CASE Len(ids) # 1
            <7>1. 1 \in 1 .. Len(ids) - 1 /\ 2 \in 1 .. Len(ids) /\ 1 \in 1 .. Len(ids)
              BY <1>1, <2>0, <6>2
            <7>2. t[1] = ids[2]
              BY <2>1, <7>1
            <7> QED BY <7>1, <7>2 DEF NewestOf
          <6> QED BY <6>1, <6>2
        <5>3. t[1] \in Nat
          BY <2>0, <2>1, <1>1
        <5> QED BY <5>0, <5>1, <5>2, <5>3
      <4> QED BY <4>1, <4>2
    <3> QED BY <3>2, <3>3, <3>4, <3>5, <1>1 DEF NewestOf
  <2> QED BY <2>0, <2>1, <2>2, <2>3, <2>4 DEF t, Last
<1> QED BY <1>2, <1>3

-----------------------------------------------------------------------------
\* evict keeps the dedup history exact when it removes the oldest event.
LEMMA DedupEvict ==
    ASSUME NEW b, PartialFcn(b, Nat, NormalizedEvent),
           NEW d, PartialFcn(d, Key, Seq(Nat)),
           NEW v, PartialFcn(v, Nat, Key),
           DedupExact(b, d, v),
           NEW id \in DOMAIN b, \A i \in DOMAIN b : id <= i
    PROVE  /\ PartialFcn(forget(d, v, id), Key, Seq(Nat))
           /\ DedupExact(Restrict(b, DOMAIN b \ {id}), forget(d, v, id),
                         Restrict(v, DOMAIN v \ {id}))
<1> DEFINE b2 == Restrict(b, DOMAIN b \ {id})
           v2 == Restrict(v, DOMAIN v \ {id})
           d2 == forget(d, v, id)
<1>1. /\ DOMAIN b2 = DOMAIN b \ {id} /\ \A i \in DOMAIN b2 : b2[i] = b[i]
      /\ DOMAIN v2 = DOMAIN v \ {id} /\ \A i \in DOMAIN v2 : v2[i] = v[i]
  BY DEF Restrict
<1>2. \A key : stored(b2, key) = stored(b, key) \ {id}
  BY <1>1 DEF stored
<1>3. DOMAIN b \subseteq Nat /\ \A key : stored(b, key) \subseteq DOMAIN b
  BY DEF PartialFcn, stored
<1>4. \A key \in DOMAIN d : d[key] \in Seq(Nat) /\ key \in Key
  BY DEF PartialFcn
<1> HIDE DEF b2, v2, d2
<1>5. CASE id \notin DOMAIN v
  <2>1. d2 = d
    BY <1>5 DEF forget, d2
  <2>2. \A key \in DOMAIN d : ~listed(d[key], id)
    BY <1>5 DEF DedupExact
  <2>3. \A key \in DOMAIN d : d[key] # <<>> /\ NewestOf(d[key], stored(b2, key))
    <3>1. ASSUME NEW key \in DOMAIN d
          PROVE  d[key] # <<>> /\ NewestOf(d[key], stored(b, key) \ {id})
      <4>1. d[key] # <<>> /\ NewestOf(d[key], stored(b, key))
        BY DEF DedupExact
      <4> QED BY <1>4, <2>2, <4>1, NewestSkip
    <3> QED BY <1>2, <3>1
  <2>4. DedupExact(b2, d, v2)
    BY <1>1, <1>5, <2>2, <2>3 DEF DedupExact
  <2> QED BY <2>1, <2>4 DEF b2, v2, d2
<1>6. CASE id \in DOMAIN v
  <2> DEFINE key == v[id]
             ids == d[key]
  <2>1. key \in DOMAIN d /\ ids \in Seq(Nat) /\ listed(ids, id)
    BY <1>4, <1>6 DEF DedupExact
  <2>2. NewestOf(ids, stored(b, key))
    BY <2>1 DEF DedupExact
  <2>3. id \in stored(b, key)
    BY <2>1, <2>2 DEF NewestOf, listed
  <2>4. stored(b, key) \subseteq Nat /\ \A i \in stored(b, key) : id <= i
    BY <1>3
  <2> HIDE DEF key
  <2>5. /\ ids # <<>> /\ ids[1] = id
        /\ Tail(ids) \in Seq(Nat)
        /\ \A i : listed(Tail(ids), i) <=> listed(ids, i) /\ i # id
        /\ NewestOf(Tail(ids), stored(b2, key))
        /\ Tail(ids) = <<>> => stored(b, key) = {id}
    <3> DEFINE S == stored(b, key)
    <3>1. ids \in Seq(Nat) /\ S \subseteq Nat /\ id \in S /\ (\A i \in S : id <= i)
          /\ NewestOf(ids, S) /\ listed(ids, id)
      BY <2>1, <2>2, <2>3, <2>4
    <3>2. stored(b2, key) = S \ {id}
      BY <1>2
    <3> HIDE DEF S, ids
    <3>3. /\ ids # <<>> /\ ids[1] = id
          /\ Tail(ids) \in Seq(Nat)
          /\ \A i : listed(Tail(ids), i) <=> listed(ids, i) /\ i # id
          /\ NewestOf(Tail(ids), S \ {id})
          /\ Tail(ids) = <<>> => S = {id}
      BY <3>1, NewestTail
    <3> QED BY <3>2, <3>3 DEF S, ids
  <2>6. RemoveFirst(episodes(d, key), id) = Tail(ids)
    BY <2>1, <2>5, RemoveHead DEF episodes
  <2>7. d2 = IF Tail(ids) = <<>> THEN Restrict(d, DOMAIN d \ {key})
             ELSE [d EXCEPT ![key] = Tail(ids)]
    BY <1>6, <2>6 DEF forget, key, d2
  <2>8. \A k \in DOMAIN d : k # key => ~listed(d[k], id)
    BY <1>6 DEF DedupExact, key
  <2>9. \A k \in DOMAIN d : k # key => d[k] # <<>> /\ NewestOf(d[k], stored(b2, k))
    <3>1. ASSUME NEW k \in DOMAIN d, k # key
          PROVE  d[k] # <<>> /\ NewestOf(d[k], stored(b, k) \ {id})
      <4>1. d[k] # <<>> /\ NewestOf(d[k], stored(b, k))
        BY DEF DedupExact
      <4> QED BY <1>4, <2>8, <3>1, <4>1, NewestSkip
    <3> QED BY <1>2, <3>1
  <2>10. /\ \A k \in DOMAIN d2 : k # key => k \in DOMAIN d /\ d2[k] = d[k]
         /\ \A k \in DOMAIN d : k # key => k \in DOMAIN d2 /\ d2[k] = d[k]
         /\ key \in DOMAIN d2 <=> Tail(ids) # <<>>
         /\ key \in DOMAIN d2 => d2[key] = Tail(ids)
    BY <2>1, <2>7 DEF Restrict
  <2>11. PartialFcn(d2, Key, Seq(Nat))
    BY <1>4, <2>1, <2>5, <2>10 DEF PartialFcn
  <2>12. \A k \in DOMAIN d2 : d2[k] # <<>> /\ NewestOf(d2[k], stored(b2, k))
    BY <2>5, <2>9, <2>10
  <2>13. ASSUME NEW i \in DOMAIN b2, b2[i].InvolvedObjectUID # ""
         PROVE  dedupKey(b2[i]) \in DOMAIN d2
    <3>1. i \in DOMAIN b /\ i # id /\ b2[i] = b[i] /\ dedupKey(b[i]) \in DOMAIN d
      BY <1>1, <2>13 DEF DedupExact
    <3>2. CASE dedupKey(b[i]) # key
      BY <2>10, <3>1, <3>2
    <3>3. CASE dedupKey(b[i]) = key
      <4>1. i \in stored(b, key)
        BY <2>13, <3>1, <3>3 DEF stored
      <4> QED BY <2>5, <2>10, <3>1, <3>3, <4>1
    <3> QED BY <3>2, <3>3
  <2>14. ASSUME NEW i \in DOMAIN v2
         PROVE  v2[i] \in DOMAIN d2 /\ listed(d2[v2[i]], i)
    <3>1. i # id /\ v2[i] = v[i] /\ v[i] \in DOMAIN d /\ listed(d[v[i]], i)
      BY <1>1 DEF DedupExact
    <3>2. CASE v[i] # key
      BY <2>10, <3>1, <3>2
    <3>3. CASE v[i] = key
      <4>1. listed(Tail(ids), i)
        BY <2>5, <3>1, <3>3
      <4>2. Tail(ids) # <<>>
        BY <4>1, NothingListed
      <4> QED BY <2>10, <3>1, <3>3, <4>1, <4>2
    <3> QED BY <3>2, <3>3
  <2>15. ASSUME NEW k \in DOMAIN d2, NEW i \in DOMAIN b2, listed(d2[k], i)
         PROVE  i \in DOMAIN v2 /\ v2[i] = k
    <3>1. k \in DOMAIN d /\ listed(d[k], i)
      BY <2>1, <2>5, <2>10, <2>15
    <3>2. i \in DOMAIN b /\ i # id
      BY <1>1
    <3> QED BY <1>1, <3>1, <3>2 DEF DedupExact
  <2>16. DedupExact(b2, d2, v2)
    BY <2>12, <2>13, <2>14, <2>15 DEF DedupExact
  <2> QED BY <2>11, <2>16 DEF b2, v2, d2
<1> QED BY <1>5, <1>6

\* Add keeps the dedup history exact when it inserts an event with a uid under
\* an ID above all others.
LEMMA DedupInsert ==
    ASSUME NEW b, PartialFcn(b, Nat, NormalizedEvent),
           NEW d, PartialFcn(d, Key, Seq(Nat)),
           NEW v, PartialFcn(v, Nat, Key),
           DedupExact(b, d, v),
           NEW n \in Nat, \A i \in DOMAIN b : i < n,
           NEW e \in NormalizedEvent, e.InvolvedObjectUID # ""
    PROVE  LET key == dedupKey(e)
               ids == episodes(d, key)
               d2  == put(d, key, tracked(ids, n))
               v2  == put(Restrict(v, DOMAIN v \ untracked(ids)), n, key)
           IN /\ PartialFcn(d2, Key, Seq(Nat))
              /\ PartialFcn(v2, Nat, Key)
              /\ DedupExact(put(b, n, e), d2, v2)
<1> DEFINE key == dedupKey(e)
           ids == episodes(d, key)
           b2  == put(b, n, e)
           d2  == put(d, key, tracked(ids, n))
           v2  == put(Restrict(v, DOMAIN v \ untracked(ids)), n, key)
<1>0. DOMAIN b \subseteq Nat /\ n \notin DOMAIN b
  <2>1. DOMAIN b \subseteq Nat
    BY DEF PartialFcn
  <2>2. n \notin DOMAIN b
    BY FreshID
  <2> QED BY <2>1, <2>2
<1>1. /\ DOMAIN b2 = DOMAIN b \cup {n} /\ b2[n] = e /\ \A i \in DOMAIN b : b2[i] = b[i]
      /\ n \notin DOMAIN b /\ DOMAIN b \subseteq Nat
  BY <1>0 DEF put
<1>2. /\ DOMAIN d2 = DOMAIN d \cup {key} /\ d2[key] = tracked(ids, n)
      /\ \A k \in DOMAIN d : k # key => d2[k] = d[k]
  BY DEF put
<1>3. /\ DOMAIN v2 = (DOMAIN v \ untracked(ids)) \cup {n} /\ v2[n] = key
      /\ \A i \in DOMAIN v2 : i # n => i \in DOMAIN v /\ v2[i] = v[i]
  BY DEF put, Restrict
<1> HIDE DEF b2, d2, v2
<1>4. key \in Key
  BY DEF dedupKey, Key, NormalizedEvent
<1> HIDE DEF key, ids
<1>5. \A k \in DOMAIN d : d[k] \in Seq(Nat) /\ k \in Key
  BY DEF PartialFcn
<1>6. \A k : stored(b2, k) = IF k = key THEN stored(b, k) \cup {n} ELSE stored(b, k)
  BY <1>1 DEF stored, key
<1>7. stored(b, key) \subseteq Nat /\ \A i \in stored(b, key) : i < n
  BY <1>1 DEF stored
<1>8. ids \in Seq(Nat) /\ NewestOf(ids, stored(b, key))
  <2>1. CASE key \in DOMAIN d
    BY <1>5, <2>1 DEF episodes, DedupExact, ids
  <2>2. CASE key \notin DOMAIN d
    <3>1. stored(b, key) = {}
      BY <2>2 DEF DedupExact, stored
    <3>2. ids = <<>>
      BY <2>2 DEF episodes, ids
    <3> QED BY <3>1, <3>2, EmptyHistory
  <2> QED BY <2>1, <2>2
<1>9. /\ tracked(ids, n) \in Seq(Nat) /\ tracked(ids, n) # <<>>
      /\ \A i : listed(tracked(ids, n), i)
                  <=> i = n \/ (listed(ids, i) /\ i \notin untracked(ids))
      /\ NewestOf(tracked(ids, n), stored(b, key) \cup {n})
      /\ untracked(ids) \subseteq stored(b, key)
  <2> DEFINE S == stored(b, key)
  <2>1. ids \in Seq(Nat) /\ S \subseteq Nat /\ NewestOf(ids, S) /\ \A i \in S : i < n
    BY <1>7, <1>8
  <2> HIDE DEF S
  <2>2. /\ tracked(ids, n) \in Seq(Nat) /\ tracked(ids, n) # <<>>
        /\ \A i : listed(tracked(ids, n), i)
                    <=> i = n \/ (listed(ids, i) /\ i \notin untracked(ids))
        /\ NewestOf(tracked(ids, n), S \cup {n})
        /\ untracked(ids) \subseteq S
    BY <2>1, NewestAppend
  <2> QED BY <2>2 DEF S
<1>10. PartialFcn(d2, Key, Seq(Nat))
  BY <1>2, <1>4, <1>5, <1>9 DEF PartialFcn
<1>11. PartialFcn(v2, Nat, Key)
  BY <1>3, <1>4 DEF PartialFcn
<1>12. \A k \in DOMAIN d2 : d2[k] # <<>> /\ NewestOf(d2[k], stored(b2, k))
  BY <1>2, <1>6, <1>9 DEF DedupExact
<1>13. \A i \in DOMAIN b2 : b2[i].InvolvedObjectUID # "" => dedupKey(b2[i]) \in DOMAIN d2
  BY <1>1, <1>2 DEF DedupExact, key
<1>14. \A k \in DOMAIN d : k # key => \A i : listed(d[k], i) => i \in DOMAIN b /\ dedupKey(b[i]) = k
  <2>1. \A k \in DOMAIN d : NewestOf(d[k], stored(b, k))
    BY DEF DedupExact
  <2>2. \A k \in DOMAIN d : \A i : listed(d[k], i) => i \in stored(b, k)
    BY <2>1, ListedStored
  <2> QED BY <2>2 DEF stored
<1>15. \A i \in untracked(ids) : dedupKey(b[i]) = key /\ i \in DOMAIN b
  BY <1>9 DEF stored
<1>16. ASSUME NEW i \in DOMAIN v2
       PROVE  v2[i] \in DOMAIN d2 /\ listed(d2[v2[i]], i)
  <2>1. CASE i = n
    BY <1>2, <1>3, <1>9, <2>1
  <2>2. CASE i # n
    <3>1. i \in DOMAIN v /\ i \notin untracked(ids) /\ v2[i] = v[i] /\ v[i] \in DOMAIN d
          /\ listed(d[v[i]], i)
      BY <1>3, <2>2 DEF DedupExact
    <3>2. v[i] = key => listed(ids, i)
      BY <3>1 DEF episodes, ids
    <3> QED BY <1>2, <1>9, <3>1, <3>2
  <2> QED BY <2>1, <2>2
<1>17. ASSUME NEW k \in DOMAIN d2, NEW i \in DOMAIN b2, listed(d2[k], i)
       PROVE  i \in DOMAIN v2 /\ v2[i] = k
  <2>1. CASE k = key
    <3>1. i = n \/ (listed(ids, i) /\ i \notin untracked(ids) /\ i # n)
      BY <1>2, <1>9, <1>17, <2>1
    <3>2. CASE i = n
      BY <1>3, <2>1, <3>2
    <3>3. CASE listed(ids, i) /\ i \notin untracked(ids) /\ i # n
      <4>1. key \in DOMAIN d /\ ids = d[key]
        BY <3>3, NothingListed DEF episodes, ids
      <4>2. i \in DOMAIN v /\ v[i] = key
        BY <1>1, <3>3, <4>1 DEF DedupExact
      <4> QED BY <1>3, <2>1, <3>3, <4>2
    <3> QED BY <3>1, <3>2, <3>3
  <2>2. CASE k # key
    <3>1. k \in DOMAIN d /\ listed(d[k], i)
      BY <1>2, <1>17, <2>2
    <3>2. i \in DOMAIN b /\ dedupKey(b[i]) = k
      BY <1>14, <2>2, <3>1
    <3>3. i \in DOMAIN v /\ v[i] = k
      BY <3>1, <3>2 DEF DedupExact
    <3>4. i # n /\ i \notin untracked(ids)
      BY <1>1, <1>15, <2>2, <3>2
    <3> QED BY <1>3, <3>3, <3>4
  <2> QED BY <2>1, <2>2
<1>18. DedupExact(b2, d2, v2)
  BY <1>12, <1>13, <1>16, <1>17 DEF DedupExact
<1> QED BY <1>10, <1>11, <1>18 DEF key, ids, b2, d2, v2

\* An event without a uid leaves the dedup history alone.
LEMMA DedupInsertNoUID ==
    ASSUME NEW b, PartialFcn(b, Nat, NormalizedEvent),
           NEW d, NEW v, PartialFcn(v, Nat, Key), DedupExact(b, d, v),
           NEW n \in Nat, \A i \in DOMAIN b : i < n,
           NEW e, e.InvolvedObjectUID = ""
    PROVE  DedupExact(put(b, n, e), d, v)
<1> DEFINE b2 == put(b, n, e)
<1>0. n \notin DOMAIN b
  BY FreshID
<1>1. /\ DOMAIN b2 = DOMAIN b \cup {n} /\ b2[n] = e /\ \A i \in DOMAIN b : b2[i] = b[i]
      /\ n \notin DOMAIN b
  BY <1>0 DEF put
<1> HIDE DEF b2
<1>2. \A k : stored(b2, k) = stored(b, k)
  BY <1>1 DEF stored
<1>3. \A k \in DOMAIN d : ~listed(d[k], n)
  <2>1. \A k \in DOMAIN d : NewestOf(d[k], stored(b, k)) /\ n \notin stored(b, k)
    BY <1>1 DEF DedupExact, stored
  <2> QED BY <2>1, ListedStored
<1>4. DedupExact(b2, d, v)
  BY <1>1, <1>2, <1>3 DEF DedupExact
<1> QED BY <1>4 DEF b2

-----------------------------------------------------------------------------
(***************************************************************************)
(* The inductive invariant.  RingWindow says which event order[head] is,   *)
(* so that evict always removes the oldest one; DedupTracksLatest needs    *)
(* exactly that, and IndexesExact needs that the evicted event is stored.  *)
(***************************************************************************)
IInv == TypeOK /\ RingWindow /\ IndexesExact /\ DedupTracksLatest

\* An in-place update keeps an event's identity and its type.
LEMMA UpdatedEvent ==
    ASSUME NEW x \in NormalizedEvent, NEW e \in NormalizedEvent
    PROVE  /\ updated(x, e) \in NormalizedEvent
           /\ updated(x, e).Namespace = x.Namespace
           /\ updated(x, e).InvolvedObjectUID = x.InvolvedObjectUID
           /\ updated(x, e).Reason = x.Reason
           /\ updated(x, e).Count = e.Count
           /\ updated(x, e).LastSeen = IF e.LastSeen > x.LastSeen THEN e.LastSeen ELSE x.LastSeen
           /\ updated(x, e).Message = IF e.LastSeen > x.LastSeen THEN e.Message ELSE x.Message
           /\ updated(x, e).FirstSeen
                = IF e.FirstSeen # 0 /\ (x.FirstSeen = 0 \/ e.FirstSeen < x.FirstSeen)
                  THEN e.FirstSeen ELSE x.FirstSeen
           /\ updated(x, e).OwnerChain = IF Len(e.OwnerChain) > 0 THEN e.OwnerChain ELSE x.OwnerChain
BY DEF NormalizedEvent, updated

\* The type of an exact index.
LEMMA IndexType ==
    ASSUME NEW D, D \subseteq Nat, NEW f, DOMAIN f = D, \A i \in D : f[i] \in STRING
    PROVE  PartialFcn(IndexOf(f), STRING, SUBSET Nat)
BY DEF IndexOf, PartialFcn

\* An index only depends on the values of its field.
LEMMA IndexesTyped ==
    ASSUME PartialFcn(byID, Nat, NormalizedEvent), IndexesExact
    PROVE  /\ PartialFcn(byNamespace, STRING, SUBSET Nat)
           /\ PartialFcn(byUID, STRING, SUBSET Nat)
           /\ PartialFcn(byReason, STRING, SUBSET Nat)
<1> DEFINE D == DOMAIN byID
           fn == [i \in D |-> byID[i].Namespace]
           fu == [i \in D |-> byID[i].InvolvedObjectUID]
           fr == [i \in D |-> byID[i].Reason]
<1>1. D \subseteq Nat /\ \A i \in D : byID[i] \in NormalizedEvent
  BY DEF PartialFcn
<1>2. /\ DOMAIN fn = D /\ \A i \in D : fn[i] \in STRING
      /\ DOMAIN fu = D /\ \A i \in D : fu[i] \in STRING
      /\ DOMAIN fr = D /\ \A i \in D : fr[i] \in STRING
  BY <1>1 DEF NormalizedEvent
<1>3. byNamespace = IndexOf(fn) /\ byUID = IndexOf(fu) /\ byReason = IndexOf(fr)
  BY DEF IndexesExact
<1> HIDE DEF D, fn, fu, fr
<1> QED BY <1>1, <1>2, <1>3, IndexType

LEMMA InitInv == Init => IInv
<1> SUFFICES ASSUME Init PROVE IInv
  OBVIOUS
<1>1. maxSize \in Nat \ {0}
  BY MaxSizePositive
<1>2. DOMAIN emptyMap = {}
  BY DEF emptyMap
<1>3. RingWindow
  BY <1>1, <1>2 DEF Init, RingWindow, oldest
<1>4. IndexesExact
  BY <1>2 DEF Init, IndexesExact, IndexOf, emptyMap
<1>5. DedupTracksLatest
  BY <1>2 DEF Init, DedupTracksLatest, DedupExact
<1>6. TypeOK
  <2>1. head \in 0 .. maxSize - 1 /\ nextID \in Nat
    BY <1>1 DEF Init
  <2>4. full \in BOOLEAN
    BY Zenon DEF Init
  <2>2. order \in [0 .. maxSize - 1 -> Nat]
    BY DEF Init
  <2>3. \A S, T : PartialFcn(emptyMap, S, T)
    BY <1>2 DEF PartialFcn
  <2> QED BY <2>1, <2>2, <2>3, <2>4 DEF Init, TypeOK
<1> QED BY <1>3, <1>4, <1>5, <1>6 DEF IInv

\* Add's update path only changes an event in place.
LEMMA UpdateInv ==
    ASSUME IInv, NEW e \in NormalizedEvent, Update(e)
    PROVE  IInv'
<1> DEFINE id == latestID(e)
<1>1. /\ PartialFcn(byID, Nat, NormalizedEvent) /\ e \in NormalizedEvent
      /\ id \in DOMAIN byID /\ byID[id] \in NormalizedEvent
  BY DEF IInv, TypeOK, PartialFcn, Update, Continues
<1>2. byID' = [byID EXCEPT ![id] = updated(byID[id], e)]
  BY DEF Update
<1> HIDE DEF id
<1>3. /\ DOMAIN byID' = DOMAIN byID
      /\ \A i \in DOMAIN byID :
           /\ byID'[i] \in NormalizedEvent
           /\ byID'[i].Namespace = byID[i].Namespace
           /\ byID'[i].InvolvedObjectUID = byID[i].InvolvedObjectUID
           /\ byID'[i].Reason = byID[i].Reason
  BY <1>1, <1>2, UpdatedEvent DEF PartialFcn
<1>4. UNCHANGED <<order, head, full, nextID, dedupIdx, evictIdx, byNamespace, byUID, byReason>>
  BY DEF Update
<1>5. PartialFcn(byID', Nat, NormalizedEvent)
  BY <1>1, <1>3 DEF PartialFcn
<1>6. TypeOK'
  BY <1>4, <1>5 DEF IInv, TypeOK
<1>7. RingWindow'
  BY <1>3, <1>4 DEF IInv, RingWindow, oldest, maxSize
<1>8. IndexesExact'
  <2>1. /\ [i \in DOMAIN byID' |-> byID'[i].Namespace] = [i \in DOMAIN byID |-> byID[i].Namespace]
        /\ [i \in DOMAIN byID' |-> byID'[i].InvolvedObjectUID]
             = [i \in DOMAIN byID |-> byID[i].InvolvedObjectUID]
        /\ [i \in DOMAIN byID' |-> byID'[i].Reason] = [i \in DOMAIN byID |-> byID[i].Reason]
    BY <1>3
  <2> QED BY <1>4, <2>1 DEF IInv, IndexesExact
<1>9. DedupTracksLatest'
  <2>1. \A i \in DOMAIN byID : dedupKey(byID'[i]) = dedupKey(byID[i])
    BY <1>3 DEF dedupKey
  <2>2. \A key : stored(byID', key) = stored(byID, key)
    BY <1>3, <2>1 DEF stored
  <2>3. DedupExact(byID, dedupIdx, evictIdx)
    BY DEF IInv, DedupTracksLatest
  <2>4. DedupExact(byID', dedupIdx, evictIdx)
    BY <1>3, <2>1, <2>2, <2>3 DEF DedupExact
  <2> QED BY <1>4, <2>4 DEF DedupTracksLatest
<1> QED BY <1>6, <1>7, <1>8, <1>9 DEF IInv

\* The maps Add inserts into: when the ring is full, order[head] is the oldest
\* stored event and evict removes it and nothing else from every map.
LEMMA AfterEvict ==
    ASSUME IInv, NEW m, m = IF full THEN evict(order[head]) ELSE maps
    PROVE  /\ DOMAIN m.byID = {i \in DOMAIN byID : i > nextID - maxSize}
           /\ \A i \in DOMAIN m.byID : m.byID[i] = byID[i]
           /\ PartialFcn(m.byID, Nat, NormalizedEvent)
           /\ PartialFcn(m.dedupIdx, Key, Seq(Nat))
           /\ PartialFcn(m.evictIdx, Nat, Key)
           /\ DedupExact(m.byID, m.dedupIdx, m.evictIdx)
           /\ m.byNamespace = IndexOf([i \in DOMAIN m.byID |-> m.byID[i].Namespace])
           /\ m.byUID = IndexOf([i \in DOMAIN m.byID |-> m.byID[i].InvolvedObjectUID])
           /\ m.byReason = IndexOf([i \in DOMAIN m.byID |-> m.byID[i].Reason])
<1>0. maxSize \in Nat \ {0} /\ nextID \in Nat /\ head \in 0 .. maxSize - 1
  BY MaxSizePositive DEF IInv, TypeOK
<1>1. DOMAIN byID = oldest .. nextID - 1 /\ (full <=> nextID >= maxSize)
  BY DEF IInv, RingWindow
<1>2. CASE ~full
  <2>1. m = maps
    BY <1>2
  <2>2. DOMAIN byID = {i \in DOMAIN byID : i > nextID - maxSize}
    BY <1>0, <1>1, <1>2 DEF oldest
  <2> QED BY <2>1, <2>2 DEF maps, IInv, TypeOK, IndexesExact, DedupTracksLatest
<1>3. CASE full
  <2> DEFINE id == nextID - maxSize
  <2>1. order[head] = id
    BY <1>0, <1>3 DEF IInv, RingWindow
  <2>2. id \in DOMAIN byID /\ id \in Nat /\ DOMAIN byID = id .. nextID - 1
    BY <1>0, <1>1, <1>3 DEF oldest
  <2>3. \A i \in DOMAIN byID : id <= i
    BY <1>0, <2>2
  <2>4. DOMAIN byID \ {id} = {i \in DOMAIN byID : i > nextID - maxSize}
    BY <1>0, <2>2
  <2> HIDE DEF id
  <2>5. /\ m.byID = Restrict(byID, DOMAIN byID \ {id})
        /\ m.dedupIdx = forget(dedupIdx, evictIdx, id)
        /\ m.evictIdx = Restrict(evictIdx, DOMAIN evictIdx \ {id})
        /\ m.byNamespace = removeFromIndex(byNamespace, byID[id].Namespace, id)
        /\ m.byUID = removeFromIndex(byUID, byID[id].InvolvedObjectUID, id)
        /\ m.byReason = removeFromIndex(byReason, byID[id].Reason, id)
    BY <1>3, <2>1, <2>2 DEF evict
  <2>6. /\ DOMAIN m.byID = DOMAIN byID \ {id} /\ \A i \in DOMAIN m.byID : m.byID[i] = byID[i]
        /\ DOMAIN m.evictIdx = DOMAIN evictIdx \ {id}
        /\ \A i \in DOMAIN m.evictIdx : m.evictIdx[i] = evictIdx[i]
    BY <2>5 DEF Restrict
  <2>7. /\ PartialFcn(byID, Nat, NormalizedEvent) /\ PartialFcn(dedupIdx, Key, Seq(Nat))
        /\ PartialFcn(evictIdx, Nat, Key) /\ DedupExact(byID, dedupIdx, evictIdx)
    BY DEF IInv, TypeOK, DedupTracksLatest
  <2>8. PartialFcn(m.byID, Nat, NormalizedEvent) /\ PartialFcn(m.evictIdx, Nat, Key)
    BY <2>6, <2>7 DEF PartialFcn
  <2>9. PartialFcn(m.dedupIdx, Key, Seq(Nat)) /\ DedupExact(m.byID, m.dedupIdx, m.evictIdx)
    <3>1. /\ PartialFcn(forget(dedupIdx, evictIdx, id), Key, Seq(Nat))
          /\ DedupExact(Restrict(byID, DOMAIN byID \ {id}), forget(dedupIdx, evictIdx, id),
                        Restrict(evictIdx, DOMAIN evictIdx \ {id}))
      BY <2>2, <2>3, <2>7, DedupEvict
    <3> QED BY <2>5, <3>1
  <2>10. m.byNamespace = IndexOf([i \in DOMAIN m.byID |-> m.byID[i].Namespace])
    <3> DEFINE f == [i \in DOMAIN byID |-> byID[i].Namespace]
    <3>1. DOMAIN f = DOMAIN byID /\ f[id] = byID[id].Namespace /\ byNamespace = IndexOf(f)
      BY <2>2 DEF IInv, IndexesExact
    <3>2. Restrict(f, DOMAIN f \ {id}) = [i \in DOMAIN m.byID |-> m.byID[i].Namespace]
      BY <2>6 DEF Restrict
    <3> HIDE DEF f
    <3>3. removeFromIndex(IndexOf(f), f[id], id) = IndexOf(Restrict(f, DOMAIN f \ {id}))
      BY <2>2, <3>1, IndexRemove
    <3> QED BY <2>5, <3>1, <3>2, <3>3
  <2>11. m.byUID = IndexOf([i \in DOMAIN m.byID |-> m.byID[i].InvolvedObjectUID])
    <3> DEFINE f == [i \in DOMAIN byID |-> byID[i].InvolvedObjectUID]
    <3>1. DOMAIN f = DOMAIN byID /\ f[id] = byID[id].InvolvedObjectUID /\ byUID = IndexOf(f)
      BY <2>2 DEF IInv, IndexesExact
    <3>2. Restrict(f, DOMAIN f \ {id}) = [i \in DOMAIN m.byID |-> m.byID[i].InvolvedObjectUID]
      BY <2>6 DEF Restrict
    <3> HIDE DEF f
    <3>3. removeFromIndex(IndexOf(f), f[id], id) = IndexOf(Restrict(f, DOMAIN f \ {id}))
      BY <2>2, <3>1, IndexRemove
    <3> QED BY <2>5, <3>1, <3>2, <3>3
  <2>12. m.byReason = IndexOf([i \in DOMAIN m.byID |-> m.byID[i].Reason])
    <3> DEFINE f == [i \in DOMAIN byID |-> byID[i].Reason]
    <3>1. DOMAIN f = DOMAIN byID /\ f[id] = byID[id].Reason /\ byReason = IndexOf(f)
      BY <2>2 DEF IInv, IndexesExact
    <3>2. Restrict(f, DOMAIN f \ {id}) = [i \in DOMAIN m.byID |-> m.byID[i].Reason]
      BY <2>6 DEF Restrict
    <3> HIDE DEF f
    <3>3. removeFromIndex(IndexOf(f), f[id], id) = IndexOf(Restrict(f, DOMAIN f \ {id}))
      BY <2>2, <3>1, IndexRemove
    <3> QED BY <2>5, <3>1, <3>2, <3>3
  <2> QED BY <2>4, <2>6, <2>8, <2>9, <2>10, <2>11, <2>12
<1> QED BY <1>2, <1>3

\* Add's insert path.
LEMMA InsertInv ==
    ASSUME IInv, NEW e \in NormalizedEvent, Insert(e)
    PROVE  IInv'
<1> DEFINE m == IF full THEN evict(order[head]) ELSE maps
           ids == episodes(m.dedupIdx, dedupKey(e))
           id == nextID
<1>1. /\ maxSize \in Nat \ {0} /\ nextID \in Nat /\ head \in 0 .. maxSize - 1
      /\ order \in [0 .. maxSize - 1 -> Nat] /\ e \in NormalizedEvent
  BY MaxSizePositive DEF IInv, TypeOK
<1>2. /\ DOMAIN m.byID = {i \in DOMAIN byID : i > nextID - maxSize}
      /\ \A i \in DOMAIN m.byID : m.byID[i] = byID[i]
      /\ PartialFcn(m.byID, Nat, NormalizedEvent)
      /\ PartialFcn(m.dedupIdx, Key, Seq(Nat))
      /\ PartialFcn(m.evictIdx, Nat, Key)
      /\ DedupExact(m.byID, m.dedupIdx, m.evictIdx)
      /\ m.byNamespace = IndexOf([i \in DOMAIN m.byID |-> m.byID[i].Namespace])
      /\ m.byUID = IndexOf([i \in DOMAIN m.byID |-> m.byID[i].InvolvedObjectUID])
      /\ m.byReason = IndexOf([i \in DOMAIN m.byID |-> m.byID[i].Reason])
  BY AfterEvict
<1>3. /\ nextID' = nextID + 1
      /\ order' = [order EXCEPT ![head] = id]
      /\ head' = nextSlot(head)
      /\ full' = (full \/ wraps(head))
      /\ byID' = put(m.byID, id, e)
  BY DEF Insert
<1>4. /\ byNamespace' = addToIndex(m.byNamespace, e.Namespace, id)
      /\ byUID' = addToIndex(m.byUID, e.InvolvedObjectUID, id)
      /\ byReason' = addToIndex(m.byReason, e.Reason, id)
  BY DEF Insert
<1>5. \/ /\ e.InvolvedObjectUID # ""
         /\ dedupIdx' = put(m.dedupIdx, dedupKey(e), tracked(ids, id))
         /\ evictIdx' = put(Restrict(m.evictIdx, DOMAIN m.evictIdx \ untracked(ids)), id, dedupKey(e))
      \/ e.InvolvedObjectUID = "" /\ dedupIdx' = m.dedupIdx /\ evictIdx' = m.evictIdx
  BY DEF Insert
<1>6. DOMAIN byID = oldest .. nextID - 1 /\ (full <=> nextID >= maxSize)
  BY DEF IInv, RingWindow
<1>7. (\A i \in DOMAIN m.byID : i < id) /\ id \notin DOMAIN m.byID
  BY <1>1, <1>2, <1>6 DEF oldest
<1> HIDE DEF m, ids
<1>8. RingWindow'
  <2>1. head' = IF head + 1 = maxSize THEN 0 ELSE head + 1
    BY <1>1, <1>3, NextSlot
  <2>2. full' <=> nextID' >= maxSize
    <3>1. wraps(head) <=> head + 1 = maxSize
      BY <1>1, <1>3, <2>1 DEF wraps
    <3>2. ~full => head = nextID
      BY DEF IInv, RingWindow
    <3>3. full' <=> full \/ head + 1 = maxSize
      BY <1>3, <3>1, Zenon
    <3>4. CASE full
      BY <1>1, <1>3, <1>6, <3>3, <3>4
    <3>5. CASE ~full
      BY <1>1, <1>3, <1>6, <3>2, <3>3, <3>5
    <3> QED BY <3>4, <3>5
  <2>3. DOMAIN byID' = oldest' .. nextID' - 1
    <3>1. DOMAIN byID' = DOMAIN m.byID \cup {id}
      BY <1>3 DEF put
    <3>2. oldest' = IF nextID + 1 <= maxSize THEN 0 ELSE nextID + 1 - maxSize
      <4>1. oldest' = IF nextID' <= maxSize THEN 0 ELSE nextID' - maxSize
        BY DEF oldest
      <4>2. nextID' = nextID + 1
        BY <1>3
      <4> QED BY <1>1, <4>1, <4>2
    <3>3. DOMAIN m.byID = {i \in oldest .. nextID - 1 : i > nextID - maxSize}
      BY <1>2, <1>6
    <3> QED BY <1>1, <1>3, <3>1, <3>2, <3>3 DEF oldest
  <2>4. ~full' => head' = nextID'
    BY <1>1, <1>3, <1>6, <2>1, <2>2 DEF IInv, RingWindow
  <2>5. order'[head] = nextID /\ \A s \in 0 .. maxSize - 1 : s # head => order'[s] = order[s]
    BY <1>1, <1>3
  <2>6. /\ \A s \in 0 .. head - 1 : order[s] = nextID - head + s
        /\ full => \A s \in head .. maxSize - 1 : order[s] = nextID - head + s - maxSize
        /\ ~full => head = nextID
    BY DEF IInv, RingWindow
  <2>7. \A s \in 0 .. head' - 1 : order'[s] = nextID' - head' + s
    <3>1. CASE head + 1 = maxSize
      BY <1>1, <2>1, <3>1
    <3>2. CASE head + 1 # maxSize
      <4>1. ASSUME NEW s \in 0 .. head PROVE order'[s] = nextID - head + s
        <5>1. CASE s = head
          BY <1>1, <2>5, <5>1
        <5>2. CASE s # head
          BY <1>1, <2>5, <2>6, <5>2
        <5> QED BY <5>1, <5>2
      <4>2. head' - 1 = head /\ nextID' - head' = nextID - head
        BY <1>1, <1>3, <2>1, <3>2
      <4> QED BY <4>1, <4>2
    <3> QED BY <3>1, <3>2
  <2>8. full' => \A s \in head' .. maxSize - 1 : order'[s] = nextID' - head' + s - maxSize
    <3>1. CASE head + 1 = maxSize
      <4>1. ASSUME NEW s \in 0 .. maxSize - 1
            PROVE order'[s] = nextID + 1 + s - maxSize
        <5>1. CASE s = head
          BY <1>1, <2>5, <3>1, <5>1
        <5>2. CASE s # head
          <6>1. s \in 0 .. head - 1 /\ head = maxSize - 1
            BY <1>1, <3>1, <5>2
          <6>2. order'[s] = nextID - head + s
            BY <2>5, <2>6, <5>2, <6>1
          <6> QED BY <1>1, <6>1, <6>2
        <5> QED BY <5>1, <5>2
      <4>2. head' = 0 /\ nextID' - head' = nextID + 1
        BY <1>1, <1>3, <2>1, <3>1
      <4> QED BY <1>1, <4>1, <4>2
    <3>2. CASE head + 1 # maxSize
      <4>0. head' = head + 1 /\ head' # 0 /\ nextID' - head' = nextID - head
        BY <1>1, <1>3, <2>1, <3>2
      <4>1. full' => full
        <5>1. ~wraps(head)
          BY <1>3, <4>0 DEF wraps
        <5> QED BY <1>3, <5>1, Zenon
      <4>2. ASSUME full, NEW s \in head + 1 .. maxSize - 1
            PROVE order'[s] = nextID - head + s - maxSize
        <5>1. s \in head .. maxSize - 1 /\ s \in 0 .. maxSize - 1 /\ s # head
          BY <1>1
        <5> QED BY <2>5, <2>6, <4>2, <5>1
      <4> QED BY <4>0, <4>1, <4>2
    <3> QED BY <3>1, <3>2
  <2>9. maxSize' = maxSize
    BY DEF maxSize
  <2> QED BY <2>2, <2>3, <2>4, <2>7, <2>8, <2>9 DEF RingWindow
<1>9. PartialFcn(byID', Nat, NormalizedEvent)
  BY <1>1, <1>2, <1>3 DEF PartialFcn, put
<1>10. IndexesExact'
  <2>1. byNamespace' = IndexOf([i \in DOMAIN byID' |-> byID'[i].Namespace])
    <3> DEFINE f == [i \in DOMAIN m.byID |-> m.byID[i].Namespace]
    <3>1. DOMAIN f = DOMAIN m.byID /\ m.byNamespace = IndexOf(f)
      BY <1>2
    <3>2. put(f, id, e.Namespace)
            = [i \in DOMAIN byID' |-> byID'[i].Namespace]
      BY <1>3, <1>7 DEF put
    <3> HIDE DEF f
    <3>3. addToIndex(IndexOf(f), e.Namespace, id)
            = IndexOf(put(f, id, e.Namespace))
      BY <1>7, <3>1, IndexAdd
    <3> QED BY <1>4, <3>1, <3>2, <3>3
  <2>2. byUID' = IndexOf([i \in DOMAIN byID' |-> byID'[i].InvolvedObjectUID])
    <3> DEFINE f == [i \in DOMAIN m.byID |-> m.byID[i].InvolvedObjectUID]
    <3>1. DOMAIN f = DOMAIN m.byID /\ m.byUID = IndexOf(f)
      BY <1>2
    <3>2. put(f, id, e.InvolvedObjectUID)
            = [i \in DOMAIN byID' |-> byID'[i].InvolvedObjectUID]
      BY <1>3, <1>7 DEF put
    <3> HIDE DEF f
    <3>3. addToIndex(IndexOf(f), e.InvolvedObjectUID, id)
            = IndexOf(put(f, id, e.InvolvedObjectUID))
      BY <1>7, <3>1, IndexAdd
    <3> QED BY <1>4, <3>1, <3>2, <3>3
  <2>3. byReason' = IndexOf([i \in DOMAIN byID' |-> byID'[i].Reason])
    <3> DEFINE f == [i \in DOMAIN m.byID |-> m.byID[i].Reason]
    <3>1. DOMAIN f = DOMAIN m.byID /\ m.byReason = IndexOf(f)
      BY <1>2
    <3>2. put(f, id, e.Reason)
            = [i \in DOMAIN byID' |-> byID'[i].Reason]
      BY <1>3, <1>7 DEF put
    <3> HIDE DEF f
    <3>3. addToIndex(IndexOf(f), e.Reason, id)
            = IndexOf(put(f, id, e.Reason))
      BY <1>7, <3>1, IndexAdd
    <3> QED BY <1>4, <3>1, <3>2, <3>3
  <2> QED BY <2>1, <2>2, <2>3 DEF IndexesExact
<1>11. /\ PartialFcn(dedupIdx', Key, Seq(Nat)) /\ PartialFcn(evictIdx', Nat, Key)
       /\ DedupExact(byID', dedupIdx', evictIdx')
  <2> DEFINE b == m.byID
             d == m.dedupIdx
             v == m.evictIdx
  <2>0. /\ PartialFcn(b, Nat, NormalizedEvent) /\ PartialFcn(d, Key, Seq(Nat))
        /\ PartialFcn(v, Nat, Key) /\ DedupExact(b, d, v)
        /\ id \in Nat /\ (\A i \in DOMAIN b : i < id) /\ e \in NormalizedEvent
        /\ byID' = put(b, id, e)
    BY <1>1, <1>2, <1>3, <1>7
  <2>1. CASE e.InvolvedObjectUID # ""
    <3>1. /\ ids = episodes(d, dedupKey(e))
          /\ dedupIdx' = put(d, dedupKey(e), tracked(ids, id))
          /\ evictIdx' = put(Restrict(v, DOMAIN v \ untracked(ids)), id, dedupKey(e))
      BY <1>5, <2>1 DEF ids
    <3> HIDE DEF b, d, v, id
    <3> QED BY <2>0, <2>1, <3>1, DedupInsert
  <2>2. CASE e.InvolvedObjectUID = ""
    <3>1. dedupIdx' = d /\ evictIdx' = v
      BY <1>5, <2>2
    <3> HIDE DEF b, d, v, id
    <3>2. DedupExact(put(b, id, e), d, v)
      BY <2>0, <2>2, DedupInsertNoUID
    <3> QED BY <2>0, <3>1, <3>2
  <2> QED BY <2>1, <2>2
<1>12. DedupTracksLatest'
  BY <1>11 DEF DedupTracksLatest
<1>13. TypeOK'
  <2>1. order' \in [0 .. maxSize - 1 -> Nat] /\ head' \in 0 .. maxSize - 1
        /\ nextID' \in Nat /\ full' \in BOOLEAN
    <3>1. head' \in 0 .. maxSize - 1
      BY <1>1, <1>3, NextSlot
    <3>2. full' \in BOOLEAN
      BY <1>3, Zenon
    <3> QED BY <1>1, <1>3, <3>1, <3>2
  <2>2. /\ PartialFcn(byNamespace', STRING, SUBSET Nat)
        /\ PartialFcn(byUID', STRING, SUBSET Nat)
        /\ PartialFcn(byReason', STRING, SUBSET Nat)
    <3>1. (PartialFcn(byID, Nat, NormalizedEvent) /\ IndexesExact =>
             /\ PartialFcn(byNamespace, STRING, SUBSET Nat)
             /\ PartialFcn(byUID, STRING, SUBSET Nat)
             /\ PartialFcn(byReason, STRING, SUBSET Nat))'
      BY IndexesTyped, PTL
    <3> QED BY <1>9, <1>10, <3>1 DEF PartialFcn
  <2> QED BY <1>9, <1>11, <2>1, <2>2 DEF TypeOK, maxSize
<1> QED BY <1>8, <1>10, <1>12, <1>13 DEF IInv

LEMMA NextInv == IInv /\ [Next]_vars => IInv'
<1> SUFFICES ASSUME IInv, [Next]_vars PROVE IInv'
  OBVIOUS
<1>1. ASSUME NEW e \in Incoming, Update(e) PROVE IInv'
  BY <1>1, UpdateInv, IncomingAssumption
<1>2. ASSUME NEW e \in Incoming, Insert(e) PROVE IInv'
  BY <1>2, InsertInv, IncomingAssumption
<1>3. CASE UNCHANGED vars
  BY <1>3 DEF vars, IInv, TypeOK, RingWindow, oldest, maxSize, IndexesExact, DedupTracksLatest
<1> QED BY <1>1, <1>2, <1>3 DEF Next, Add

LEMMA Invariance == Spec => []IInv
BY InitInv, NextInv, PTL DEF Spec

\* The fields of the store keep their types.
THEOREM TypeCorrect == Spec => []TypeOK
<1>1. IInv => TypeOK
  BY DEF IInv
<1> QED BY <1>1, Invariance, PTL

\* The ring always holds exactly the last maxSize inserted events in order,
\* so that Add evicts the oldest one.
THEOREM RingCorrect == Spec => []RingWindow
<1>1. IInv => RingWindow
  BY DEF IInv
<1> QED BY <1>1, Invariance, PTL

\* The three inverted indexes always agree with the stored events.
THEOREM IndexesCorrect == Spec => []IndexesExact
<1>1. IInv => IndexesExact
  BY DEF IInv
<1> QED BY <1>1, Invariance, PTL

\* The dedup history always lists the newest stored episodes of each key.
THEOREM DedupCorrect == Spec => []DedupTracksLatest
<1>1. IInv => DedupTracksLatest
  BY DEF IInv
<1> QED BY <1>1, Invariance, PTL

-----------------------------------------------------------------------------
\* What a step may do to the episodes it leaves in the store.
Grows ==
    \A i \in DOMAIN byID \cap DOMAIN byID' :
       LET old == byID[i]
           new == byID'[i]
       IN /\ dedupKey(new) = dedupKey(old) /\ new.Namespace = old.Namespace
          /\ new.Count >= old.Count
          /\ new.LastSeen >= old.LastSeen
          /\ old.FirstSeen # 0 => new.FirstSeen \in 1 .. old.FirstSeen
          /\ old.OwnerChain # <<>> => new.OwnerChain # <<>>
          /\ new.Message # old.Message => new.LastSeen > old.LastSeen

\* Whatever event Add is given, stored episodes only move forwards.
LEMMA AddGrows ==
    ASSUME IInv, NEW e \in NormalizedEvent, Add(e)
    PROVE  Grows
<1>1. ASSUME NEW x \in NormalizedEvent
      PROVE  /\ x.Count \in Nat /\ x.LastSeen \in Nat /\ x.FirstSeen \in Nat
             /\ x.OwnerChain \in Seq(STRING)
             /\ x.FirstSeen # 0 => x.FirstSeen \in 1 .. x.FirstSeen
             /\ Len(x.OwnerChain) > 0 => x.OwnerChain # <<>>
  BY DEF NormalizedEvent
<1>2. CASE Update(e)
  <2> DEFINE id == latestID(e)
             x == byID[id]
  <2>1. /\ e \in NormalizedEvent /\ id \in DOMAIN byID /\ x \in NormalizedEvent
        /\ \A i \in DOMAIN byID : byID[i] \in NormalizedEvent
        /\ isSameBurst(e, x)
        /\ byID' = [byID EXCEPT ![id] = updated(x, e)]
    BY <1>2 DEF IInv, TypeOK, PartialFcn, Update, Continues
  <2>2. /\ updated(x, e).Namespace = x.Namespace
        /\ dedupKey(updated(x, e)) = dedupKey(x)
        /\ updated(x, e).Count >= x.Count
        /\ updated(x, e).LastSeen >= x.LastSeen
        /\ x.FirstSeen # 0 => updated(x, e).FirstSeen \in 1 .. x.FirstSeen
        /\ x.OwnerChain # <<>> => updated(x, e).OwnerChain # <<>>
        /\ updated(x, e).Message # x.Message => updated(x, e).LastSeen > x.LastSeen
    <3> DEFINE y == updated(x, e)
    <3>1. e.Count >= x.Count
      BY <2>1 DEF isSameBurst
    <3>2. /\ y.Namespace = x.Namespace
          /\ y.InvolvedObjectUID = x.InvolvedObjectUID
          /\ y.Reason = x.Reason
          /\ y.Count = e.Count
          /\ y.LastSeen = IF e.LastSeen > x.LastSeen THEN e.LastSeen ELSE x.LastSeen
          /\ y.Message = IF e.LastSeen > x.LastSeen THEN e.Message ELSE x.Message
          /\ y.FirstSeen = IF e.FirstSeen # 0 /\ (x.FirstSeen = 0 \/ e.FirstSeen < x.FirstSeen)
                           THEN e.FirstSeen ELSE x.FirstSeen
          /\ y.OwnerChain = IF Len(e.OwnerChain) > 0 THEN e.OwnerChain ELSE x.OwnerChain
      BY <2>1, UpdatedEvent
    <3>3. x.LastSeen \in Nat /\ e.LastSeen \in Nat /\ x.FirstSeen \in Nat /\ e.FirstSeen \in Nat
      BY <1>1, <2>1
    <3>4. Len(e.OwnerChain) > 0 => e.OwnerChain # <<>>
      BY <1>1, <2>1
    <3> HIDE DEF x, y
    <3>5. y.LastSeen >= x.LastSeen /\ (y.Message # x.Message => y.LastSeen > x.LastSeen)
      BY <3>2, <3>3
    <3>6. x.FirstSeen # 0 => y.FirstSeen \in 1 .. x.FirstSeen
      BY <3>2, <3>3
    <3>7. x.OwnerChain # <<>> => y.OwnerChain # <<>>
      BY <3>2, <3>4
    <3>8. dedupKey(y) = dedupKey(x)
      BY <3>2 DEF dedupKey
    <3> QED BY <3>1, <3>2, <3>5, <3>6, <3>7, <3>8 DEF y
  <2> HIDE DEF id
  <2>3. \A i \in DOMAIN byID : byID'[i] = IF i = id THEN updated(x, e) ELSE byID[i]
    BY <2>1
  <2> QED BY <1>1, <2>1, <2>2, <2>3 DEF Grows
<1>3. CASE Insert(e)
  <2> DEFINE m == IF full THEN evict(order[head]) ELSE maps
  <2>1. /\ \A i \in DOMAIN m.byID : m.byID[i] = byID[i]
        /\ DOMAIN byID \subseteq 0 .. nextID - 1 /\ nextID \in Nat
        /\ \A i \in DOMAIN byID : byID[i] \in NormalizedEvent
    <3>1. \A i \in DOMAIN m.byID : m.byID[i] = byID[i]
      BY <1>3, AfterEvict
    <3>2. maxSize \in Nat /\ nextID \in Nat /\ DOMAIN byID = oldest .. nextID - 1
      BY <1>3, MaxSizePositive DEF IInv, RingWindow, TypeOK
    <3>3. DOMAIN byID \subseteq 0 .. nextID - 1
      BY <3>2 DEF oldest
    <3>4. \A i \in DOMAIN byID : byID[i] \in NormalizedEvent
      BY <1>3 DEF IInv, TypeOK, PartialFcn
    <3> QED BY <3>1, <3>2, <3>3, <3>4
  <2>2. byID' = put(m.byID, nextID, e)
    BY <1>3 DEF Insert
  <2> HIDE DEF m
  <2>3. \A i \in DOMAIN byID \cap DOMAIN byID' : byID'[i] = byID[i]
    BY <2>1, <2>2 DEF put
  <2> QED BY <1>1, <2>1, <2>3 DEF Grows
<1> QED BY <1>2, <1>3 DEF Add

\* An episode is only ever updated forwards.
THEOREM EpisodesOnlyGrow == Spec => EpisodeMonotone
<1>1. ASSUME IInv, NEW e \in Incoming, Add(e) PROVE Grows
  BY <1>1, AddGrows, IncomingAssumption
<1>2. IInv /\ [Next]_vars => [Grows]_vars
  BY <1>1 DEF Next, vars
<1> QED BY <1>2, Invariance, PTL DEF Spec, EpisodeMonotone, Grows

-----------------------------------------------------------------------------
\* The newest episode a key tracks is its newest stored episode.
LEMMA LatestIsNewest ==
    ASSUME IInv, NEW e \in Incoming
    PROVE  \A i \in DOMAIN byID :
             Log!ContinuedBy(i, e) <=> Continues(e) /\ i = latestID(e)
<1> DEFINE key == dedupKey(e)
           S == stored(byID, key)
           ids == dedupIdx[key]
<1>1. e \in NormalizedEvent /\ DOMAIN byID \subseteq Nat
  BY IncomingAssumption DEF IInv, TypeOK, PartialFcn
<1>2. e.InvolvedObjectUID # "" => Log!Kin(e) = S
  BY DEF Log!Kin, Log!dedupKey, dedupKey, stored
<1>3. e.InvolvedObjectUID = "" => Log!Kin(e) = {}
  BY DEF Log!Kin, Log!dedupKey, dedupKey
<1>4. S # {} => key \in DOMAIN dedupIdx
  BY DEF IInv, DedupTracksLatest, DedupExact, stored
<1>5. key \in DOMAIN dedupIdx =>
        ids \in Seq(Nat) /\ ids # <<>> /\ NewestOf(ids, S) /\ S \subseteq DOMAIN byID
  BY DEF IInv, TypeOK, PartialFcn, DedupTracksLatest, DedupExact, stored
<1> HIDE DEF S, key, ids
<1>6. ASSUME key \in DOMAIN dedupIdx
      PROVE  /\ Last(ids) \in S /\ \A j \in S : j <= Last(ids)
             /\ Len(ids) > 0 /\ episodes(dedupIdx, key) = ids
  <2>1. Len(ids) \in 1 .. Len(ids) /\ 1 \in 1 .. Len(ids) /\ Len(ids) \in Nat
    BY <1>5, <1>6
  <2>2. Last(ids) \in S
    BY <1>5, <1>6, <2>1 DEF Last, NewestOf
  <2>3. \A j \in 1 .. Len(ids) : ids[j] \in Nat /\ ids[j] <= Last(ids)
    <3>1. \A j \in 1 .. Len(ids) : ids[j] \in S /\ (j < Len(ids) => ids[j] < ids[Len(ids)])
      BY <1>5, <1>6, <2>1 DEF NewestOf
    <3>2. \A j \in 1 .. Len(ids) : ids[j] \in Nat
      BY <1>1, <1>5, <1>6, <3>1
    <3> QED BY <2>1, <3>1, <3>2 DEF Last
  <2>4. ASSUME NEW j \in S PROVE j <= Last(ids)
    <3>1. CASE listed(ids, j)
      BY <2>3, <3>1 DEF listed
    <3>2. CASE j < ids[1]
      <4>1. j \in Nat /\ ids[1] \in Nat /\ ids[1] <= Last(ids) /\ Last(ids) \in Nat
        BY <1>1, <1>5, <1>6, <2>1, <2>2, <2>3
      <4> QED BY <3>2, <4>1
    <3> QED BY <1>5, <1>6, <3>1, <3>2 DEF NewestOf
  <2> QED BY <1>6, <2>1, <2>2, <2>4 DEF episodes, ids
<1>7. key \notin DOMAIN dedupIdx => ~Continues(e)
  <2>1. Len(<<>>) = 0
    OBVIOUS
  <2> QED BY <2>1 DEF Continues, episodes, key
<1>8. ASSUME NEW i \in DOMAIN byID, Log!ContinuedBy(i, e)
      PROVE  Continues(e) /\ i = latestID(e)
  <2>1. e.InvolvedObjectUID # "" /\ i \in S /\ (\A j \in S : j <= i) /\ isSameBurst(e, byID[i])
    BY <1>2, <1>3, <1>8 DEF Log!ContinuedBy, Log!isSameBurst, isSameBurst
  <2>2. key \in DOMAIN dedupIdx
    BY <1>4, <2>1
  <2>3. i = Last(ids)
    <3>1. S \subseteq Nat
      BY <1>1, <1>5, <2>2
    <3>2. i \in Nat /\ Last(ids) \in Nat /\ Last(ids) <= i /\ i <= Last(ids)
      BY <1>6, <2>1, <2>2, <3>1
    <3> QED BY <3>2
  <2> QED BY <1>6, <2>1, <2>2, <2>3 DEF Continues, latestID, key, ids
<1>9. ASSUME NEW i \in DOMAIN byID, Continues(e), i = latestID(e)
      PROVE  Log!ContinuedBy(i, e)
  <2>1. key \in DOMAIN dedupIdx /\ e.InvolvedObjectUID # "" /\ i = Last(ids)
        /\ isSameBurst(e, byID[i])
    BY <1>7, <1>9 DEF Continues, latestID, key, ids
  <2> QED BY <1>2, <1>6, <2>1 DEF Log!ContinuedBy, Log!isSameBurst, isSameBurst
<1> QED BY <1>8, <1>9

\* The store implements the bounded log of episodes: neither the ring, nor the
\* dedup history and its limit, can be told from what is stored.
THEOREM StoreImplementsLog == Spec => ImplementsEventLog
<1>1. Init => Log!Init
  BY DEF Init, Log!Init, emptyMap
<1>2. ASSUME IInv, NEW e \in Incoming, Update(e) PROVE Log!Continue(e)
  <2> DEFINE id == latestID(e)
  <2>1. id \in DOMAIN byID /\ Log!ContinuedBy(id, e)
    <3>1. Continues(e) /\ id \in DOMAIN byID
      BY <1>2 DEF Update, Continues
    <3> QED BY <1>2, <3>1, LatestIsNewest
  <2>2. byID' = [byID EXCEPT ![id] = updated(byID[id], e)] /\ nextID' = nextID
    BY <1>2 DEF Update
  <2>3. updated(byID[id], e) = Log!updated(byID[id], e)
    BY DEF updated, Log!updated
  <2> HIDE DEF id
  <2> QED BY <2>1, <2>2, <2>3 DEF Log!Continue
<1>3. ASSUME IInv, NEW e \in Incoming, Insert(e) PROVE Log!Begin(e)
  <2> DEFINE m == IF full THEN evict(order[head]) ELSE maps
  <2>1. /\ DOMAIN m.byID = {i \in DOMAIN byID : i > nextID - maxSize}
        /\ \A i \in DOMAIN m.byID : m.byID[i] = byID[i]
    BY <1>3, AfterEvict
  <2>2. /\ byID' = put(m.byID, nextID, e)
        /\ nextID' = nextID + 1 /\ ~Continues(e)
    BY <1>3 DEF Insert
  <2> HIDE DEF m
  <2>3. nextID > nextID - maxSize /\ DOMAIN byID \subseteq 0 .. nextID - 1 /\ nextID \in Nat
    BY <1>3, MaxSizePositive DEF IInv, TypeOK, RingWindow, oldest
  <2>4. byID' = [i \in {j \in DOMAIN byID \cup {nextID} : j > nextID - maxSize} |->
                   IF i = nextID THEN e ELSE byID[i]]
    BY <2>1, <2>2, <2>3 DEF put
  <2>5. \A i \in DOMAIN byID : ~Log!ContinuedBy(i, e)
    BY <1>3, <2>2, LatestIsNewest
  <2> QED BY <2>2, <2>4, <2>5 DEF Log!Begin
<1>4. IInv /\ [Next]_vars => [Log!Next]_<<byID, nextID>>
  <2> SUFFICES ASSUME IInv, [Next]_vars PROVE [Log!Next]_<<byID, nextID>>
    OBVIOUS
  <2>1. CASE UNCHANGED vars
    BY <2>1 DEF vars
  <2>2. CASE Next
    BY <1>2, <1>3, <2>2 DEF Next, Add, Log!Next
  <2> QED BY <2>1, <2>2
<1> QED BY <1>1, <1>4, Invariance, PTL DEF Spec, ImplementsEventLog, Log!Spec, Log!vars

=============================================================================
