-------------------------- MODULE AgentPipelineProofs --------------------------
(***************************************************************************)
(* Proofs about AgentPipeline, for every set of Event objects with any     *)
(* number of versions, every capacity of the channel and any number of     *)
(* crashes: the types, that no observed version vanishes between the       *)
(* informer and the store, that versions arrive in order, and that what    *)
(* was stored stays represented.                                           *)
(***************************************************************************)
EXTENDS AgentPipeline, EventStoreProofs

-----------------------------------------------------------------------------
(***************************************************************************)
(* The invariant of the versions in flight, as a statement about a         *)
(* sequence F of versions, the stored versions D, the dropped versions L,  *)
(* the observed versions O and the newest of each object, c.               *)
(***************************************************************************)
Before(x, y) == x[1] = y[1] => x[2] < y[2]

Observed(x, c) == x[2] >= 1 /\ x[2] <= c[x[1]]

Flow(F, D, L, O, c) ==
    /\ D \subseteq Version /\ L \subseteq Version /\ D \cap L = {}
    /\ \A x \in D \cup L : Observed(x, c)
    /\ \A i \in 1 .. Len(F) : Observed(F[i], c)
    /\ \A i, j \in 1 .. Len(F) : i < j => Before(F[i], F[j])
    /\ \A x \in D : \A i \in 1 .. Len(F) : Before(x, F[i])
    /\ \A x \in L : \A i \in 1 .. Len(F) : x # F[i]
    /\ O = D \cup L \cup {F[i] : i \in 1 .. Len(F)}

\* A version is a pair of an object and a number.
LEMMA Pairs ==
    ASSUME NEW x \in Version
    PROVE  x[1] \in Objects /\ x[2] \in Nat /\ x = <<x[1], x[2]>>
BY DEF Version

\* No version precedes itself.
LEMMA NotBeforeItself == \A x \in Version : ~Before(x, x)
BY Pairs DEF Before

\* The informer observes a version newer than any it has observed of the object.
LEMMA FlowAppend ==
    ASSUME NEW F \in Seq(Version), NEW D, NEW L, NEW O, NEW c \in [Objects -> Nat], Flow(F, D, L, O, c),
           NEW o \in Objects, NEW v \in Nat, v > c[o]
    PROVE  Flow(Append(F, <<o, v>>), D, L, O \cup {<<o, v>>}, [c EXCEPT ![o] = v])
<1> DEFINE x == <<o, v>>
           G == Append(F, x)
           d == [c EXCEPT ![o] = v]
<1>1. x \in Version /\ x[1] = o /\ x[2] = v
  BY DEF Version
<1>2. Len(F) \in Nat /\ G \in Seq(Version) /\ Len(G) = Len(F) + 1 /\ G[Len(F) + 1] = x
      /\ \A i \in 1 .. Len(F) : G[i] = F[i] /\ F[i] \in Version
  BY <1>1
<1>3. d \in [Objects -> Nat] /\ d[o] = v /\ \A p \in Objects \ {o} : d[p] = c[p]
  OBVIOUS
<1> HIDE DEF x, G, d
<1>4. \A y \in Version : Observed(y, c) => Observed(y, d) /\ Before(y, x) /\ y # x
  BY <1>1, <1>3, Pairs DEF Observed, Before
<1>5. Observed(x, d)
  BY <1>1, <1>3 DEF Observed
<1>6. D \subseteq Version /\ L \subseteq Version /\ D \cap L = {} /\ \A y \in D \cup L : Observed(y, c)
  BY DEF Flow
<1>7. \A y \in D \cup L : Observed(y, d)
  BY <1>4, <1>6
<1>8. \A i \in 1 .. Len(F) : Observed(F[i], c)
  BY DEF Flow
<1>9. \A i \in 1 .. Len(G) : i \in 1 .. Len(F) \/ i = Len(F) + 1
  BY <1>2
<1>10. \A i \in 1 .. Len(G) : Observed(G[i], d)
  BY <1>2, <1>4, <1>5, <1>8, <1>9
<1>11. ASSUME NEW i \in 1 .. Len(G), NEW j \in 1 .. Len(G), i < j
       PROVE  Before(G[i], G[j])
  <2>1. i \in 1 .. Len(F)
    BY <1>2, <1>11
  <2>2. CASE j \in 1 .. Len(F)
    BY <1>2, <1>11, <2>1, <2>2 DEF Flow
  <2>3. CASE j = Len(F) + 1
    BY <1>2, <1>4, <1>8, <2>1, <2>3
  <2> QED BY <1>9, <2>2, <2>3
<1>12. ASSUME NEW y \in D, NEW i \in 1 .. Len(G)
       PROVE  Before(y, G[i])
  <2>1. CASE i \in 1 .. Len(F)
    BY <1>2, <2>1 DEF Flow
  <2>2. CASE i = Len(F) + 1
    BY <1>2, <1>4, <1>6, <2>2
  <2> QED BY <1>9, <2>1, <2>2
<1>13. ASSUME NEW y \in L, NEW i \in 1 .. Len(G)
       PROVE  y # G[i]
  <2>1. CASE i \in 1 .. Len(F)
    BY <1>2, <2>1 DEF Flow
  <2>2. CASE i = Len(F) + 1
    BY <1>2, <1>4, <1>6, <2>2
  <2> QED BY <1>9, <2>1, <2>2
<1>14. O \cup {x} = D \cup L \cup {G[i] : i \in 1 .. Len(G)}
  <2>1. {G[i] : i \in 1 .. Len(G)} = {F[i] : i \in 1 .. Len(F)} \cup {x}
    <3>1. 1 .. Len(F) \subseteq 1 .. Len(G) /\ Len(F) + 1 \in 1 .. Len(G)
      BY <1>2
    <3> QED BY <1>2, <1>9, <3>1
  <2>2. O = D \cup L \cup {F[i] : i \in 1 .. Len(F)}
    BY DEF Flow
  <2> QED BY <2>1, <2>2
<1>15. Flow(G, D, L, O \cup {x}, d)
  BY <1>6, <1>7, <1>10, <1>11, <1>12, <1>13, <1>14 DEF Flow
<1> QED BY <1>15 DEF G, d, x

\* G is F without its k-th version.
Without(G, F, k) ==
    /\ Len(G) = Len(F) - 1
    /\ \A i \in 1 .. Len(G) : G[i] = IF i < k THEN F[i] ELSE F[i + 1]

\* The worker stores the version that is first in flight.
LEMMA FlowStore ==
    ASSUME NEW F \in Seq(Version), NEW D, NEW L, NEW O, NEW c \in [Objects -> Nat], Flow(F, D, L, O, c),
           Len(F) >= 1, NEW G \in Seq(Version), Without(G, F, 1)
    PROVE  Flow(G, D \cup {F[1]}, L, O, c)
<1>1. Len(F) \in Nat /\ Len(G) \in Nat /\ Len(G) = Len(F) - 1 /\ 1 \in 1 .. Len(F)
      /\ \A i \in 1 .. Len(G) : i \in Nat /\ G[i] = F[i + 1] /\ i + 1 \in 1 .. Len(F) /\ 1 < i + 1
  BY DEF Without
<1>2. F[1] \in Version /\ Observed(F[1], c) /\ F[1] \notin L
  BY <1>1 DEF Flow
<1>3. \A i \in 1 .. Len(G) : Before(F[1], G[i]) /\ Observed(G[i], c)
  BY <1>1 DEF Flow
<1>4. \A i, j \in 1 .. Len(G) : i < j => Before(G[i], G[j])
  BY <1>1 DEF Flow
<1>5. \A x \in D : \A i \in 1 .. Len(G) : Before(x, G[i])
  BY <1>1 DEF Flow
<1>6. \A x \in L : \A i \in 1 .. Len(G) : x # G[i]
  BY <1>1 DEF Flow
<1>7. O = (D \cup {F[1]}) \cup L \cup {G[i] : i \in 1 .. Len(G)}
  <2>1. {F[i] : i \in 1 .. Len(F)} = {F[1]} \cup {G[i] : i \in 1 .. Len(G)}
    <3>1. ASSUME NEW i \in 1 .. Len(F), i # 1 PROVE i - 1 \in 1 .. Len(G) /\ G[i - 1] = F[i]
      BY <1>1, <3>1
    <3>2. \A i \in 1 .. Len(F) : F[i] \in {F[1]} \cup {G[j] : j \in 1 .. Len(G)}
      BY <3>1, Zenon
    <3>3. \A j \in 1 .. Len(G) : G[j] \in {F[i] : i \in 1 .. Len(F)}
      BY <1>1, Zenon
    <3>4. F[1] \in {F[i] : i \in 1 .. Len(F)}
      BY <1>1, Zenon
    <3> QED BY <3>2, <3>3, <3>4, Zenon
  <2>2. O = D \cup L \cup {F[i] : i \in 1 .. Len(F)}
    BY DEF Flow
  <2> QED BY <2>1, <2>2
<1> QED BY <1>2, <1>3, <1>4, <1>5, <1>6, <1>7 DEF Flow

\* handle drops a version: it joins the lost ones and leaves no duplicate.
LEMMA FlowDrop ==
    ASSUME NEW F \in Seq(Version), NEW D, NEW L, NEW O, NEW c \in [Objects -> Nat], Flow(F, D, L, O, c),
           NEW k \in 1 .. Len(F), NEW G \in Seq(Version), Without(G, F, k)
    PROVE  Flow(G, D, L \cup {F[k]}, O, c)
<1> DEFINE at(i) == IF i < k THEN i ELSE i + 1
<1>1. /\ Len(F) \in Nat /\ Len(G) \in Nat /\ Len(G) = Len(F) - 1
      /\ \A i \in 1 .. Len(G) : G[i] = F[at(i)] /\ at(i) \in 1 .. Len(F) /\ at(i) # k
      /\ \A i, j \in 1 .. Len(G) : i < j => at(i) < at(j)
      /\ \A i \in 1 .. Len(F) : i # k => \E j \in 1 .. Len(G) : at(j) = i
  <2>1. /\ Len(F) \in Nat /\ Len(G) \in Nat /\ Len(G) = Len(F) - 1
        /\ \A i \in 1 .. Len(G) : G[i] = F[at(i)] /\ at(i) \in 1 .. Len(F) /\ at(i) # k
        /\ \A i, j \in 1 .. Len(G) : i < j => at(i) < at(j)
    BY DEF Without
  <2>2. ASSUME NEW i \in 1 .. Len(F), i # k PROVE \E j \in 1 .. Len(G) : at(j) = i
    <3>1. CASE i < k
      BY <2>1, <3>1
    <3>2. CASE i > k
      <4>1. i - 1 \in 1 .. Len(G) /\ at(i - 1) = i
        BY <2>1, <3>2
      <4> QED BY <4>1
    <3> QED BY <2>2, <3>1, <3>2
  <2> QED BY <2>1, <2>2
<1> HIDE DEF at
<1>2. F[k] \in Version /\ Observed(F[k], c)
  BY DEF Flow
<1>3. F[k] \notin D
  BY <1>2, NotBeforeItself DEF Flow
<1>4. \A i, j \in 1 .. Len(F) : i # j => F[i] # F[j]
  <2>1. \A i \in 1 .. Len(F) : i \in Int /\ F[i] \in Version
    OBVIOUS
  <2>2. \A i, j \in 1 .. Len(F) : i < j => Before(F[i], F[j])
    BY DEF Flow
  <2>3. \A i, j \in 1 .. Len(F) : i < j => F[i] # F[j]
    BY <2>1, <2>2, NotBeforeItself
  <2> QED BY <2>1, <2>3
<1>5. \A i \in 1 .. Len(G) : Observed(G[i], c) /\ F[k] # G[i]
  BY <1>1, <1>4 DEF Flow
<1>6. ASSUME NEW i \in 1 .. Len(G), NEW j \in 1 .. Len(G), i < j PROVE Before(G[i], G[j])
  <2>1. at(i) \in 1 .. Len(F) /\ at(j) \in 1 .. Len(F) /\ at(i) < at(j)
    BY <1>1, <1>6
  <2>2. Before(F[at(i)], F[at(j)])
    BY <2>1 DEF Flow
  <2> QED BY <1>1, <2>2
<1>7. \A x \in D : \A i \in 1 .. Len(G) : Before(x, G[i])
  BY <1>1 DEF Flow
<1>8. \A x \in L : \A i \in 1 .. Len(G) : x # G[i]
  BY <1>1 DEF Flow
<1>9. O = D \cup (L \cup {F[k]}) \cup {G[i] : i \in 1 .. Len(G)}
  <2>1. {F[i] : i \in 1 .. Len(F)} = {F[k]} \cup {G[i] : i \in 1 .. Len(G)}
    <3>1. \A i \in 1 .. Len(F) : F[i] \in {F[k]} \cup {G[j] : j \in 1 .. Len(G)}
      <4>1. ASSUME NEW i \in 1 .. Len(F), i # k PROVE \E j \in 1 .. Len(G) : F[i] = G[j]
        BY <1>1, <4>1, Zenon
      <4> QED BY <4>1, Zenon
    <3>2. \A j \in 1 .. Len(G) : G[j] \in {F[i] : i \in 1 .. Len(F)}
      BY <1>1, Zenon
    <3> QED BY <3>1, <3>2, Zenon
  <2>2. O = D \cup L \cup {F[i] : i \in 1 .. Len(F)}
    BY DEF Flow
  <2> QED BY <2>1, <2>2
<1> QED BY <1>2, <1>3, <1>5, <1>6, <1>7, <1>8, <1>9 DEF Flow

-----------------------------------------------------------------------------
\* Where the elements of a concatenation come from.
LEMMA Concatenation ==
    ASSUME NEW s \in Seq(Version), NEW t \in Seq(Version), NEW u, u = s \o t
    PROVE  /\ u \in Seq(Version) /\ Len(u) = Len(s) + Len(t)
           /\ \A i \in 1 .. Len(s) : u[i] = s[i]
           /\ \A i \in 1 .. Len(t) : u[Len(s) + i] = t[i]
<1>1. Len(s) \in Nat /\ Len(t) \in Nat
  OBVIOUS
<1>2. /\ u \in Seq(Version) /\ Len(u) = Len(s) + Len(t)
      /\ \A i \in 1 .. Len(s) + Len(t) : u[i] = IF i <= Len(s) THEN s[i] ELSE t[i - Len(s)]
  BY ConcatProperties
<1>3. \A i \in 1 .. Len(s) : u[i] = s[i]
  BY <1>1, <1>2
<1>4. ASSUME NEW i \in 1 .. Len(t) PROVE u[Len(s) + i] = t[i]
  <2>1. Len(s) + i \in 1 .. Len(s) + Len(t) /\ ~(Len(s) + i <= Len(s)) /\ (Len(s) + i) - Len(s) = i
    BY <1>1
  <2> QED BY <1>2, <2>1
<1> QED BY <1>2, <1>3, <1>4

\* The versions in flight, whatever the worker, the channel and the informer hold.
Flight(w, p, n) == [i \in DOMAIN w |-> w[i].src] \o [i \in DOMAIN p |-> p[i].src] \o n

LEMMA InFlight ==
    ASSUME NEW w \in Seq(Item), NEW p \in Seq(Item), NEW n \in Seq(Version)
    PROVE  /\ Flight(w, p, n) \in Seq(Version)
           /\ Len(Flight(w, p, n)) = Len(w) + Len(p) + Len(n)
           /\ \A i \in 1 .. Len(w) : Flight(w, p, n)[i] = w[i].src
           /\ \A i \in 1 .. Len(p) : Flight(w, p, n)[Len(w) + i] = p[i].src
           /\ \A i \in 1 .. Len(n) : Flight(w, p, n)[Len(w) + Len(p) + i] = n[i]
<1> DEFINE ws == [i \in DOMAIN w |-> w[i].src]
           ps == [i \in DOMAIN p |-> p[i].src]
<1>1. \A x \in Item : x.src \in Version
  BY DEF Item
<1>2. ASSUME NEW q \in Seq(Item)
      PROVE  LET qs == [i \in DOMAIN q |-> q[i].src]
             IN qs \in Seq(Version) /\ Len(qs) = Len(q) /\ \A i \in 1 .. Len(q) : qs[i] = q[i].src
  <2> DEFINE qs == [i \in DOMAIN q |-> q[i].src]
  <2>1. DOMAIN q = 1 .. Len(q) /\ Len(q) \in Nat /\ \A i \in 1 .. Len(q) : q[i] \in Item
    OBVIOUS
  <2>2. \A i \in 1 .. Len(q) : q[i].src \in Version
    BY <1>1, <2>1
  <2>3. qs = [i \in 1 .. Len(q) |-> q[i].src]
    BY <2>1
  <2> HIDE DEF qs
  <2>4. qs \in [1 .. Len(q) -> Version]
    BY <2>2, <2>3
  <2>5. qs \in Seq(Version) /\ Len(qs) = Len(q)
    BY <2>1, <2>4
  <2>6. \A i \in 1 .. Len(q) : qs[i] = q[i].src
    BY <2>3
  <2> QED BY <2>5, <2>6 DEF qs
<1>3. /\ ws \in Seq(Version) /\ Len(ws) = Len(w) /\ \A i \in 1 .. Len(w) : ws[i] = w[i].src
      /\ ps \in Seq(Version) /\ Len(ps) = Len(p) /\ \A i \in 1 .. Len(p) : ps[i] = p[i].src
  BY <1>2
<1>4. Flight(w, p, n) = (ws \o ps) \o n
  BY DEF Flight
<1> DEFINE wp == ws \o ps
<1> HIDE DEF ws, ps, wp
<1>5. /\ wp \in Seq(Version) /\ Len(wp) = Len(w) + Len(p)
      /\ \A i \in 1 .. Len(w) : wp[i] = w[i].src
      /\ \A i \in 1 .. Len(p) : wp[Len(w) + i] = p[i].src
  <2>1. /\ wp \in Seq(Version) /\ Len(wp) = Len(ws) + Len(ps)
        /\ \A i \in 1 .. Len(ws) : wp[i] = ws[i]
        /\ \A i \in 1 .. Len(ps) : wp[Len(ws) + i] = ps[i]
    <3>1. ws \in Seq(Version) /\ ps \in Seq(Version)
      BY <1>3
    <3>2. wp = ws \o ps
      BY DEF wp
    <3> QED BY <3>1, <3>2, Concatenation
  <2> QED BY <1>3, <2>1
<1>6. Flight(w, p, n) = wp \o n
  BY <1>4 DEF wp
<1>7. wp \in Seq(Version)
  BY <1>5
<1> DEFINE f == Flight(w, p, n)
<1> HIDE DEF f
<1>8. /\ f \in Seq(Version) /\ Len(f) = Len(wp) + Len(n)
      /\ \A i \in 1 .. Len(wp) : f[i] = wp[i]
      /\ \A i \in 1 .. Len(n) : f[Len(wp) + i] = n[i]
  <2>1. f = wp \o n
    BY <1>6 DEF f
  <2> QED BY <1>7, <2>1, Concatenation
<1>9. Len(w) \in Nat /\ Len(p) \in Nat
  OBVIOUS
<1>10. \A i \in 1 .. Len(p) : Len(w) + i \in 1 .. Len(w) + Len(p)
  BY <1>9
<1> QED BY <1>5, <1>8, <1>9, <1>10 DEF f

\* F holds the a versions of w, then the b of p, then the c of n.
Laid(F, w, p, n, a, b, c) ==
    /\ F \in Seq(Version) /\ Len(F) = a + b + c
    /\ \A i \in 1 .. a : F[i] = w[i].src
    /\ \A i \in 1 .. b : F[a + i] = p[i].src
    /\ \A i \in 1 .. c : F[a + b + i] = n[i]

LEMMA FlightLaid ==
    ASSUME NEW w \in Seq(Item), NEW p \in Seq(Item), NEW n \in Seq(Version),
           NEW a, NEW b, NEW c, Len(w) = a, Len(p) = b, Len(n) = c
    PROVE  Laid(Flight(w, p, n), w, p, n, a, b, c)
BY InFlight, ZenonT(30) DEF Laid

\* Two sequences of versions with the same elements are equal.
LEMMA SameVersions ==
    ASSUME NEW F \in Seq(Version), NEW G \in Seq(Version), Len(F) = Len(G),
           \A i \in 1 .. Len(F) : F[i] = G[i]
    PROVE  F = G
OBVIOUS

\* Every position in flight belongs to the worker, the channel or the informer.
LEMMA Positions ==
    ASSUME NEW a \in Nat, NEW b \in Nat, NEW c \in Nat, NEW i \in 1 .. a + b + c
    PROVE  \/ i \in 1 .. a
           \/ \E k \in 1 .. b : i = a + k
           \/ \E k \in 1 .. c : i = a + b + k
<1>1. CASE i <= a
  BY <1>1
<1>2. CASE i > a /\ i <= a + b
  <2>1. i - a \in 1 .. b /\ i = a + (i - a)
    BY <1>2
  <2> QED BY <2>1
<1>3. CASE i > a + b
  <2>1. i - (a + b) \in 1 .. c /\ i = a + b + (i - (a + b))
    BY <1>3
  <2> QED BY <2>1
<1> QED BY <1>1, <1>2, <1>3

-----------------------------------------------------------------------------
(***************************************************************************)
(* What the steps of the pipeline do to the versions in flight.            *)
(***************************************************************************)
\* The first and the other elements of a sequence.
LEMMA HeadTail ==
    ASSUME NEW S, NEW s \in Seq(S), s # <<>>
    PROVE  /\ Len(s) \in Nat /\ Len(s) >= 1 /\ Head(s) \in S /\ Head(s) = s[1]
           /\ Tail(s) \in Seq(S) /\ Len(Tail(s)) = Len(s) - 1
           /\ \A i \in 1 .. Len(Tail(s)) : Tail(s)[i] = s[i + 1]
OBVIOUS

LEMMA Appended ==
    ASSUME NEW S, NEW s \in Seq(S), NEW x \in S
    PROVE  /\ Append(s, x) \in Seq(S) /\ Len(Append(s, x)) = Len(s) + 1 /\ Len(s) \in Nat
           /\ \A i \in 1 .. Len(s) : Append(s, x)[i] = s[i]
           /\ Append(s, x)[Len(s) + 1] = x
OBVIOUS

\* Observing a version puts it last.
LEMMA FlightObserve ==
    ASSUME NEW w \in Seq(Item), NEW p \in Seq(Item), NEW n \in Seq(Version), NEW x \in Version
    PROVE  Flight(w, p, Append(n, x)) = Append(Flight(w, p, n), x)
<1> DEFINE n2 == Append(n, x)
           F == Flight(w, p, n)
           A == Append(F, x)
           G == Flight(w, p, n2)
           a == Len(w)
           b == Len(p)
           c == Len(n)
<1>1. a \in Nat /\ b \in Nat /\ c \in Nat
  OBVIOUS
<1>2. n2 \in Seq(Version) /\ Len(n2) = c + 1 /\ n2[c + 1] = x /\ \A i \in 1 .. c : n2[i] = n[i]
  BY Appended
<1> HIDE DEF n2
<1>3. Laid(F, w, p, n, a, b, c)
  BY FlightLaid
<1>4. Laid(G, w, p, n2, a, b, c + 1)
  BY <1>2, FlightLaid
<1> HIDE DEF F, G, a, b, c
<1> USE DEF Laid
<1>5. /\ A \in Seq(Version) /\ Len(A) = Len(F) + 1 /\ A[Len(F) + 1] = x
      /\ \A i \in 1 .. Len(F) : A[i] = F[i]
  BY <1>3, Appended
<1> HIDE DEF A
<1>6. ASSUME NEW i \in 1 .. Len(G) PROVE G[i] = A[i]
  <2>1. CASE i = a + b + c + 1
    <3>1. c + 1 \in 1 .. c + 1 /\ i = a + b + (c + 1)
      BY <1>1, <2>1
    <3> QED BY <1>2, <1>3, <1>4, <1>5, <2>1, <3>1
  <2>2. CASE i # a + b + c + 1
    <3>1. i \in 1 .. a + b + c
      BY <1>1, <1>4, <2>2
    <3>2. G[i] = F[i]
      <4>1. CASE i \in 1 .. a
        BY <1>3, <1>4, <4>1
      <4>2. ASSUME NEW k \in 1 .. b, i = a + k PROVE G[i] = F[i]
        BY <1>3, <1>4, <4>2
      <4>3. ASSUME NEW k \in 1 .. c, i = a + b + k PROVE G[i] = F[i]
        <5>1. k \in 1 .. c + 1
          BY <1>1, <4>3
        <5> QED BY <1>2, <1>3, <1>4, <4>3, <5>1
      <4> QED BY <1>1, <3>1, <4>1, <4>2, <4>3, Positions
    <3> QED BY <1>3, <1>5, <3>1, <3>2
  <2> QED BY <2>1, <2>2
<1>7. Len(G) = Len(A)
  BY <1>1, <1>3, <1>4, <1>5
<1> QED BY <1>4, <1>5, <1>6, <1>7, SameVersions DEF G, A, F, n2

\* Sending to the channel moves a version from the informer to the channel.
LEMMA FlightSend ==
    ASSUME NEW w \in Seq(Item), NEW p \in Seq(Item), NEW n \in Seq(Version), n # <<>>,
           NEW item \in Item, item.src = Head(n)
    PROVE  Flight(w, Append(p, item), Tail(n)) = Flight(w, p, n)
<1> DEFINE p2 == Append(p, item)
           n2 == Tail(n)
           F == Flight(w, p, n)
           G == Flight(w, p2, n2)
           a == Len(w)
           b == Len(p)
           c == Len(n)
<1>1. a \in Nat /\ b \in Nat /\ c \in Nat /\ c >= 1
  BY HeadTail
<1>2. n2 \in Seq(Version) /\ Len(n2) = c - 1 /\ Head(n) = n[1] /\ \A i \in 1 .. c - 1 : n2[i] = n[i + 1]
  BY HeadTail
<1>3. p2 \in Seq(Item) /\ Len(p2) = b + 1 /\ p2[b + 1] = item /\ \A i \in 1 .. b : p2[i] = p[i]
  BY Appended
<1> HIDE DEF n2, p2
<1>4. Laid(F, w, p, n, a, b, c)
  BY FlightLaid
<1>5. Laid(G, w, p2, n2, a, b + 1, c - 1)
  BY <1>2, <1>3, FlightLaid
<1> HIDE DEF F, G, a, b, c
<1> USE DEF Laid
<1>6. ASSUME NEW i \in 1 .. Len(F) PROVE G[i] = F[i]
  <2>1. CASE i \in 1 .. a
    BY <1>4, <1>5, <2>1
  <2>2. ASSUME NEW k \in 1 .. b, i = a + k PROVE G[i] = F[i]
    <3>1. k \in 1 .. b + 1
      BY <1>1
    <3> QED BY <1>3, <1>4, <1>5, <2>2, <3>1
  <2>3. ASSUME NEW k \in 1 .. c, i = a + b + k PROVE G[i] = F[i]
    <3>1. CASE k = 1
      <4>1. i = a + (b + 1) /\ b + 1 \in 1 .. b + 1
        BY <1>1, <2>3, <3>1
      <4> QED BY <1>2, <1>3, <1>4, <1>5, <2>3, <3>1, <4>1
    <3>2. CASE k # 1
      <4>1. k - 1 \in 1 .. c - 1 /\ i = a + (b + 1) + (k - 1) /\ (k - 1) + 1 = k
        BY <1>1, <2>3, <3>2
      <4>2. G[i] = n2[k - 1] /\ n2[k - 1] = n[k]
        BY <1>2, <1>5, <4>1
      <4> QED BY <1>4, <2>3, <4>2
    <3> QED BY <3>1, <3>2
  <2>4. \/ i \in 1 .. a
        \/ \E k \in 1 .. b : i = a + k
        \/ \E k \in 1 .. c : i = a + b + k
    BY <1>1, <1>4, Positions
  <2> QED BY <2>1, <2>2, <2>3, <2>4
<1>7. Len(G) = Len(F)
  BY <1>1, <1>4, <1>5
<1> QED BY <1>4, <1>5, <1>6, <1>7, SameVersions DEF F, G, n2, p2

\* Dropping takes the informer's next version out.
LEMMA FlightDrop ==
    ASSUME NEW w \in Seq(Item), NEW p \in Seq(Item), NEW n \in Seq(Version), n # <<>>
    PROVE  /\ Len(w) + Len(p) + 1 \in 1 .. Len(Flight(w, p, n))
           /\ Flight(w, p, n)[Len(w) + Len(p) + 1] = Head(n)
           /\ Without(Flight(w, p, Tail(n)), Flight(w, p, n), Len(w) + Len(p) + 1)
<1> DEFINE n2 == Tail(n)
           F == Flight(w, p, n)
           G == Flight(w, p, n2)
           a == Len(w)
           b == Len(p)
           c == Len(n)
<1>1. a \in Nat /\ b \in Nat /\ c \in Nat /\ c >= 1
  BY HeadTail
<1>2. n2 \in Seq(Version) /\ Len(n2) = c - 1 /\ Head(n) = n[1] /\ \A i \in 1 .. c - 1 : n2[i] = n[i + 1]
  BY HeadTail
<1> HIDE DEF n2
<1>3. Laid(F, w, p, n, a, b, c)
  BY FlightLaid
<1>4. Laid(G, w, p, n2, a, b, c - 1)
  BY <1>2, FlightLaid
<1> HIDE DEF F, G, a, b, c
<1> USE DEF Laid
<1>5. ASSUME NEW i \in 1 .. Len(G)
      PROVE  G[i] = IF i < a + b + 1 THEN F[i] ELSE F[i + 1]
  <2>1. CASE i \in 1 .. a
    <3>1. i < a + b + 1
      BY <1>1, <2>1
    <3> QED BY <1>3, <1>4, <2>1, <3>1
  <2>2. ASSUME NEW k \in 1 .. b, i = a + k
        PROVE  G[i] = IF i < a + b + 1 THEN F[i] ELSE F[i + 1]
    <3>1. i < a + b + 1
      BY <1>1, <2>2
    <3> QED BY <1>3, <1>4, <2>2, <3>1
  <2>3. ASSUME NEW k \in 1 .. c - 1, i = a + b + k
        PROVE  G[i] = IF i < a + b + 1 THEN F[i] ELSE F[i + 1]
    <3>1. ~(i < a + b + 1) /\ i + 1 = a + b + (k + 1) /\ k + 1 \in 1 .. c
      BY <1>1, <2>3
    <3>2. F[i + 1] = n[k + 1] /\ G[i] = n2[k] /\ n2[k] = n[k + 1]
      BY <1>2, <1>3, <1>4, <2>3, <3>1
    <3> QED BY <3>1, <3>2
  <2>4. c - 1 \in Nat
    BY <1>1
  <2> QED BY <1>1, <1>4, <2>1, <2>2, <2>3, <2>4, Positions
<1>6. Len(G) = Len(F) - 1
  BY <1>1, <1>3, <1>4
<1>7. Without(G, F, a + b + 1)
  BY <1>5, <1>6 DEF Without
<1>8. 1 \in 1 .. c /\ a + b + 1 \in 1 .. Len(F)
  BY <1>1, <1>3
<1>9. F[a + b + 1] = n[1]
  BY <1>3, <1>8
<1> QED BY <1>2, <1>7, <1>8, <1>9 DEF F, G, a, b, n2

\* Receiving moves a version from the channel to the idle worker.
LEMMA FlightReceive ==
    ASSUME NEW p \in Seq(Item), p # <<>>, NEW n \in Seq(Version)
    PROVE  Flight(<<Head(p)>>, Tail(p), n) = Flight(<<>>, p, n)
<1> DEFINE w == <<>>
           w2 == <<Head(p)>>
           p2 == Tail(p)
           F == Flight(w, p, n)
           G == Flight(w2, p2, n)
           b == Len(p)
           c == Len(n)
<1>1. b \in Nat /\ c \in Nat /\ b >= 1
  BY HeadTail
<1>2. /\ p2 \in Seq(Item) /\ Len(p2) = b - 1 /\ \A i \in 1 .. b - 1 : p2[i] = p[i + 1]
      /\ Head(p) \in Item /\ Head(p) = p[1]
  BY HeadTail
<1>3. /\ w \in Seq(Item) /\ Len(w) = 0
      /\ w2 \in Seq(Item) /\ Len(w2) = 1 /\ w2[1] = p[1]
  BY <1>2
<1> HIDE DEF w, w2, p2
<1>4. Laid(F, w, p, n, 0, b, c)
  BY <1>3, FlightLaid
<1>5. Laid(G, w2, p2, n, 1, b - 1, c)
  BY <1>2, <1>3, FlightLaid
<1> HIDE DEF F, G, b, c
<1> USE DEF Laid
<1>6. ASSUME NEW i \in 1 .. Len(F) PROVE G[i] = F[i]
  <2>1. ASSUME NEW k \in 1 .. b, i = 0 + k PROVE G[i] = F[i]
    <3>1. CASE k = 1
      BY <1>3, <1>4, <1>5, <2>1, <3>1
    <3>2. CASE k # 1
      <4>1. k - 1 \in 1 .. b - 1 /\ i = 1 + (k - 1) /\ (k - 1) + 1 = k
        BY <1>1, <2>1, <3>2
      <4>2. G[i] = p2[k - 1].src /\ p2[k - 1] = p[k]
        BY <1>2, <1>5, <4>1
      <4> QED BY <1>4, <2>1, <4>2
    <3> QED BY <3>1, <3>2
  <2>2. ASSUME NEW k \in 1 .. c, i = 0 + b + k PROVE G[i] = F[i]
    <3>1. i = 1 + (b - 1) + k
      BY <1>1, <2>2
    <3> QED BY <1>4, <1>5, <2>2, <3>1
  <2>3. 0 \in Nat /\ i \notin 1 .. 0
    OBVIOUS
  <2> QED BY <1>1, <1>4, <2>1, <2>2, <2>3, Positions
<1>7. Len(G) = Len(F)
  BY <1>1, <1>4, <1>5
<1> QED BY <1>4, <1>5, <1>6, <1>7, SameVersions DEF F, G, w, w2, p2

\* Storing takes the worker's version out, which is the first one.
LEMMA FlightStored ==
    ASSUME NEW w \in Seq(Item), Len(w) = 1, NEW p \in Seq(Item), NEW n \in Seq(Version)
    PROVE  /\ Len(Flight(w, p, n)) >= 1 /\ Flight(w, p, n)[1] = w[1].src
           /\ Without(Flight(<<>>, p, n), Flight(w, p, n), 1)
<1> DEFINE w2 == <<>>
           F == Flight(w, p, n)
           G == Flight(w2, p, n)
           b == Len(p)
           c == Len(n)
<1>1. b \in Nat /\ c \in Nat
  OBVIOUS
<1>2. w2 \in Seq(Item) /\ Len(w2) = 0
  OBVIOUS
<1> HIDE DEF w2
<1>3. Laid(F, w, p, n, 1, b, c)
  BY FlightLaid
<1>4. Laid(G, w2, p, n, 0, b, c)
  BY <1>2, FlightLaid
<1> HIDE DEF F, G, b, c
<1> USE DEF Laid
<1>5. ASSUME NEW i \in 1 .. Len(G) PROVE G[i] = F[i + 1]
  <2>1. ASSUME NEW k \in 1 .. b, i = 0 + k PROVE G[i] = F[i + 1]
    <3>1. i + 1 = 1 + k
      BY <2>1
    <3> QED BY <1>3, <1>4, <2>1, <3>1
  <2>2. ASSUME NEW k \in 1 .. c, i = 0 + b + k PROVE G[i] = F[i + 1]
    <3>1. i + 1 = 1 + b + k
      BY <1>1, <2>2
    <3> QED BY <1>3, <1>4, <2>2, <3>1
  <2>3. 0 \in Nat /\ i \notin 1 .. 0
    OBVIOUS
  <2> QED BY <1>1, <1>4, <2>1, <2>2, <2>3, Positions
<1>6. Len(G) = Len(F) - 1 /\ Len(F) >= 1 /\ 1 \in 1 .. 1
  BY <1>1, <1>3, <1>4
<1>7. F[1] = w[1].src
  BY <1>3, <1>6
<1>8. Without(G, F, 1)
  <2>1. \A i \in 1 .. Len(G) : ~(i < 1)
    OBVIOUS
  <2> QED BY <1>5, <1>6, <2>1 DEF Without
<1> QED BY <1>6, <1>7, <1>8 DEF F, G, w2

-----------------------------------------------------------------------------
(***************************************************************************)
(* The inductive invariant.  The store's own invariant IInv holds because  *)
(* whatever the worker hands to Add is a normalized event.  Flow needs     *)
(* that dropped versions stay below what the informer has observed, so     *)
(* that they cannot come back; Genuine ties every item to the version it   *)
(* was made from, which is what makes a stored episode speak for it.       *)
(***************************************************************************)
AgentTypes ==
    /\ gone \subseteq Objects
    /\ api \in [Objects -> Nat] /\ initial \in [Objects -> Nat] /\ cache \in [Objects -> Nat]
    /\ notify \in Seq(Version) /\ pipeline \in Seq(Item) /\ worker \in Seq(Item)
    /\ Len(pipeline) <= PipelineBuffer /\ Len(worker) <= 1

Phases == {"starting", "syncing", "serving"}

VersionsExist == \A o \in Objects : cache[o] <= api[o] /\ api[o] <= Len(RawEvent[o])

Genuine(x) ==
    /\ x.src[2] \in DOMAIN RawEvent[x.src[1]]
    /\ x.event = Normalize(RawEvent[x.src[1]][x.src[2]])

ItemsGenuine ==
    /\ \A i \in 1 .. Len(pipeline) : Genuine(pipeline[i])
    /\ \A i \in 1 .. Len(worker) : Genuine(worker[i])

EntriesKnown == \A x \in done : episode[x] \in Nat

PInv ==
    /\ IInv /\ phase \in Phases /\ AgentTypes /\ VersionsExist /\ ItemsGenuine
    /\ Flow(Flight(worker, pipeline, notify), done, lost, observed, cache)
    /\ EntriesKnown /\ StoredIsRepresented

\* Normalize returns a normalized event, and so does resolving the owner chain.
LEMMA NormalizedType ==
    ASSUME NEW o \in Objects, NEW v \in DOMAIN RawEvent[o]
    PROVE  /\ Normalize(RawEvent[o][v]) \in NormalizedEvent
           /\ \A chain \in OwnerChains :
                [Normalize(RawEvent[o][v]) EXCEPT !.OwnerChain = chain] \in NormalizedEvent
<1> DEFINE raw == RawEvent[o][v]
           e == Normalize(raw)
<1>1. raw \in Raw /\ normalizeMessage(raw.Message) \in Seq(STRING)
  <2>1. RawEvent[o] \in Seq(Raw)
    BY RawAssumption
  <2> QED BY <2>1, WordsAssumption
<1> HIDE DEF raw
<1>2. /\ raw.Namespace \in STRING /\ raw.Kind \in STRING /\ raw.Name \in STRING
      /\ raw.UID \in STRING /\ raw.Reason \in STRING
      /\ raw.Count \in Nat /\ raw.FirstTimestamp \in Nat /\ raw.LastTimestamp \in Nat
      /\ raw.EventTime \in Nat
  BY <1>1 DEF Raw
<1>3. <<>> \in Seq(STRING)
  OBVIOUS
<1>4. e \in NormalizedEvent
  BY <1>1, <1>2, <1>3 DEF Normalize, NormalizedEvent
<1> HIDE DEF e
<1>5. \A chain \in OwnerChains : [e EXCEPT !.OwnerChain = chain] \in NormalizedEvent
  BY <1>4, ChainAssumption DEF NormalizedEvent
<1> QED BY <1>4, <1>5 DEF e, raw

\* Steps that do not touch the store keep what is true of it.
LEMMA StoreUntouched ==
    ASSUME PInv, UNCHANGED storeVars, episode' = episode
    PROVE  IInv' /\ EntriesKnown' /\ StoredIsRepresented' /\ done' = done
<1>1. UNCHANGED vars
  BY DEF storeVars
<1>2. IInv'
  BY <1>1, NextInv DEF PInv
<1>3. byID' = byID /\ nextID' = nextID
  BY <1>1 DEF vars
<1>4. oldest' = oldest /\ done' = done
  BY <1>3 DEF oldest, maxSize, done
<1>5. EntriesKnown'
  BY <1>4 DEF PInv, EntriesKnown
<1>6. StoredIsRepresented'
  BY <1>3, <1>4 DEF PInv, StoredIsRepresented, represented, speaksFor
<1> QED BY <1>2, <1>4, <1>5, <1>6

LEMMA InitPInv == PipelineInit => PInv
<1> SUFFICES ASSUME PipelineInit PROVE PInv
  OBVIOUS
<1>1. IInv
  BY InitInv DEF PipelineInit, AgentInit
<1>2. phase \in Phases
  BY Zenon DEF PipelineInit, AgentInit, Phases
<1>3. AgentTypes
  BY BufferAssumption DEF PipelineInit, AgentInit, AgentTypes, Never
<1>4. VersionsExist
  <2>1. \A o \in Objects : Len(RawEvent[o]) \in Nat
    BY RawAssumption
  <2> QED BY <2>1 DEF PipelineInit, AgentInit, VersionsExist, Never
<1>5. ItemsGenuine
  BY DEF PipelineInit, AgentInit, ItemsGenuine
<1>6. Flow(Flight(worker, pipeline, notify), done, lost, observed, cache)
  <2>1. worker \in Seq(Item) /\ pipeline \in Seq(Item) /\ notify \in Seq(Version)
        /\ Len(worker) = 0 /\ Len(pipeline) = 0 /\ Len(notify) = 0
    BY DEF PipelineInit, AgentInit
  <2>2. Len(Flight(worker, pipeline, notify)) = 0
    <3>1. Laid(Flight(worker, pipeline, notify), worker, pipeline, notify, 0, 0, 0)
      BY <2>1, FlightLaid
    <3> QED BY <3>1 DEF Laid
  <2>3. done = {} /\ lost = {} /\ observed = {} /\ \A o \in Objects : cache[o] = 0
    BY DEF PipelineInit, AgentInit, Never, done, emptyMap
  <2> QED BY <2>2, <2>3 DEF Flow
<1>7. EntriesKnown /\ StoredIsRepresented
  BY DEF PipelineInit, AgentInit, EntriesKnown, StoredIsRepresented, done, emptyMap
<1> QED BY <1>1, <1>2, <1>3, <1>4, <1>5, <1>6, <1>7 DEF PInv

-----------------------------------------------------------------------------
\* The API server's own steps.
LEMMA PublishInv == ASSUME PInv, NEW o \in Objects, Publish(o) PROVE PInv'
<1>1. api' = [api EXCEPT ![o] = @ + 1] /\ api[o] < Len(RawEvent[o])
  BY DEF Publish
<1>2. UNCHANGED <<storeVars, phase, initial, cache, notify, pipeline, worker, observed, episode, lost, gone>>
  BY DEF Publish, agentVars
<1>3. IInv' /\ EntriesKnown' /\ StoredIsRepresented' /\ done' = done
  BY <1>2, StoreUntouched
<1>4. api \in [Objects -> Nat] /\ cache \in [Objects -> Nat] /\ Len(RawEvent[o]) \in Nat
  BY RawAssumption DEF PInv, AgentTypes
<1>5. AgentTypes'
  BY <1>1, <1>2, <1>4 DEF PInv, AgentTypes
<1>6. VersionsExist'
  BY <1>1, <1>2, <1>4 DEF PInv, VersionsExist
<1>7. ItemsGenuine' /\ phase' \in Phases
      /\ Flow(Flight(worker', pipeline', notify'), done', lost', observed', cache')
  BY <1>2, <1>3 DEF PInv, ItemsGenuine
<1> QED BY <1>3, <1>5, <1>6, <1>7 DEF PInv

LEMMA ExpireInv == ASSUME PInv, NEW o \in Objects, Expire(o) PROVE PInv'
<1>1. gone' = gone \cup {o}
  BY DEF Expire
<1>2. UNCHANGED <<storeVars, phase, initial, cache, notify, pipeline, worker, observed, episode, lost, api>>
  BY DEF Expire, agentVars
<1>3. IInv' /\ EntriesKnown' /\ StoredIsRepresented' /\ done' = done
  BY <1>2, StoreUntouched
<1>4. AgentTypes'
  BY <1>1, <1>2 DEF PInv, AgentTypes
<1>5. VersionsExist' /\ ItemsGenuine' /\ phase' \in Phases
      /\ Flow(Flight(worker', pipeline', notify'), done', lost', observed', cache')
  BY <1>2, <1>3 DEF PInv, VersionsExist, ItemsGenuine
<1> QED BY <1>3, <1>4, <1>5 DEF PInv

\* Starting the informer, and serving once its cache is synced.
LEMMA StartInv == ASSUME PInv, Start PROVE PInv'
<1>1. initial' = [o \in Objects |-> IF o \in gone THEN 0 ELSE api[o]]
  BY DEF Start
<1>2. UNCHANGED <<storeVars, cache, notify, pipeline, worker, observed, episode, lost, api, gone>>
  BY DEF Start
<1>3. IInv' /\ EntriesKnown' /\ StoredIsRepresented' /\ done' = done
  BY <1>2, StoreUntouched
<1>4. AgentTypes'
  <2>1. initial' \in [Objects -> Nat]
    BY <1>1 DEF PInv, AgentTypes
  <2> QED BY <1>2, <2>1 DEF PInv, AgentTypes
<1>5. phase' \in Phases
  BY Zenon DEF Start, Phases
<1>6. VersionsExist' /\ ItemsGenuine'
      /\ Flow(Flight(worker', pipeline', notify'), done', lost', observed', cache')
  BY <1>2, <1>3 DEF PInv, VersionsExist, ItemsGenuine
<1> QED BY <1>3, <1>4, <1>5, <1>6 DEF PInv

LEMMA SyncedInv == ASSUME PInv, Synced PROVE PInv'
<1>1. UNCHANGED <<storeVars, initial, cache, notify, pipeline, worker, observed, episode, lost, api, gone>>
  BY DEF Synced
<1>2. IInv' /\ EntriesKnown' /\ StoredIsRepresented' /\ done' = done
  BY <1>1, StoreUntouched
<1>3. phase' \in Phases
  BY Zenon DEF Synced, Phases
<1>4. AgentTypes' /\ VersionsExist' /\ ItemsGenuine'
      /\ Flow(Flight(worker', pipeline', notify'), done', lost', observed', cache')
  BY <1>1, <1>2 DEF PInv, AgentTypes, VersionsExist, ItemsGenuine
<1> QED BY <1>2, <1>3, <1>4 DEF PInv

\* The informer observes a version: it is the last one in flight.
LEMMA ObserveInv == ASSUME PInv, NEW o \in Objects, Observe(o) PROVE PInv'
<1>1. PICK v \in cache[o] + 1 .. api[o] :
        /\ cache' = [cache EXCEPT ![o] = v] /\ notify' = Append(notify, <<o, v>>)
        /\ observed' = observed \cup {<<o, v>>}
  BY DEF Observe
<1>2. UNCHANGED <<storeVars, phase, initial, pipeline, worker, episode, lost, api, gone>>
  BY DEF Observe
<1>3. IInv' /\ EntriesKnown' /\ StoredIsRepresented' /\ done' = done
  BY <1>2, StoreUntouched
<1>4. /\ cache \in [Objects -> Nat] /\ api \in [Objects -> Nat]
      /\ notify \in Seq(Version) /\ pipeline \in Seq(Item) /\ worker \in Seq(Item)
  BY DEF PInv, AgentTypes
<1>5. v \in Nat /\ v > cache[o] /\ v <= api[o] /\ <<o, v>> \in Version
  BY <1>4 DEF Version
<1>6. AgentTypes'
  <2>1. cache' \in [Objects -> Nat] /\ notify' \in Seq(Version)
    BY <1>1, <1>4, <1>5
  <2> QED BY <1>2, <2>1 DEF PInv, AgentTypes
<1>7. VersionsExist'
  <2>1. \A p \in Objects : cache'[p] = IF p = o THEN v ELSE cache[p]
    BY <1>1, <1>4
  <2> QED BY <1>2, <1>5, <2>1 DEF PInv, VersionsExist
<1>8. ItemsGenuine' /\ phase' \in Phases
  BY <1>2 DEF PInv, ItemsGenuine
<1>9. Flow(Flight(worker', pipeline', notify'), done', lost', observed', cache')
  <2> DEFINE F == Flight(worker, pipeline, notify)
  <2>1. F \in Seq(Version) /\ Flow(F, done, lost, observed, cache)
    BY <1>4, InFlight DEF PInv
  <2>2. Flight(worker', pipeline', notify') = Append(F, <<o, v>>)
    BY <1>1, <1>2, <1>4, <1>5, FlightObserve
  <2> HIDE DEF F
  <2>3. Flow(Append(F, <<o, v>>), done, lost, observed \cup {<<o, v>>}, [cache EXCEPT ![o] = v])
    BY <1>4, <1>5, <2>1, FlowAppend
  <2> QED BY <1>1, <1>2, <1>3, <2>2, <2>3
<1> QED BY <1>3, <1>6, <1>7, <1>8, <1>9 DEF PInv

\* An observed version is one the API server holds.
LEMMA ObservedExists ==
    ASSUME PInv, NEW x \in Version, Observed(x, cache)
    PROVE  x[1] \in Objects /\ x[2] \in DOMAIN RawEvent[x[1]]
<1>1. x[1] \in Objects /\ x[2] \in Nat
  BY Pairs
<1>2. /\ cache[x[1]] \in Nat /\ api[x[1]] \in Nat
      /\ cache[x[1]] <= api[x[1]] /\ api[x[1]] <= Len(RawEvent[x[1]])
  BY <1>1 DEF PInv, AgentTypes, VersionsExist
<1>3. DOMAIN RawEvent[x[1]] = 1 .. Len(RawEvent[x[1]]) /\ Len(RawEvent[x[1]]) \in Nat
  BY <1>1, RawAssumption
<1> QED BY <1>1, <1>2, <1>3 DEF Observed

\* handle sends the next version to the channel or drops it.
LEMMA HandleInv == ASSUME PInv, handle PROVE PInv'
<1> DEFINE src == Head(notify)
           item == [src |-> src, event |-> Normalize(RawEvent[src[1]][src[2]])]
           F == Flight(worker, pipeline, notify)
           k == Len(worker) + Len(pipeline) + 1
<1>1. notify # <<>> /\ sent(item) /\ notify' = Tail(notify)
  BY DEF handle
<1>2. UNCHANGED <<storeVars, phase, initial, cache, worker, observed, episode, api, gone>>
  BY DEF handle
<1>3. IInv' /\ EntriesKnown' /\ StoredIsRepresented' /\ done' = done
  BY <1>2, StoreUntouched
<1>4. notify \in Seq(Version) /\ pipeline \in Seq(Item) /\ worker \in Seq(Item)
      /\ cache \in [Objects -> Nat]
  BY DEF PInv, AgentTypes
<1>5. src \in Version /\ notify' \in Seq(Version)
  BY <1>1, <1>4, HeadTail
<1>6. F \in Seq(Version) /\ Flow(F, done, lost, observed, cache)
  BY <1>4, InFlight DEF PInv
<1>7. k \in 1 .. Len(F) /\ F[k] = src /\ Without(Flight(worker, pipeline, Tail(notify)), F, k)
  BY <1>1, <1>4, FlightDrop
<1> HIDE DEF F, k, src
<1>8. Observed(src, cache)
  BY <1>6, <1>7 DEF Flow
<1>9. src[1] \in Objects /\ src[2] \in DOMAIN RawEvent[src[1]]
  BY <1>5, <1>8, ObservedExists
<1>10. item \in Item /\ Genuine(item) /\ item.src = src
  <2>1. Normalize(RawEvent[src[1]][src[2]]) \in NormalizedEvent
    BY <1>9, NormalizedType
  <2> QED BY <1>5, <1>9, <2>1 DEF Item, Genuine
<1> HIDE DEF item
<1>11. phase' \in Phases /\ VersionsExist'
  BY <1>2 DEF PInv, VersionsExist
<1>12. CASE Len(pipeline) < PipelineBuffer
  <2>1. pipeline' = Append(pipeline, item) /\ lost' = lost
    BY <1>1, <1>12 DEF sent
  <2>2. /\ pipeline' \in Seq(Item) /\ Len(pipeline') = Len(pipeline) + 1 /\ Len(pipeline) \in Nat
        /\ \A i \in 1 .. Len(pipeline) : pipeline'[i] = pipeline[i]
        /\ pipeline'[Len(pipeline) + 1] = item
    BY <1>4, <1>10, <2>1, Appended
  <2>3. AgentTypes'
    <3>1. Len(pipeline') <= PipelineBuffer
      BY <1>12, <2>2, BufferAssumption
    <3> QED BY <1>2, <1>5, <2>2, <3>1 DEF PInv, AgentTypes
  <2>4. ItemsGenuine'
    <3>1. \A i \in 1 .. Len(pipeline') : i \in 1 .. Len(pipeline) \/ i = Len(pipeline) + 1
      BY <2>2
    <3>2. \A i \in 1 .. Len(pipeline') : Genuine(pipeline'[i])
      BY <1>10, <2>2, <3>1 DEF PInv, ItemsGenuine
    <3>3. \A i \in 1 .. Len(worker') : Genuine(worker'[i])
      BY <1>2 DEF PInv, ItemsGenuine
    <3> QED BY <3>2, <3>3 DEF ItemsGenuine, Genuine
  <2>5. Flight(worker', pipeline', notify') = F
    BY <1>1, <1>2, <1>4, <1>10, <2>1, FlightSend DEF F, src
  <2>6. Flow(Flight(worker', pipeline', notify'), done', lost', observed', cache')
    BY <1>2, <1>3, <1>6, <2>1, <2>5
  <2> QED BY <1>3, <1>11, <2>3, <2>4, <2>6 DEF PInv
<1>13. CASE ~(Len(pipeline) < PipelineBuffer)
  <2>1. pipeline' = pipeline /\ lost' = lost \cup {src}
    BY <1>1, <1>10, <1>13 DEF sent
  <2>2. AgentTypes' /\ ItemsGenuine'
    BY <1>2, <1>5, <2>1 DEF PInv, AgentTypes, ItemsGenuine
  <2> DEFINE G == Flight(worker, pipeline, Tail(notify))
  <2>3. G \in Seq(Version)
    BY <1>1, <1>4, <1>5, InFlight
  <2>4. Flight(worker', pipeline', notify') = G
    BY <1>1, <1>2, <2>1
  <2> HIDE DEF G
  <2>5. Without(G, F, k)
    BY <1>7 DEF G
  <2>6. Flow(G, done, lost \cup {F[k]}, observed, cache)
    BY <1>4, <1>6, <1>7, <2>3, <2>5, FlowDrop
  <2>7. Flow(Flight(worker', pipeline', notify'), done', lost', observed', cache')
    BY <1>2, <1>3, <1>7, <2>1, <2>4, <2>6
  <2> QED BY <1>3, <1>11, <2>2, <2>7 DEF PInv
<1> QED BY <1>12, <1>13

\* The worker receives the first item of the channel.
LEMMA ReceiveInv == ASSUME PInv, Receive PROVE PInv'
<1>1. /\ worker = <<>> /\ pipeline # <<>>
      /\ worker' = <<Head(pipeline)>> /\ pipeline' = Tail(pipeline)
  BY DEF Receive
<1>2. UNCHANGED <<storeVars, phase, initial, cache, notify, observed, episode, lost, api, gone>>
  BY DEF Receive
<1>3. IInv' /\ EntriesKnown' /\ StoredIsRepresented' /\ done' = done
  BY <1>2, StoreUntouched
<1>4. notify \in Seq(Version) /\ pipeline \in Seq(Item) /\ Len(pipeline) <= PipelineBuffer
  BY DEF PInv, AgentTypes
<1>5. /\ Len(pipeline) \in Nat /\ Len(pipeline) >= 1
      /\ Head(pipeline) \in Item /\ Head(pipeline) = pipeline[1]
      /\ pipeline' \in Seq(Item) /\ Len(pipeline') = Len(pipeline) - 1
      /\ \A i \in 1 .. Len(pipeline') : pipeline'[i] = pipeline[i + 1]
  BY <1>1, <1>4, HeadTail
<1>6. worker' \in Seq(Item) /\ Len(worker') = 1 /\ worker'[1] = pipeline[1]
  BY <1>1, <1>5
<1>7. AgentTypes'
  <2>1. Len(pipeline') <= PipelineBuffer /\ Len(worker') <= 1
    BY <1>4, <1>5, <1>6, BufferAssumption
  <2> QED BY <1>2, <1>5, <1>6, <2>1 DEF PInv, AgentTypes
<1>8. ItemsGenuine'
  <2>1. \A i \in 1 .. Len(pipeline') : i + 1 \in 1 .. Len(pipeline)
    BY <1>5
  <2>2. \A i \in 1 .. Len(pipeline') : Genuine(pipeline'[i])
    BY <1>5, <2>1 DEF PInv, ItemsGenuine
  <2>3. 1 \in 1 .. Len(pipeline) /\ \A i \in 1 .. Len(worker') : i = 1
    BY <1>5, <1>6
  <2>4. \A i \in 1 .. Len(worker') : Genuine(worker'[i])
    BY <1>6, <2>3 DEF PInv, ItemsGenuine
  <2> QED BY <2>2, <2>4 DEF ItemsGenuine, Genuine
<1>9. phase' \in Phases /\ VersionsExist'
  BY <1>2 DEF PInv, VersionsExist
<1>10. Flow(Flight(worker', pipeline', notify'), done', lost', observed', cache')
  <2>1. Flight(worker', pipeline', notify') = Flight(worker, pipeline, notify)
    BY <1>1, <1>2, <1>4, FlightReceive
  <2> QED BY <1>2, <1>3, <2>1 DEF PInv
<1> QED BY <1>3, <1>7, <1>8, <1>9, <1>10 DEF PInv

\* After a crash the agent starts over with an empty store.
LEMMA CrashInv == ASSUME PInv, Crash PROVE PInv'
<1>1. UNCHANGED <<api, gone>>
  BY DEF Crash
<1>2. IInv'
  <2>1. Init'
    BY DEF Crash, Init, maxSize, emptyMap
  <2>2. (Init => IInv)'
    BY InitInv, PTL
  <2> QED BY <2>1, <2>2
<1>3. phase' \in Phases
  BY Zenon DEF Crash, Phases
<1>4. /\ worker' = <<>> /\ pipeline' = <<>> /\ notify' = <<>> /\ done' = {} /\ lost' = {}
      /\ observed' = {} /\ initial' = Never /\ cache' = Never
  BY DEF Crash, done, emptyMap
<1>5. AgentTypes'
  <2>1. Never \in [Objects -> Nat]
    BY DEF Never
  <2> QED BY <1>1, <1>4, <2>1, BufferAssumption DEF PInv, AgentTypes
<1>6. VersionsExist'
  <2>1. \A o \in Objects : api[o] \in Nat
    BY DEF PInv, AgentTypes
  <2> QED BY <1>1, <1>4, <2>1 DEF PInv, VersionsExist, Never
<1>7. ItemsGenuine'
  BY <1>4 DEF ItemsGenuine
<1>8. Flow(Flight(worker', pipeline', notify'), done', lost', observed', cache')
  <2>1. worker' \in Seq(Item) /\ pipeline' \in Seq(Item) /\ notify' \in Seq(Version)
        /\ Len(worker') = 0 /\ Len(pipeline') = 0 /\ Len(notify') = 0
    BY <1>4
  <2>2. Len(Flight(worker', pipeline', notify')) = 0
    <3>1. Laid(Flight(worker', pipeline', notify'), worker', pipeline', notify', 0, 0, 0)
      BY <2>1, FlightLaid
    <3> QED BY <3>1 DEF Laid
  <2>3. done' = {} /\ lost' = {} /\ observed' = {} /\ \A o \in Objects : cache'[o] = 0
    BY <1>4 DEF Never
  <2> QED BY <2>2, <2>3 DEF Flow
<1>9. EntriesKnown' /\ StoredIsRepresented'
  BY <1>4 DEF EntriesKnown, StoredIsRepresented
<1> QED BY <1>2, <1>3, <1>5, <1>6, <1>7, <1>8, <1>9 DEF PInv

-----------------------------------------------------------------------------
\* The times of a raw event that Normalize keeps.
LastOf(raw) == IF raw.EventTime # 0 THEN raw.EventTime ELSE raw.LastTimestamp

FirstOf(raw) == IF raw.FirstTimestamp # 0 THEN raw.FirstTimestamp ELSE raw.EventTime

\* The episode y speaks for the raw event.
Represents(y, raw) ==
    /\ y.Reason = raw.Reason /\ y.InvolvedObjectUID = raw.UID
    /\ y.Count > 0 /\ y.Count >= raw.Count
    /\ y.LastSeen >= LastOf(raw)
    /\ FirstOf(raw) # 0 => y.FirstSeen \in 1 .. FirstOf(raw)

LEMMA SpeakingRepresents ==
    ASSUME NEW i, NEW raw
    PROVE  speaksFor(i, raw) <=> Represents(byID[i], raw)
BY DEF speaksFor, Represents, LastOf, FirstOf

\* The episode y covers the normalized event e.
Covers(y, e) ==
    /\ y.Reason = e.Reason /\ y.InvolvedObjectUID = e.InvolvedObjectUID
    /\ y.LastSeen >= e.LastSeen /\ y.Count >= e.Count
    /\ e.FirstSeen # 0 => y.FirstSeen \in 1 .. e.FirstSeen

\* What covers a normalized event speaks for the raw event it was made from.
LEMMA CoveringSpeaks ==
    ASSUME NEW o \in Objects, NEW v \in DOMAIN RawEvent[o],
           NEW y \in NormalizedEvent, NEW e \in NormalizedEvent, Covers(y, e),
           e.Reason = Normalize(RawEvent[o][v]).Reason,
           e.InvolvedObjectUID = Normalize(RawEvent[o][v]).InvolvedObjectUID,
           e.LastSeen = Normalize(RawEvent[o][v]).LastSeen,
           e.FirstSeen = Normalize(RawEvent[o][v]).FirstSeen,
           e.Count = Normalize(RawEvent[o][v]).Count
    PROVE  Represents(y, RawEvent[o][v])
<1> DEFINE raw == RawEvent[o][v]
<1>1. raw \in Raw
  <2>1. RawEvent[o] \in Seq(Raw)
    BY RawAssumption
  <2> QED BY <2>1
<1>2. raw.Count \in Nat /\ raw.FirstTimestamp \in Nat /\ raw.LastTimestamp \in Nat /\ raw.EventTime \in Nat
  BY <1>1 DEF Raw
<1>3. /\ e.Reason = raw.Reason /\ e.InvolvedObjectUID = raw.UID
      /\ e.LastSeen = LastOf(raw) /\ e.FirstSeen = FirstOf(raw)
      /\ e.Count = IF raw.Count = 0 THEN 1 ELSE raw.Count
  BY <1>2 DEF Normalize, LastOf, FirstOf
<1> HIDE DEF raw
<1>4. y.Count \in Nat /\ y.LastSeen \in Nat /\ y.FirstSeen \in Nat
  BY DEF NormalizedEvent
<1>5. y.Reason = raw.Reason /\ y.InvolvedObjectUID = raw.UID
  BY <1>3 DEF Covers
<1>6. y.Count > 0 /\ y.Count >= raw.Count
  BY <1>2, <1>3, <1>4 DEF Covers
<1>7. y.LastSeen >= LastOf(raw)
  BY <1>3 DEF Covers
<1>8. FirstOf(raw) # 0 => y.FirstSeen \in 1 .. FirstOf(raw)
  BY <1>3 DEF Covers
<1> QED BY <1>5, <1>6, <1>7, <1>8 DEF Represents, raw

\* The episode Add continues has the key of the event.
LEMMA LatestKey ==
    ASSUME IInv, NEW e \in NormalizedEvent, Continues(e)
    PROVE  dedupKey(byID[latestID(e)]) = dedupKey(e)
<1> DEFINE key == dedupKey(e)
           ids == dedupIdx[key]
<1>1. key \in DOMAIN dedupIdx
  <2> HIDE DEF key
  <2>1. Len(<<>>) = 0
    OBVIOUS
  <2>2. Len(episodes(dedupIdx, key)) > 0
    BY DEF Continues, key
  <2> QED BY <2>1, <2>2 DEF episodes
<1>2. ids \in Seq(Nat) /\ ids # <<>> /\ NewestOf(ids, stored(byID, key))
  BY <1>1 DEF IInv, TypeOK, PartialFcn, DedupTracksLatest, DedupExact
<1> HIDE DEF key, ids
<1>3. Len(ids) \in 1 .. Len(ids)
  BY <1>2
<1>4. Last(ids) \in stored(byID, key)
  BY <1>2, <1>3 DEF Last, NewestOf
<1> QED BY <1>4 DEF stored, latestID, key, ids

\* Whatever Add does with an event, the entry it gives it covers it afterwards.
LEMMA AddCovers ==
    ASSUME IInv, NEW e \in NormalizedEvent, Add(e)
    PROVE  /\ entryOf(e) \in Nat /\ entryOf(e) \in DOMAIN byID'
           /\ Covers(byID'[entryOf(e)], e)
<1>1. e.LastSeen \in Nat /\ e.FirstSeen \in Nat /\ e.Count \in Nat
  BY DEF NormalizedEvent
<1>2. CASE Update(e)
  <2> DEFINE id == latestID(e)
             x == byID[id]
             y == updated(x, e)
  <2>1. /\ id \in DOMAIN byID /\ id \in Nat /\ x \in NormalizedEvent
        /\ byID' = [byID EXCEPT ![id] = y] /\ entryOf(e) = id
    BY <1>2 DEF IInv, TypeOK, PartialFcn, Update, Continues, entryOf
  <2>2. dedupKey(x) = dedupKey(e)
    BY <1>2, LatestKey DEF Update
  <2>3. x.InvolvedObjectUID = e.InvolvedObjectUID /\ x.Reason = e.Reason
    BY <2>2 DEF dedupKey
  <2>4. /\ y.InvolvedObjectUID = x.InvolvedObjectUID /\ y.Reason = x.Reason /\ y.Count = e.Count
        /\ y.LastSeen = IF e.LastSeen > x.LastSeen THEN e.LastSeen ELSE x.LastSeen
        /\ y.FirstSeen = IF e.FirstSeen # 0 /\ (x.FirstSeen = 0 \/ e.FirstSeen < x.FirstSeen)
                         THEN e.FirstSeen ELSE x.FirstSeen
    BY <2>1, UpdatedEvent
  <2>5. x.LastSeen \in Nat /\ x.FirstSeen \in Nat
    BY <2>1 DEF NormalizedEvent
  <2> HIDE DEF id, x, y
  <2>6. Covers(y, e)
    BY <1>1, <2>3, <2>4, <2>5 DEF Covers
  <2>7. id \in DOMAIN byID' /\ byID'[id] = y
    BY <2>1
  <2> QED BY <2>1, <2>6, <2>7
<1>3. CASE Insert(e)
  <2> DEFINE m == IF full THEN evict(order[head]) ELSE maps
  <2>1. byID' = put(m.byID, nextID, e) /\ entryOf(e) = nextID /\ nextID \in Nat
    BY <1>3 DEF Insert, entryOf, IInv, TypeOK
  <2> HIDE DEF m
  <2>2. nextID \in DOMAIN byID' /\ byID'[nextID] = e
    BY <2>1 DEF put
  <2>3. Covers(e, e)
    BY <1>1 DEF Covers
  <2> QED BY <2>1, <2>2, <2>3
<1> QED BY <1>2, <1>3 DEF Add

\* An episode that only grew still speaks for what it spoke for.
LEMMA GrownSpeaks ==
    ASSUME NEW x \in NormalizedEvent, NEW y \in NormalizedEvent, NEW raw \in Raw,
           Represents(x, raw), dedupKey(y) = dedupKey(x),
           y.Count >= x.Count, y.LastSeen >= x.LastSeen,
           x.FirstSeen # 0 => y.FirstSeen \in 1 .. x.FirstSeen
    PROVE  Represents(y, raw)
<1>1. y.Reason = x.Reason /\ y.InvolvedObjectUID = x.InvolvedObjectUID
  BY DEF dedupKey
<1>2. /\ x.Count \in Nat /\ x.LastSeen \in Nat /\ x.FirstSeen \in Nat
      /\ y.Count \in Nat /\ y.LastSeen \in Nat /\ y.FirstSeen \in Nat
  BY DEF NormalizedEvent
<1>3. LastOf(raw) \in Nat /\ FirstOf(raw) \in Nat /\ raw.Count \in Nat
  BY DEF Raw, LastOf, FirstOf
<1>4. y.Count > 0 /\ y.Count >= raw.Count /\ y.LastSeen >= LastOf(raw)
  BY <1>2, <1>3 DEF Represents
<1>5. FirstOf(raw) # 0 => y.FirstSeen \in 1 .. FirstOf(raw)
  BY <1>2, <1>3 DEF Represents
<1> QED BY <1>1, <1>4, <1>5 DEF Represents

\* Add forgets no entry but the ones a ring of maxSize cannot hold any more.
LEMMA StillStored ==
    ASSUME IInv, IInv', NEW e, Add(e)
    PROVE  /\ oldest \in Nat /\ oldest' \in Nat /\ oldest <= oldest'
           /\ \A i \in DOMAIN byID : i \in Nat /\ (i \in DOMAIN byID' \/ i < oldest')
<1>1. maxSize \in Nat /\ nextID \in Nat /\ nextID' \in Nat /\ maxSize' = maxSize
  BY MaxSizePositive DEF IInv, TypeOK, maxSize
<1>2. nextID' = nextID \/ nextID' = nextID + 1
  BY Zenon DEF Add, Update, Insert
<1>3. oldest' = IF nextID' <= maxSize THEN 0 ELSE nextID' - maxSize
  BY <1>1, Zenon DEF oldest
<1>4. oldest \in Nat /\ oldest' \in Nat /\ oldest <= oldest'
  <2> DEFINE m == maxSize
             k == nextID'
             old(a) == IF a <= m THEN 0 ELSE a - m
  <2>1. m \in Nat /\ k \in Nat /\ nextID \in Nat /\ (k = nextID \/ k = nextID + 1)
    BY <1>1, <1>2
  <2>2. oldest = old(nextID) /\ oldest' = old(k)
    BY <1>3, Zenon DEF oldest
  <2> HIDE DEF m, k
  <2>3. old(nextID) \in Nat /\ old(k) \in Nat /\ old(nextID) <= old(k)
    BY <2>1
  <2> QED BY <2>2, <2>3, Zenon
<1>5. DOMAIN byID = oldest .. nextID - 1
  BY Zenon DEF IInv, RingWindow
<1>6. DOMAIN byID' = oldest' .. nextID' - 1
  BY Zenon DEF IInv, RingWindow
<1> HIDE DEF oldest
<1>7. ASSUME NEW i \in oldest .. nextID - 1
      PROVE  i \in Nat /\ (i \in oldest' .. nextID' - 1 \/ i < oldest')
  <2> DEFINE o == oldest'
             n == nextID'
  <2> HIDE DEF o, n
  <2>1. o \in Nat /\ n \in Nat /\ (n = nextID \/ n = nextID + 1) /\ oldest <= o
    BY <1>1, <1>2, <1>4 DEF o, n
  <2>2. i \in Nat /\ (i \in o .. n - 1 \/ i < o)
    BY <1>1, <1>4, <2>1
  <2> QED BY <2>2 DEF o, n
<1> QED BY <1>4, <1>5, <1>6, <1>7, Zenon

\* The worker stores its item.
LEMMA StoreInv == ASSUME PInv, Store PROVE PInv'
<1> DEFINE x == worker[1]
           o == x.src[1]
           v == x.src[2]
           n == Normalize(RawEvent[o][v])
           F == Flight(worker, pipeline, notify)
           G == Flight(<<>>, pipeline, notify)
<1>1. /\ worker # <<>> /\ worker' = <<>>
      /\ done' = done \cup {x.src} /\ episode'[x.src] = entryOf(x.event)
      /\ \A z \in done : z # x.src => episode'[z] = episode[z]
  BY DEF Store, done, put
<1>2. UNCHANGED <<phase, initial, cache, notify, pipeline, observed, lost, api, gone>>
  BY DEF Store
<1>3. /\ notify \in Seq(Version) /\ pipeline \in Seq(Item) /\ worker \in Seq(Item)
      /\ cache \in [Objects -> Nat] /\ Len(worker) <= 1
  BY DEF PInv, AgentTypes
<1>4. Len(worker) = 1 /\ x \in Item
  <2>1. Len(worker) \in Nat /\ Len(worker) >= 1 /\ worker[1] \in Item
    BY <1>1, <1>3, HeadTail
  <2>2. Len(worker) <= 1
    BY <1>3
  <2>3. \A k \in Nat : k >= 1 /\ k <= 1 => k = 1
    OBVIOUS
  <2> QED BY <2>1, <2>2, <2>3, Zenon
<1>5. Genuine(x) /\ x.src \in Version
  <2>1. 1 \in 1 .. Len(worker)
    BY <1>4
  <2> QED BY <1>4, <2>1 DEF PInv, ItemsGenuine, Item
<1>6. o \in Objects /\ v \in DOMAIN RawEvent[o] /\ x.event = n
  BY <1>5, Pairs DEF Genuine
<1>7. PICK e : /\ Add(e)
               /\ e = n \/ \E chain \in OwnerChains : e = [n EXCEPT !.OwnerChain = chain]
  BY <1>6 DEF Store
<1>8. n \in NormalizedEvent /\ e \in NormalizedEvent
  BY <1>6, <1>7, NormalizedType
<1>9. /\ e.Reason = n.Reason /\ e.InvolvedObjectUID = n.InvolvedObjectUID
      /\ e.LastSeen = n.LastSeen /\ e.FirstSeen = n.FirstSeen /\ e.Count = n.Count
  <2> HIDE DEF n
  <2> QED BY <1>7, <1>8 DEF NormalizedEvent
<1>10. IInv'
  BY <1>7, <1>8, UpdateInv, InsertInv DEF PInv, Add
<1>11. /\ Grows /\ entryOf(e) \in Nat /\ entryOf(e) \in DOMAIN byID'
       /\ Covers(byID'[entryOf(e)], e)
  BY <1>7, <1>8, AddGrows, AddCovers DEF PInv
<1>12. entryOf(e) = entryOf(n)
  <2> HIDE DEF n
  <2> QED BY <1>9 DEF entryOf, Continues, latestID, dedupKey, isSameBurst
<1> DEFINE id == entryOf(e)
<1>13. episode'[x.src] = id
  BY <1>1, <1>6, <1>12
<1>14. \A i \in DOMAIN byID' : byID'[i] \in NormalizedEvent
  BY <1>10 DEF IInv, TypeOK, PartialFcn
<1>15. Represents(byID'[id], RawEvent[o][v])
  BY <1>6, <1>8, <1>9, <1>11, <1>14, CoveringSpeaks
<1> HIDE DEF id
<1>16. EntriesKnown'
  BY <1>1, <1>11, <1>13 DEF PInv, EntriesKnown, id
<1>17. ASSUME NEW z \in done'
       PROVE  \/ episode'[z] < oldest'
              \/ /\ episode'[z] \in DOMAIN byID'
                 /\ Represents(byID'[episode'[z]], RawEvent[z[1]][z[2]])
  <2>1. CASE z = x.src
    BY <1>11, <1>13, <1>15, <2>1 DEF id
  <2>2. CASE z # x.src
    <3> DEFINE i == episode[z]
    <3>1. z \in done /\ episode'[z] = i /\ i \in Nat
      BY <1>1, <2>2 DEF PInv, EntriesKnown
    <3>2. /\ oldest \in Nat /\ oldest' \in Nat /\ oldest <= oldest'
          /\ \A k \in DOMAIN byID : k \in DOMAIN byID' \/ k < oldest'
      BY <1>7, <1>10, StillStored DEF PInv
    <3>3. i < oldest \/ (i \in DOMAIN byID /\ speaksFor(i, RawEvent[z[1]][z[2]]))
      BY <3>1 DEF PInv, StoredIsRepresented, represented
    <3> HIDE DEF i
    <3>4. CASE i < oldest
      BY <3>1, <3>2, <3>4
    <3>5. CASE i \in DOMAIN byID /\ i \in DOMAIN byID' /\ speaksFor(i, RawEvent[z[1]][z[2]])
      <4>1. z \in Version /\ Observed(z, cache)
        BY <3>1 DEF PInv, Flow
      <4>2. RawEvent[z[1]][z[2]] \in Raw
        BY <4>1, ObservedExists, RawAssumption
      <4>3. Represents(byID[i], RawEvent[z[1]][z[2]])
        BY <3>5, SpeakingRepresents
      <4>4. byID[i] \in NormalizedEvent /\ byID'[i] \in NormalizedEvent
        BY <1>14, <3>5 DEF PInv, IInv, TypeOK, PartialFcn
      <4>5. /\ dedupKey(byID'[i]) = dedupKey(byID[i])
            /\ byID'[i].Count >= byID[i].Count /\ byID'[i].LastSeen >= byID[i].LastSeen
            /\ byID[i].FirstSeen # 0 => byID'[i].FirstSeen \in 1 .. byID[i].FirstSeen
        BY <1>11, <3>5 DEF Grows
      <4>6. Represents(byID'[i], RawEvent[z[1]][z[2]])
        BY <4>2, <4>3, <4>4, <4>5, GrownSpeaks
      <4> QED BY <3>1, <3>5, <4>6
    <3> QED BY <3>1, <3>2, <3>3, <3>4, <3>5
  <2> QED BY <2>1, <2>2
<1>18. StoredIsRepresented'
  BY <1>17 DEF StoredIsRepresented, represented, speaksFor, Represents, LastOf, FirstOf
<1>19. phase' \in Phases /\ VersionsExist'
  BY <1>2 DEF PInv, VersionsExist
<1>20. AgentTypes'
  BY <1>1, <1>2 DEF PInv, AgentTypes
<1>21. ItemsGenuine'
  BY <1>1, <1>2 DEF PInv, ItemsGenuine
<1>22. Flow(Flight(worker', pipeline', notify'), done', lost', observed', cache')
  <2>1. F \in Seq(Version) /\ Flow(F, done, lost, observed, cache)
    BY <1>3, InFlight DEF PInv
  <2>2. Len(F) >= 1 /\ F[1] = x.src /\ Without(G, F, 1)
    BY <1>3, <1>4, FlightStored
  <2>3. <<>> \in Seq(Item)
    OBVIOUS
  <2>4. G \in Seq(Version)
    BY <1>3, <2>3, InFlight
  <2>5. Flight(worker', pipeline', notify') = G
    BY <1>1, <1>2
  <2> HIDE DEF F, G, x
  <2>6. Flow(G, done \cup {F[1]}, lost, observed, cache)
    BY <1>3, <2>1, <2>2, <2>4, FlowStore
  <2> QED BY <1>1, <1>2, <2>2, <2>5, <2>6
<1> QED BY <1>10, <1>16, <1>18, <1>19, <1>20, <1>21, <1>22 DEF PInv

-----------------------------------------------------------------------------
LEMMA NextPInv == PInv /\ [PipelineNext]_allVars => PInv'
<1> SUFFICES ASSUME PInv, [PipelineNext]_allVars PROVE PInv'
  OBVIOUS
<1>1. CASE UNCHANGED allVars
  <2>1. UNCHANGED <<storeVars, phase, initial, cache, notify, pipeline, worker, observed, episode, lost, api, gone>>
    BY <1>1 DEF allVars, agentVars
  <2>2. IInv' /\ EntriesKnown' /\ StoredIsRepresented' /\ done' = done
    BY <2>1, StoreUntouched
  <2>3. AgentTypes' /\ VersionsExist' /\ ItemsGenuine' /\ phase' \in Phases
        /\ Flow(Flight(worker', pipeline', notify'), done', lost', observed', cache')
    BY <2>1, <2>2 DEF PInv, AgentTypes, VersionsExist, ItemsGenuine
  <2> QED BY <2>2, <2>3 DEF PInv
<1>2. ASSUME NEW o \in Objects, Publish(o) \/ Expire(o) \/ Observe(o) PROVE PInv'
  BY <1>2, PublishInv, ExpireInv, ObserveInv
<1>3. CASE Start \/ handle \/ Synced \/ Receive \/ Store \/ Crash
  BY <1>3, StartInv, HandleInv, SyncedInv, ReceiveInv, StoreInv, CrashInv
<1> QED BY <1>1, <1>2, <1>3 DEF PipelineNext

LEMMA PipelineInvariance == PipelineSpec => []PInv
BY InitPInv, NextPInv, PTL DEF PipelineSpec

\* The versions in flight are those of the property's definition.
LEMMA FlightIsInFlight ==
    ASSUME PInv
    PROVE  /\ inFlight = Flight(worker, pipeline, notify) /\ inFlight \in Seq(Version)
           /\ DOMAIN inFlight = 1 .. Len(inFlight) /\ Flow(inFlight, done, lost, observed, cache)
<1>1. inFlight = Flight(worker, pipeline, notify)
  BY DEF inFlight, Flight
<1>2. Flight(worker, pipeline, notify) \in Seq(Version)
  BY InFlight DEF PInv, AgentTypes
<1> HIDE DEF inFlight
<1> QED BY <1>1, <1>2 DEF PInv

\* The agent's state keeps its types: the channel never holds more than its
\* capacity, the worker one item, and every notification waiting for handle
\* names a version the API server holds.
THEOREM PipelineTypeCorrect == PipelineSpec => []PipelineTypeOK
<1>1. ASSUME PInv PROVE PipelineTypeOK
  <2>1. TypeOK /\ phase \in {"starting", "syncing", "serving"}
    BY <1>1, Zenon DEF PInv, IInv, Phases
  <2>2. AgentTypes
    BY <1>1 DEF PInv
  <2>3. ASSUME NEW i \in DOMAIN notify PROVE notify[i][2] \in 1 .. api[notify[i][1]]
    <3> DEFINE F == Flight(worker, pipeline, notify)
               k == Len(worker) + Len(pipeline) + i
    <3>1. i \in 1 .. Len(notify) /\ notify[i] \in Version
      BY <2>2 DEF AgentTypes
    <3>2. Len(F) = Len(worker) + Len(pipeline) + Len(notify) /\ F[k] = notify[i]
      BY <2>2, <3>1, InFlight DEF AgentTypes
    <3>3. Len(worker) \in Nat /\ Len(pipeline) \in Nat /\ Len(notify) \in Nat
      BY <2>2 DEF AgentTypes
    <3> HIDE DEF F
    <3>4. k \in 1 .. Len(F)
      BY <3>1, <3>2, <3>3
    <3>5. Observed(notify[i], cache)
      BY <1>1, <3>2, <3>4 DEF PInv, Flow, F
    <3>6. notify[i][1] \in Objects /\ notify[i][2] \in Nat
      BY <3>1, Pairs
    <3>7. /\ cache[notify[i][1]] \in Nat /\ api[notify[i][1]] \in Nat
          /\ cache[notify[i][1]] <= api[notify[i][1]]
      BY <1>1, <2>2, <3>6 DEF AgentTypes, PInv, VersionsExist
    <3> QED BY <3>5, <3>6, <3>7 DEF Observed
  <2> QED BY <2>1, <2>2, <2>3 DEF PipelineTypeOK, AgentTypes
<1> QED BY <1>1, PipelineInvariance, PTL

\* No version the informer observed vanishes on its way to the store, the
\* superseded ones included, none is made up and none is delivered twice.
THEOREM DeliveryCorrect == PipelineSpec => []NothingVanishes
<1>1. ASSUME PInv PROVE NothingVanishes
  <2>1. /\ inFlight \in Seq(Version) /\ DOMAIN inFlight = 1 .. Len(inFlight)
        /\ Flow(inFlight, done, lost, observed, cache)
    BY <1>1, FlightIsInFlight
  <2>2. ToSet(inFlight) = {inFlight[i] : i \in 1 .. Len(inFlight)}
    BY <2>1 DEF ToSet
  <2> HIDE DEF inFlight
  <2>3. \A i \in 1 .. Len(inFlight) : i \in Int /\ inFlight[i] \in Version
    BY <2>1
  <2>4. observed = ToSet(inFlight) \cup done \cup lost
    BY <2>1, <2>2 DEF Flow
  <2>5. \A i, j \in 1 .. Len(inFlight) : i < j => inFlight[i] # inFlight[j]
    <3>1. \A i, j \in 1 .. Len(inFlight) : i < j => Before(inFlight[i], inFlight[j])
      BY <2>1 DEF Flow
    <3> QED BY <2>3, <3>1, NotBeforeItself
  <2>6. IsInjective(inFlight)
    <3>1. \A i, j \in 1 .. Len(inFlight) : inFlight[i] = inFlight[j] => i = j
      BY <2>3, <2>5
    <3> QED BY <2>1, <3>1 DEF IsInjective
  <2>7. \A i \in 1 .. Len(inFlight) : inFlight[i] \notin done /\ inFlight[i] \notin lost
    BY <2>1, <2>3, NotBeforeItself DEF Flow
  <2>8. ToSet(inFlight) \cap (done \cup lost) = {} /\ done \cap lost = {}
    BY <2>1, <2>2, <2>7 DEF Flow
  <2> QED BY <2>4, <2>6, <2>8 DEF NothingVanishes
<1> QED BY <1>1, PipelineInvariance, PTL

\* The versions of one Event object reach the store in the order they were
\* published.
THEOREM OrderCorrect == PipelineSpec => []VersionsInOrder
<1>1. ASSUME PInv PROVE VersionsInOrder
  <2>1. DOMAIN inFlight = 1 .. Len(inFlight) /\ Flow(inFlight, done, lost, observed, cache)
    BY <1>1, FlightIsInFlight
  <2> HIDE DEF inFlight
  <2> QED BY <2>1 DEF VersionsInOrder, Flow, Before
<1> QED BY <1>1, PipelineInvariance, PTL

\* Every stored version is represented by the episode Add put it in until the
\* ring has evicted that episode, however versions were merged or split.
THEOREM RepresentedCorrect == PipelineSpec => []StoredIsRepresented
<1>1. PInv => StoredIsRepresented
  BY DEF PInv
<1> QED BY <1>1, PipelineInvariance, PTL

=============================================================================
