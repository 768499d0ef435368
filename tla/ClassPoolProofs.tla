---------------------------- MODULE ClassPoolProofs ----------------------------
(***************************************************************************)
(* What the shared class cache guarantees for every set of names, threads, *)
(* sources and every cap.                                                  *)
(*                                                                         *)
(* PoolInv adds to the properties what a thread inside get() knows: the    *)
(* name it is loading is not pinned (a pinned one would have been found),  *)
(* and the instance it is about to publish is one of the name it was asked *)
(* for.  The eviction loop is a CHOOSE of the least number of pops that is *)
(* enough; LeastInRange says that there is one.  At the end: no thread     *)
(* delays a lookup of another.                                             *)
(***************************************************************************)
EXTENDS ClassPool, ExtremeTheorems

LEMMA EvictedFits ==
  ASSUME NEW c, NEW q \in Seq(Names)
  PROVE  Evicted(c, q) \in 0 .. Len(q) /\ Fits(c, q, Evicted(c, q))
<1> DEFINE S == {k \in 0 .. Len(q) : Fits(c, q, k)}
<1>1. Len(q) \in S
  BY DEF Fits
<1>2. PICK k \in S : \A j \in 0 .. k - 1 : j \notin S
  <2>1. S \in SUBSET (0 .. Len(q)) /\ Len(q) \in Nat
    OBVIOUS
  <2> HIDE DEF S
  <2> QED BY <1>1, <2>1, LeastInRange
<1>3. k \in 0 .. Len(q) /\ Fits(c, q, k) /\ \A j \in 0 .. k - 1 : ~Fits(c, q, j)
  BY <1>2
<1> QED
  BY <1>3 DEF Evicted

-----------------------------------------------------------------------------
Distinct(q) == \A j, k \in 1 .. Len(q) : j # k => q[j] # q[k]

(* An eviction pops the front of the queue and drops exactly those names,  *)
(* until the map fits or only pinned names are left.                       *)
LEMMA EvictionKeepsOrder ==
  ASSUME NEW c, NEW q \in Seq(Names), IsMap(c), Distinct(q),
         Members(q) = DOMAIN c \ Pinned, Pinned \subseteq DOMAIN c, Evict(c, q)
  PROVE  /\ IsMap(cache')
         /\ order' \in Seq(Names)
         /\ Distinct(order')
         /\ Members(order') = DOMAIN cache' \ Pinned
         /\ Pinned \subseteq DOMAIN cache'
         /\ DOMAIN cache' \subseteq DOMAIN c
         /\ \A n \in DOMAIN cache' : cache'[n] = c[n]
         /\ Cap # 0 => \/ Cardinality(DOMAIN cache') <= Cap
                       \/ DOMAIN cache' = Pinned
<1> DEFINE k == Evicted(c, q)
           Gone == {q[i] : i \in 1 .. k}
<1>1. k \in 0 .. Len(q) /\ Fits(c, q, k)
  BY EvictedFits
<1>2. DOMAIN cache' = DOMAIN c \ Gone /\ order' = SubSeq(q, k + 1, Len(q))
  BY DEF Evict, Without
<1>3. cache' = [n \in DOMAIN c \ Gone |-> c[n]]
  BY DEF Evict, Without
<1> HIDE DEF k
<1>4. /\ order' \in Seq(Names) /\ Len(order') = Len(q) - k
      /\ \A i \in 1 .. Len(q) - k : order'[i] = q[i + k]
  BY <1>1, <1>2
<1>5. Distinct(order')
  BY <1>1, <1>4 DEF Distinct
<1>6. Members(order') = Members(q) \ Gone
  <2>1. ASSUME NEW n \in Members(order') PROVE n \in Members(q) \ Gone
    <3>1. PICK i \in 1 .. Len(q) - k : n = q[i + k]
      BY <1>4 DEF Members
    <3> QED
      BY <1>1, <3>1 DEF Members, Distinct
  <2>2. ASSUME NEW n \in Members(q) \ Gone PROVE n \in Members(order')
    <3>1. PICK j \in 1 .. Len(q) : n = q[j] /\ j > k
      BY <1>1 DEF Members
    <3>2. j - k \in 1 .. Len(q) - k /\ order'[j - k] = n
      BY <1>1, <1>4, <3>1
    <3> QED
      BY <1>4, <3>2 DEF Members
  <2> QED
    BY <2>1, <2>2
<1>7. Gone \subseteq DOMAIN c \ Pinned
  BY <1>1 DEF Members
<1>8. Cap # 0 => Cardinality(DOMAIN cache') <= Cap \/ DOMAIN cache' = Pinned
  <2>1. CASE k = Len(q)
    <3>1. Gone = Members(q)
      BY <2>1 DEF Members
    <3> QED
      BY <1>2, <3>1
  <2>2. CASE k # Len(q)
    BY <1>1, <1>2, <2>2 DEF Fits
  <2> QED
    BY <2>1, <2>2
<1>9. IsMap(cache')
  BY <1>3 DEF IsMap
<1> QED
  BY <1>2, <1>3, <1>4, <1>5, <1>6, <1>7, <1>8, <1>9

-----------------------------------------------------------------------------
(* What a thread inside get() knows of the name it asked for.              *)
InFlight ==
    \A t \in Threads :
        /\ pc[t] # "idle" => want[t] \in Names
        /\ pc[t] \in {"read", "miss", "publish"} => want[t] \notin Pinned
        /\ pc[t] = "publish" => mine[t].name = want[t] /\ want[t] \in Indexed \ Unparsable

(* A map holds every instance under its own name, and only loadable ones.  *)
Honest(f) == \A n \in DOMAIN f : f[n].name = n /\ n \in Loadable

MapsAreHonest == Honest(cache) /\ \A t \in Threads : Honest(l1[t])

PoolInv ==
    /\ TypeOK
    /\ CacheDiscipline
    /\ PinnedStay
    /\ InFlight
    /\ MapsAreHonest

LEMMA InsertKeepsMap ==
  ASSUME NEW f, NEW n \in Names, NEW i \in Instances, IsMap(f)
  PROVE  /\ IsMap(With(f, n, i))
         /\ DOMAIN With(f, n, i) = DOMAIN f \cup {n}
         /\ With(f, n, i)[n] = i
         /\ \A m \in DOMAIN f : m # n => With(f, n, i)[m] = f[m]
         /\ Honest(f) /\ i.name = n /\ n \in Loadable => Honest(With(f, n, i))
BY DEF IsMap, With, Honest

(* A thread's L1 stays a map of its own names when an entry is added, with *)
(* or without the clearing.                                                *)
LEMMA L1Keeps ==
  ASSUME l1 \in [Threads -> {l1[t] : t \in Threads}], \A t \in Threads : IsMap(l1[t]),
         \A t \in Threads : Honest(l1[t]),
         NEW t \in Threads, NEW n \in Loadable \cap Names, NEW i \in Instances, i.name = n,
         L1Insert(t, n, i)
  PROVE  /\ l1' \in [Threads -> {l1'[u] : u \in Threads}]
         /\ \A u \in Threads : IsMap(l1'[u]) /\ Honest(l1'[u])
<1> DEFINE base == IF Cardinality(DOMAIN l1[t]) >= L1Cap
                   THEN Without(l1[t], DOMAIN l1[t]) ELSE l1[t]
<1>1. IsMap(base) /\ Honest(base)
  BY DEF Without, IsMap, Honest
<1>2. IsMap(With(base, n, i)) /\ Honest(With(base, n, i))
  <2> HIDE DEF base
  <2> QED
    BY <1>1, InsertKeepsMap
<1>3. l1' = [l1 EXCEPT ![t] = With(base, n, i)]
  BY DEF L1Insert
<1> HIDE DEF base
<1>4. \A u \in Threads : l1'[u] = IF u = t THEN With(base, n, i) ELSE l1[u]
  BY <1>3
<1>5. l1' \in [Threads -> {l1'[u] : u \in Threads}]
  BY <1>3, <1>4
<1> QED
  BY <1>2, <1>4, <1>5

LEMMA PoolInit == Init => PoolInv
<1> SUFFICES ASSUME Init PROVE PoolInv
  OBVIOUS
<1> USE PoolSources, PoolBounds DEF Init
<1>1. IsMap(cache) /\ Cached = Pinned
  BY DEF IsMap, Instances, Cached
<1>2. \A t \in Threads : IsMap(l1[t]) /\ Honest(l1[t])
  BY DEF IsMap, Honest
<1>3. TypeOK
  BY <1>1, <1>2 DEF TypeOK
<1>4. IsFiniteSet(Pinned) /\ Cardinality(Pinned) \in Nat
  BY FS_Subset, FS_CardinalityType
<1>5. CacheDiscipline
  BY <1>1, <1>4 DEF CacheDiscipline, Members, Larger
<1>6. PinnedStay /\ InFlight
  BY DEF PinnedStay, InFlight, Cached
<1>7. MapsAreHonest
  BY <1>2 DEF MapsAreHonest, Honest, Loadable
<1> QED
  BY <1>3, <1>5, <1>6, <1>7 DEF PoolInv

(* The steps of a lookup that leave the shared cache alone.                *)
LEMMA BeginInv ==
  ASSUME PoolInv, NEW t \in Threads, NEW n \in Names, Begin(t, n)
  PROVE  PoolInv'
<1> USE PoolSources, PoolBounds DEF PoolInv, Begin, Give, poolVars
<1>1. TypeOK'
  <2>1. \A m \in DOMAIN l1[t] : l1[t][m] \in Instances
    BY DEF TypeOK, IsMap
  <2>2. /\ calls' \in [Threads -> 0 .. MaxCalls]
        /\ want' \in [Threads -> Names \cup {NoName}]
    BY DEF TypeOK
  <2>3. /\ answer' \in [Threads -> Instances \cup {NoClass}]
        /\ pc' \in [Threads -> {"idle", "look", "read", "miss", "publish"}]
    BY <2>1 DEF TypeOK
  <2> QED
    BY <2>2, <2>3 DEF TypeOK
<1>2. CacheDiscipline' /\ PinnedStay'
  BY DEF CacheDiscipline, PinnedStay, Cached
<1>3. InFlight'
  BY DEF InFlight, TypeOK
<1>4. MapsAreHonest'
  BY DEF MapsAreHonest, Honest
<1> QED
  BY <1>1, <1>2, <1>3, <1>4

LEMMA LookInv ==
  ASSUME PoolInv, NEW t \in Threads, Look(t)
  PROVE  PoolInv'
<1> USE PoolSources, PoolBounds DEF PoolInv, Look, Give, poolVars
<1>1. want[t] \in Names
  BY DEF InFlight
<1>2. want[t] \in Cached => /\ cache[want[t]] \in Instances
                           /\ cache[want[t]].name = want[t]
                           /\ want[t] \in Loadable
  BY DEF TypeOK, IsMap, Cached, MapsAreHonest, Honest
<1>3. /\ l1' \in [Threads -> {l1'[u] : u \in Threads}]
      /\ \A u \in Threads : IsMap(l1'[u]) /\ Honest(l1'[u])
  <2>1. CASE want[t] \in Cached /\ L1Insert(t, want[t], cache[want[t]])
    BY <1>1, <1>2, <2>1, L1Keeps DEF TypeOK, MapsAreHonest
  <2>2. CASE UNCHANGED l1
    BY <2>2 DEF TypeOK, MapsAreHonest
  <2> QED
    BY <2>1, <2>2
<1>4. TypeOK'
  BY <1>2, <1>3 DEF TypeOK
<1>5. CacheDiscipline' /\ PinnedStay'
  BY DEF CacheDiscipline, PinnedStay, Cached
<1>6. InFlight'
  BY <1>1 DEF InFlight, PinnedStay, TypeOK
<1>7. MapsAreHonest'
  BY <1>3 DEF MapsAreHonest, Honest
<1> QED
  BY <1>4, <1>5, <1>6, <1>7

LEMMA ReadInv ==
  ASSUME PoolInv, NEW t \in Threads, Read(t)
  PROVE  PoolInv'
<1> USE PoolSources, PoolBounds DEF PoolInv, Read, poolVars
<1>1. want[t] \in Names
  BY DEF InFlight
<1>2. TypeOK'
  <2>1. CASE /\ mine' = [mine EXCEPT ![t] = [name |-> want[t], serial |-> serial]]
             /\ serial' = serial + 1
             /\ pc' = [pc EXCEPT ![t] = "publish"]
    BY <1>1, <2>1 DEF TypeOK, Instances
  <2>2. CASE UNCHANGED <<mine, serial>> /\ pc' = [pc EXCEPT ![t] = "miss"]
    BY <2>2 DEF TypeOK
  <2> QED
    BY <2>1, <2>2
<1>3. CacheDiscipline' /\ PinnedStay'
  BY DEF CacheDiscipline, PinnedStay, Cached
<1>4. InFlight'
  <2>1. CASE /\ want[t] \in Indexed \ Unparsable
             /\ mine' = [mine EXCEPT ![t] = [name |-> want[t], serial |-> serial]]
             /\ pc' = [pc EXCEPT ![t] = "publish"]
    <3>1. mine'[t].name = want[t] /\ pc'[t] = "publish"
      BY <2>1 DEF TypeOK
    <3>2. \A u \in Threads \ {t} : pc'[u] = pc[u] /\ mine'[u] = mine[u]
      BY <2>1 DEF TypeOK
    <3> QED
      BY <1>1, <2>1, <3>1, <3>2 DEF InFlight
  <2>2. CASE UNCHANGED <<mine, serial>> /\ pc' = [pc EXCEPT ![t] = "miss"]
    BY <1>1, <2>2 DEF InFlight, TypeOK
  <2> QED
    BY <2>1, <2>2
<1>5. MapsAreHonest'
  BY DEF MapsAreHonest, Honest
<1> QED
  BY <1>2, <1>3, <1>4, <1>5

LEMMA MissInv ==
  ASSUME PoolInv, NEW t \in Threads, Miss(t)
  PROVE  PoolInv'
<1> USE DEF PoolInv, Miss, Give
<1>1. TypeOK'
  BY DEF TypeOK, InFlight
<1>2. CacheDiscipline' /\ PinnedStay'
  BY DEF CacheDiscipline, PinnedStay, Cached
<1>3. InFlight'
  BY DEF InFlight, TypeOK
<1>4. MapsAreHonest'
  BY DEF MapsAreHonest, Honest
<1> QED
  BY <1>1, <1>2, <1>3, <1>4

(* The winner of a parse race inserts, queues and evicts; its name is      *)
(* neither pinned nor queued yet.                                          *)
LEMMA WinnerInv ==
  ASSUME PoolInv, NEW t \in Threads, pc[t] = "publish", want[t] \notin Cached,
         Evict(With(cache, want[t], mine[t]), Append(order, want[t]))
  PROVE  /\ IsMap(cache') /\ order' \in Seq(Names)
         /\ CacheDiscipline' /\ PinnedStay' /\ Honest(cache')
<1> DEFINE c == With(cache, want[t], mine[t])
           q == Append(order, want[t])
<1> USE PoolSources, PoolBounds
<1>1. /\ want[t] \in Names \ Pinned /\ want[t] \in Loadable
      /\ mine[t] \in Instances /\ mine[t].name = want[t]
  BY DEF PoolInv, TypeOK, InFlight, Loadable, Instances, NoClass
<1>2. IsMap(cache) /\ Honest(cache) /\ order \in Seq(Names)
  BY DEF PoolInv, TypeOK, MapsAreHonest
<1>3. /\ IsMap(c) /\ Honest(c) /\ DOMAIN c = Cached \cup {want[t]}
      /\ \A n \in Cached : c[n] = cache[n]
  <2>1. want[t] \in Names /\ want[t] \notin DOMAIN cache
    BY <1>1 DEF Cached
  <2>2. IsMap(c) /\ DOMAIN c = DOMAIN cache \cup {want[t]}
    BY <1>1, <1>2 DEF With, IsMap
  <2>3. \A n \in DOMAIN cache : n # want[t] => c[n] = cache[n]
    BY DEF With
  <2>4. Honest(c)
    BY <1>1, <1>2, <2>1, InsertKeepsMap
  <2> QED
    BY <2>1, <2>2, <2>3, <2>4 DEF Cached
<1>4. /\ q \in Seq(Names) /\ Len(q) = Len(order) + 1 /\ q[Len(order) + 1] = want[t]
      /\ \A i \in 1 .. Len(order) : q[i] = order[i]
  BY <1>1, <1>2
<1>5. Members(order) = Cached \ Pinned /\ Distinct(order) /\ Pinned \subseteq Cached
  BY DEF PoolInv, CacheDiscipline, PinnedStay, Distinct
<1>6. Members(q) = Members(order) \cup {want[t]}
  BY <1>2, <1>4 DEF Members
<1>7. Distinct(q)
  BY <1>2, <1>4, <1>5 DEF Distinct, Members
<1>8. Members(q) = DOMAIN c \ Pinned /\ Pinned \subseteq DOMAIN c
  BY <1>1, <1>3, <1>5, <1>6
<1> HIDE DEF c, q
<1>9. /\ IsMap(cache')
      /\ order' \in Seq(Names)
      /\ Distinct(order')
      /\ Members(order') = DOMAIN cache' \ Pinned
      /\ Pinned \subseteq DOMAIN cache'
      /\ DOMAIN cache' \subseteq DOMAIN c
      /\ \A n \in DOMAIN cache' : cache'[n] = c[n]
      /\ Cap # 0 => \/ Cardinality(DOMAIN cache') <= Cap
                    \/ DOMAIN cache' = Pinned
  <2>1. Evict(c, q)
    BY DEF c, q
  <2> QED
    BY <1>3, <1>4, <1>7, <1>8, <2>1, EvictionKeepsOrder
<1>10. IsFiniteSet(Names) /\ IsFiniteSet(Pinned)
  BY FS_Subset
<1>11. Cardinality(Pinned) \in Nat /\ Cardinality(DOMAIN cache') \in Nat
  BY <1>9, <1>10, FS_Subset, FS_CardinalityType DEF IsMap
<1>12. CacheDiscipline'
  BY <1>9, <1>11 DEF CacheDiscipline, Distinct, Cached, Larger
<1>13. PinnedStay'
  BY <1>3, <1>5, <1>9 DEF PinnedStay, Cached, PoolInv
<1>14. Honest(cache')
  BY <1>3, <1>9 DEF Honest
<1> QED
  BY <1>9, <1>12, <1>13, <1>14

LEMMA PublishInv ==
  ASSUME PoolInv, NEW t \in Threads, Publish(t)
  PROVE  PoolInv'
<1> USE DEF Publish, Give
<1>1. /\ want[t] \in Names /\ want[t] \in Loadable
      /\ mine[t] \in Instances /\ mine[t].name = want[t]
  BY DEF PoolInv, TypeOK, InFlight, Loadable, Instances, NoClass
<1>2. /\ IsMap(cache') /\ order' \in Seq(Names)
      /\ CacheDiscipline' /\ PinnedStay' /\ Honest(cache')
  <2>1. CASE want[t] \in Cached
    BY <2>1 DEF PoolInv, TypeOK, MapsAreHonest, CacheDiscipline, PinnedStay, Cached
  <2>2. CASE want[t] \notin Cached
    BY <2>2, WinnerInv
  <2> QED
    BY <2>1, <2>2
<1>3. PICK i \in Instances : /\ i.name = want[t]
                             /\ L1Insert(t, want[t], i)
                             /\ answer' = [answer EXCEPT ![t] = i]
  <2>1. CASE want[t] \in Cached
    <3>1. cache[want[t]] \in Instances /\ cache[want[t]].name = want[t]
      BY <2>1 DEF PoolInv, TypeOK, IsMap, Cached, MapsAreHonest, Honest
    <3> QED
      BY <2>1, <3>1
  <2>2. CASE want[t] \notin Cached
    BY <1>1, <2>2
  <2> QED
    BY <2>1, <2>2
<1>4. /\ l1' \in [Threads -> {l1'[u] : u \in Threads}]
      /\ \A u \in Threads : IsMap(l1'[u]) /\ Honest(l1'[u])
  BY <1>1, <1>3, L1Keeps DEF PoolInv, TypeOK, MapsAreHonest
<1>5. TypeOK'
  BY <1>2, <1>3, <1>4 DEF PoolInv, TypeOK
<1>6. InFlight'
  BY DEF PoolInv, TypeOK, InFlight
<1>7. MapsAreHonest'
  BY <1>2, <1>4 DEF MapsAreHonest
<1> QED
  BY <1>2, <1>5, <1>6, <1>7 DEF PoolInv

LEMMA StutterInv ==
  ASSUME PoolInv, UNCHANGED vars
  PROVE  PoolInv'
BY DEF vars, poolVars, threadVars, PoolInv, TypeOK, CacheDiscipline, PinnedStay, InFlight,
       MapsAreHonest, Honest, Cached

(* The invariant holds in every behaviour of the pool.                     *)
THEOREM PoolInvariant == Spec => []PoolInv
<1>1. PoolInv /\ [Next]_vars => PoolInv'
  BY BeginInv, LookInv, ReadInv, MissInv, PublishInv, StutterInv DEF Next, Step
<1> QED
  BY PoolInit, <1>1, PTL DEF Spec

(* Type correctness, for any names, threads, sources and cap.              *)
THEOREM TypeCorrect == Spec => []TypeOK
BY PoolInvariant, PTL DEF PoolInv

(* The queue lists exactly the evictable names of the cache, once each,    *)
(* and the cache never outgrows its cap: an eviction never finds a stale   *)
(* entry, and never drops a pinned class.                                  *)
THEOREM CacheIsDisciplined == Spec => []CacheDiscipline
BY PoolInvariant, PTL DEF PoolInv

(* A class given as a .class file is served from the cache, as the         *)
(* instance parsed at startup, for as long as the program runs.            *)
THEOREM PinnedClassesStay == Spec => []PinnedStay
BY PoolInvariant, PTL DEF PoolInv

-----------------------------------------------------------------------------
(* Where listed classes can always be read.                                *)

(* What is known as missing, or about to be, is in no source; and a        *)
(* finished lookup was answered from the sources alone.                    *)
Pure ==
    /\ negative \cap Loadable = {}
    /\ \A t \in Threads : pc[t] = "miss" => want[t] \notin Loadable
    /\ LookupIsPure

Correct(n, i) == IF n \in Loadable THEN i.name = n ELSE i = NoClass

(* A step of one thread keeps Pure if what it adds is missing, and what it *)
(* answers is correct.                                                     *)
LEMMA PureStep ==
  ASSUME TypeOK, Pure, NEW t \in Threads,
         pc' \in [Threads -> {"idle", "look", "read", "miss", "publish"}],
         \A u \in Threads \ {t} :
             pc'[u] = pc[u] /\ want'[u] = want[u] /\ answer'[u] = answer[u],
         negative' \cap Loadable = {},
         pc'[t] = "miss" => want'[t] \notin Loadable,
         pc'[t] = "idle" => Correct(want'[t], answer'[t])
  PROVE  Pure'
BY DEF Pure, LookupIsPure, Correct, TypeOK, Loadable

LEMMA PureNext ==
  ASSUME ~ReadMayFail, PoolInv, Pure, [Next]_vars
  PROVE  Pure'
<1> USE DEF PoolInv
<1>1. CASE UNCHANGED vars
  BY <1>1 DEF Pure, LookupIsPure, vars, poolVars, threadVars
<1>2. ASSUME NEW t \in Threads, NEW n \in Names, Begin(t, n) PROVE Pure'
  <2>1. want'[t] = n /\ UNCHANGED negative
    BY <1>2 DEF Begin, TypeOK, poolVars
  <2>2. n \in DOMAIN l1[t] => Correct(n, l1[t][n])
    BY DEF MapsAreHonest, Honest, Correct
  <2>3. CASE n \in DOMAIN l1[t]
    <3>1. answer'[t] = l1[t][n] /\ pc'[t] = "idle"
      BY <1>2, <2>3 DEF Begin, Give, TypeOK
    <3> QED
      BY <1>2, <2>1, <2>2, <2>3, <3>1, PureStep DEF Begin, Give, TypeOK, Pure
  <2>4. CASE n \notin DOMAIN l1[t]
    BY <1>2, <2>1, <2>4, PureStep DEF Begin, TypeOK, Pure
  <2> QED
    BY <2>3, <2>4
<1>3. ASSUME NEW t \in Threads, Look(t) PROVE Pure'
  <2> USE <1>3 DEF Look
  <2>1. UNCHANGED <<want, negative>> /\ want[t] \in Names
    BY DEF poolVars, InFlight
  <2>2. CASE want[t] \in Cached /\ Give(t, cache[want[t]])
    <3>1. Correct(want[t], cache[want[t]])
      BY <2>2 DEF MapsAreHonest, Honest, Correct, Cached
    <3>2. answer'[t] = cache[want[t]] /\ pc'[t] = "idle"
      BY <2>2 DEF Give, TypeOK
    <3> QED
      BY <2>1, <2>2, <3>1, <3>2, PureStep DEF Give, TypeOK, Pure
  <2>3. CASE want[t] \in negative \ Cached /\ Give(t, NoClass)
    <3>1. Correct(want[t], NoClass)
      BY <2>3 DEF Pure, Correct
    <3>2. answer'[t] = NoClass /\ pc'[t] = "idle"
      BY <2>3 DEF Give, TypeOK
    <3> QED
      BY <2>1, <2>3, <3>1, <3>2, PureStep DEF Give, TypeOK, Pure
  <2>4. CASE pc' = [pc EXCEPT ![t] = "read"] /\ UNCHANGED answer
    BY <2>1, <2>4, PureStep DEF TypeOK, Pure
  <2> QED
    BY <2>2, <2>3, <2>4
<1>4. ASSUME NEW t \in Threads, Read(t) PROVE Pure'
  <2>1. UNCHANGED <<want, answer, negative>>
    BY <1>4 DEF Read, poolVars
  <2>2. want[t] \notin Pinned
    BY <1>4 DEF Read, InFlight
  <2> QED
    BY <1>4, <2>1, <2>2, PureStep DEF Read, TypeOK, Pure, Loadable
<1>5. ASSUME NEW t \in Threads, Miss(t) PROVE Pure'
  <2>1. want[t] \notin Loadable /\ Correct(want[t], NoClass)
    BY <1>5 DEF Miss, Pure, Correct
  <2> QED
    BY <1>5, <2>1, PureStep DEF Miss, Give, TypeOK, Pure
<1>6. ASSUME NEW t \in Threads, Publish(t) PROVE Pure'
  <2> USE <1>6 DEF Publish
  <2>1. UNCHANGED <<want, negative>> /\ want[t] \in Loadable
    BY DEF InFlight, Loadable
  <2>2. PICK i : i.name = want[t] /\ Give(t, i)
    BY DEF InFlight, MapsAreHonest, Honest, Cached
  <2>3. answer'[t] = i /\ pc'[t] = "idle" /\ Correct(want[t], i)
    BY <2>1, <2>2 DEF Give, TypeOK, Correct
  <2> QED
    BY <2>1, <2>2, <2>3, PureStep DEF Give, TypeOK, Pure
<1> QED
  BY <1>1, <1>2, <1>3, <1>4, <1>5, <1>6 DEF Next, Step

(* Whatever the threads race on, evict or miss, a lookup answers what the  *)
(* sources say: an instance of the class asked for exactly when one can be *)
(* loaded.                                                                 *)
THEOREM LookupsArePure ==
  ASSUME ~ReadMayFail
  PROVE  Spec => []LookupIsPure
<1>1. Init => Pure
  BY DEF Init, Pure, LookupIsPure
<1>2. PoolInv /\ Pure /\ [Next]_vars => Pure'
  BY PureNext
<1> QED
  BY <1>1, <1>2, PoolInvariant, PTL DEF Spec, Pure

-----------------------------------------------------------------------------
(* The sections of get() a thread has before it.                           *)
SectionsLeft(t) ==
    CASE pc[t] = "look" -> 3
      [] pc[t] = "read" -> 2
      [] pc[t] \in {"miss", "publish"} -> 1
      [] pc[t] = "idle" -> 0

(* Inside get() a thread's own step leaves it less, and no other's step    *)
(* leaves it more or less.                                                 *)
NobodyDelaysALookup ==
    \A t \in Threads :
        pc[t] # "idle" => IF Step(t) THEN SectionsLeft(t)' < SectionsLeft(t)
                                     ELSE SectionsLeft(t)' = SectionsLeft(t)

(* Whatever the others load, evict or miss meanwhile, a lookup that goes   *)
(* on is over after at most three sections of its own: no thread's race    *)
(* for a class, lost or won, sends another back to the start.              *)
THEOREM LookupsAreWaitFree ==
  Spec => /\ [](\A t \in Threads : SectionsLeft(t) \in 0 .. 3)
          /\ [][NobodyDelaysALookup]_vars
<1>1. TypeOK => \A t \in Threads : SectionsLeft(t) \in 0 .. 3
  <2> SUFFICES ASSUME TypeOK, NEW t \in Threads PROVE SectionsLeft(t) \in 0 .. 3
    OBVIOUS
  <2>1. pc[t] \in {"idle", "look", "read", "miss", "publish"}
    BY DEF TypeOK
  <2> QED
    BY <2>1 DEF SectionsLeft
<1>2. TypeOK /\ [Next]_vars => [NobodyDelaysALookup]_vars
  <2> SUFFICES ASSUME TypeOK, Next, NEW t \in Threads, pc[t] # "idle"
               PROVE  IF Step(t) THEN SectionsLeft(t)' < SectionsLeft(t)
                                 ELSE SectionsLeft(t)' = SectionsLeft(t)
    BY DEF NobodyDelaysALookup
  <2>1. pc \in [Threads -> {"idle", "look", "read", "miss", "publish"}]
    BY DEF TypeOK
  <2>2. CASE Step(t)
    <3>1. CASE Look(t)
      <4>1. pc[t] = "look" /\ pc'[t] \in {"idle", "read"}
        BY <2>1, <3>1 DEF Look, Give
      <4> QED
        BY <2>2, <4>1 DEF SectionsLeft
    <3>2. CASE Read(t)
      <4>1. pc[t] = "read" /\ pc'[t] \in {"miss", "publish"}
        BY <2>1, <3>2 DEF Read
      <4> QED
        BY <2>2, <4>1 DEF SectionsLeft
    <3>3. CASE Miss(t) \/ Publish(t)
      <4>1. pc[t] \in {"miss", "publish"} /\ pc'[t] = "idle"
        BY <2>1, <3>3 DEF Miss, Publish, Give
      <4> QED
        BY <2>2, <4>1 DEF SectionsLeft
    <3> QED
      BY <2>2, <3>1, <3>2, <3>3 DEF Step
  <2>3. CASE ~Step(t)
    <3>1. PICK u \in Threads : Step(u) \/ \E n \in Names : Begin(u, n)
      BY DEF Next
    <3>2. u # t
      <4>1. ASSUME NEW n \in Names, Begin(u, n) PROVE u # t
        BY <4>1 DEF Begin
      <4> QED
        BY <2>3, <3>1, <4>1
    <3>3. pc'[t] = pc[t]
      <4>1. PICK at : pc' = [pc EXCEPT ![u] = at]
        BY <3>1 DEF Step, Look, Read, Miss, Publish, Begin, Give
      <4> QED
        BY <2>1, <3>2, <4>1
    <3> QED
      BY <2>3, <3>3, Zenon DEF SectionsLeft
  <2> QED
    BY <2>2, <2>3
<1> QED
  BY <1>1, <1>2, TypeCorrect, PTL DEF Spec
=============================================================================
