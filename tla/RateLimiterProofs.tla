------------------------- MODULE RateLimiterProofs -------------------------
(***************************************************************************)
(* What the limiter guarantees for every set of client keys, every limit,  *)
(* window and cap.  IInv strengthens the invariants of RateLimiter: it     *)
(* keeps what the map stores and what was granted in step with each other. *)
(***************************************************************************)
EXTENDS RateLimiter, FiniteSetTheorems, WellFoundedInduction, TLAPS

\* No list in the map is empty (an empty list could not be evicted), every
\* list is finite and no longer than the limit.
ListsSound ==
  \A k \in DOMAIN hits : /\ hits[k] # {}
                         /\ IsFiniteSet(hits[k])
                         /\ Cardinality(hits[k]) <= Limit

\* The live part of the stored list is the live part of what was granted.
StoreMatchesGrants ==
  \A k \in Keys : Live(granted[k], now) = Live(Entry(hits, k), now)

GrantsFinite == \A k \in Keys : IsFiniteSet(granted[k])

RefusalsPast == last.at <= now

IInv ==
  /\ TypeOK
  /\ IsFiniteSet(DOMAIN hits)
  /\ KeysBounded
  /\ ListsSound
  /\ StoreMatchesGrants
  /\ GrantsFinite
  /\ RefusalsPast
  /\ RefusalEarned
  /\ NothingStaleSurvivesCleanup

\* The shape every map of the limiter has between two statements of `allow`.
GoodMap(m) ==
  /\ DOMAIN m \subseteq Keys
  /\ IsFiniteSet(DOMAIN m)
  /\ \A k \in DOMAIN m : /\ m[k] \subseteq Hit
                         /\ m[k] # {}
                         /\ IsFiniteSet(m[k])
                         /\ Cardinality(m[k]) <= Limit

----------------------------------------------------------------------------
\* Filtering keeps a subset: finite, and no larger.
LEMMA LiveSubset ==
  ASSUME NEW s, IsFiniteSet(s), NEW t
  PROVE  /\ Live(s, t) \subseteq s
         /\ IsFiniteSet(Live(s, t))
         /\ Cardinality(Live(s, t)) <= Cardinality(s)
<1>1. Live(s, t) \subseteq s
  BY DEF Live
<1>2. QED
  BY <1>1, FS_Subset

\* In a map whose lists are non-empty some key is at least as old as all the
\* others: the loop of evictOldest ends with a key.
LEMMA OldestExists ==
  ASSUME NEW m, GoodMap(m), DOMAIN m # {}
  PROVE  Oldest(m) # {}
<1> DEFINE K == DOMAIN m
           Older(k) == {j \in K : \E h \in m[j] : \A g \in m[k] : h.at < g.at}
           Cuts == {Older(k) : k \in K}
<1>1. IsFiniteSet(K)
  BY DEF GoodMap
<1>2. IsWellFoundedOn(StrictSubsetOrdering(K), FiniteSubsetsOf(K))
  BY FS_StrictSubsetOrderingWellFounded
<1>3. Cuts \subseteq FiniteSubsetsOf(K)
  BY <1>1, FS_Subset DEF FiniteSubsetsOf
<1>4. Cuts # {}
  <2>1. PICK k \in K : TRUE
    OBVIOUS
  <2>2. Older(k) \in Cuts
    BY <2>1
  <2> QED BY <2>2
<1>5. \E x \in Cuts : \A y \in Cuts : ~ (<<y, x>> \in StrictSubsetOrdering(K))
  <2> HIDE DEF Cuts
  <2> QED BY <1>2, <1>3, <1>4, WFMin
<1>6. PICK k \in K : \A i \in K : ~ (<<Older(i), Older(k)>> \in StrictSubsetOrdering(K))
  <2>1. PICK x \in Cuts : \A y \in Cuts : ~ (<<y, x>> \in StrictSubsetOrdering(K))
    BY <1>5
  <2>2. PICK k \in K : x = Older(k)
    BY <2>1
  <2>3. \A i \in K : Older(i) \in Cuts
    OBVIOUS
  <2>4. \A i \in K : ~ (<<Older(i), x>> \in StrictSubsetOrdering(K))
    <3> HIDE DEF Cuts, Older, K
    <3> QED BY <2>1, <2>3
  <2>5. \A i \in K : ~ (<<Older(i), Older(k)>> \in StrictSubsetOrdering(K))
    <3> HIDE DEF Cuts, Older, K
    <3> QED BY <2>2, <2>4
  <2> QED BY <2>2, <2>5
<1>7. ASSUME NEW j \in K, NEW g \in m[j], \A h \in m[k] : ~ (h.at <= g.at)
      PROVE FALSE
  <2>0. \A i \in K : \A h \in m[i] : h.at \in Nat
    BY DEF GoodMap, Hit
  <2>1. \A h \in m[k] : g.at < h.at
    BY <2>0, <1>7
  <2>2. j \in Older(k)
    BY <2>1
  <2>3. j \notin Older(j)
    BY <2>0
  <2>4. Older(j) \subseteq Older(k)
    <3> SUFFICES ASSUME NEW i \in K, NEW h \in m[i], \A f \in m[j] : h.at < f.at
                 PROVE  \A f \in m[k] : h.at < f.at
      OBVIOUS
    <3> QED BY <2>0, <2>1
  <2>5. <<Older(j), Older(k)>> \in StrictSubsetOrdering(K)
    BY <2>2, <2>3, <2>4 DEF StrictSubsetOrdering
  <2> QED BY <2>5, <1>6
<1>8. m[k] # {}
  BY DEF GoodMap
<1>9. k \in Oldest(m)
  BY <1>7, <1>8 DEF Oldest
<1> QED BY <1>9

----------------------------------------------------------------------------
\* The periodic cleanup keeps the shape of the map and every live hit.
LEMMA CleanedMap ==
  ASSUME IInv
  PROVE  /\ GoodMap(Cleaned)
         /\ DOMAIN Cleaned \subseteq DOMAIN hits
         /\ \A k \in Keys : Live(Entry(Cleaned, k), now) = Live(Entry(hits, k), now)
         /\ \A k \in DOMAIN Cleaned : \A h \in Cleaned[k] : h.at + Window > CleanupTime
         /\ CleanupTime \in 0 .. now
<1>1. CASE ~(now - lastCleanup >= CleanupInterval)
  <2>1. Cleaned = hits /\ CleanupTime = lastCleanup
    BY <1>1 DEF Cleaned, CleanupTime
  <2>2. GoodMap(hits)
    BY DEF IInv, GoodMap, TypeOK, ListsSound
  <2> QED BY <2>1, <2>2 DEF IInv, TypeOK, NothingStaleSurvivesCleanup
<1>2. CASE now - lastCleanup >= CleanupInterval
  <2> DEFINE D == {j \in DOMAIN hits : Live(hits[j], now) # {}}
  <2>1. Cleaned = [k \in D |-> Live(hits[k], now)] /\ CleanupTime = now
    BY <1>2 DEF Cleaned, CleanupTime, CleanupExpired
  <2> HIDE DEF D
  <2>2. D \subseteq DOMAIN hits /\ \A k \in D : Live(hits[k], now) # {}
    BY DEF D
  <2>3. IsFiniteSet(D)
    BY <2>2, FS_Subset DEF IInv
  <2>4. \A k \in D : /\ Live(hits[k], now) \subseteq Hit
                     /\ IsFiniteSet(Live(hits[k], now))
                     /\ Cardinality(Live(hits[k], now)) <= Limit
    <3> SUFFICES ASSUME NEW k \in D
                 PROVE  /\ Live(hits[k], now) \subseteq Hit
                        /\ IsFiniteSet(Live(hits[k], now))
                        /\ Cardinality(Live(hits[k], now)) <= Limit
      OBVIOUS
    <3>1. /\ IsFiniteSet(hits[k])
          /\ Cardinality(hits[k]) <= Limit
          /\ hits[k] \subseteq Hit
      BY <2>2 DEF IInv, ListsSound, TypeOK
    <3>2. /\ Live(hits[k], now) \subseteq hits[k]
          /\ IsFiniteSet(Live(hits[k], now))
          /\ Cardinality(Live(hits[k], now)) <= Cardinality(hits[k])
      BY <3>1, LiveSubset
    <3>3. Cardinality(Live(hits[k], now)) \in Nat /\ Cardinality(hits[k]) \in Nat
      BY <3>1, <3>2, FS_CardinalityType
    <3> QED BY <3>1, <3>2, <3>3, LimiterAssumption DEF LimiterAssumption
  <2>5. GoodMap(Cleaned)
    BY <2>1, <2>2, <2>3, <2>4 DEF GoodMap, IInv, TypeOK
  <2>6. \A k \in Keys : Live(Entry(Cleaned, k), now) = Live(Entry(hits, k), now)
    BY <2>1 DEF D, Live, Entry
  <2>7. \A k \in DOMAIN Cleaned : \A h \in Cleaned[k] : h.at + Window > now
    BY <2>1 DEF Live
  <2> QED BY <2>1, <2>2, <2>5, <2>6, <2>7 DEF IInv, TypeOK
<1> QED BY <1>1, <1>2

\* After the cap check there is room for one more key, and a key that was not
\* evicted still has its list.
LEMMA EvictedMap ==
  ASSUME NEW m, GoodMap(m), Cardinality(DOMAIN m) <= MaxKeys, NEW gone \in Evictable(m)
  PROVE  /\ gone \subseteq Keys
         /\ GoodMap(Drop(m, gone))
         /\ Cardinality(DOMAIN Drop(m, gone)) < MaxKeys
         /\ \A k \in gone : Entry(Drop(m, gone), k) = {}
         /\ \A k \in Keys \ gone : Entry(Drop(m, gone), k) = Entry(m, k)
<1> USE LimiterAssumption DEF LimiterAssumption
<1>1. DOMAIN Drop(m, gone) = DOMAIN m \ gone
      /\ \A k \in DOMAIN m \ gone : Drop(m, gone)[k] = m[k]
  BY DEF Drop
<1>2. IsFiniteSet(DOMAIN m) /\ Cardinality(DOMAIN m) \in Nat
  BY FS_CardinalityType DEF GoodMap
<1>3. IsFiniteSet(DOMAIN m \ gone)
  BY <1>2, FS_Subset
<1>4. GoodMap(Drop(m, gone))
  BY <1>1, <1>3 DEF GoodMap
<1>5. /\ \A k \in gone : Entry(Drop(m, gone), k) = {}
      /\ \A k \in Keys \ gone : Entry(Drop(m, gone), k) = Entry(m, k)
  BY <1>1 DEF Entry
<1>6. CASE Cardinality(DOMAIN m) >= MaxKeys /\ Oldest(m) # {}
  <2>1. PICK k \in Oldest(m) : gone = {k}
    BY <1>6 DEF Evictable
  <2>2. k \in DOMAIN m
    BY <2>1 DEF Oldest
  <2>3. Cardinality(DOMAIN m \ {k}) = Cardinality(DOMAIN m) - 1
    BY <1>2, <2>2, FS_RemoveElement
  <2>4. gone \subseteq Keys
    BY <2>1, <2>2 DEF GoodMap
  <2>5. Cardinality(DOMAIN Drop(m, gone)) < MaxKeys
    BY <1>1, <1>2, <2>1, <2>3
  <2> QED BY <1>4, <1>5, <2>4, <2>5
<1>7. CASE ~(Cardinality(DOMAIN m) >= MaxKeys /\ Oldest(m) # {})
  <2>1. gone = {}
    BY <1>7 DEF Evictable
  <2>2. Cardinality(DOMAIN m) < MaxKeys
    <3>1. CASE Oldest(m) # {}
      BY <1>2, <1>7, <3>1
    <3>2. CASE Oldest(m) = {}
      <4>1. DOMAIN m = {}
        BY <3>2, OldestExists
      <4>2. Cardinality(DOMAIN m) = 0
        BY <4>1, FS_EmptySet
      <4> QED BY <4>2
    <3> QED BY <3>1, <3>2
  <2>3. DOMAIN Drop(m, gone) = DOMAIN m
    BY <1>1, <2>1
  <2> QED BY <1>4, <1>5, <2>1, <2>2, <2>3
<1> QED BY <1>6, <1>7

\* Storing a sound list under one key of a map that has room.
LEMMA PutMap ==
  ASSUME NEW m, GoodMap(m), Cardinality(DOMAIN m) < MaxKeys,
         NEW k \in Keys, NEW s, s \subseteq Hit, s # {},
         IsFiniteSet(s), Cardinality(s) <= Limit
  PROVE  /\ GoodMap(Put(m, k, s))
         /\ Cardinality(DOMAIN Put(m, k, s)) <= MaxKeys
         /\ Entry(Put(m, k, s), k) = s
         /\ \A j \in Keys \ {k} : Entry(Put(m, k, s), j) = Entry(m, j)
<1>1. /\ DOMAIN Put(m, k, s) = DOMAIN m \union {k}
      /\ Put(m, k, s)[k] = s
      /\ \A j \in DOMAIN m \ {k} : Put(m, k, s)[j] = m[j]
  BY DEF Put
<1>2. IsFiniteSet(DOMAIN m) /\ Cardinality(DOMAIN m) \in Nat
  BY FS_CardinalityType DEF GoodMap
<1>3. /\ IsFiniteSet(DOMAIN m \union {k})
      /\ Cardinality(DOMAIN m \union {k}) <= Cardinality(DOMAIN m) + 1
  <2> DEFINE D == DOMAIN m
  <2>1. IsFiniteSet(D) /\ Cardinality(D) \in Nat
    BY <1>2
  <2> HIDE DEF D
  <2>2. /\ IsFiniteSet(D \union {k})
        /\ Cardinality(D \union {k}) = IF k \in D THEN Cardinality(D) ELSE Cardinality(D) + 1
    BY <2>1, FS_AddElement
  <2>3. Cardinality(D \union {k}) <= Cardinality(D) + 1
    BY <2>1, <2>2
  <2> QED BY <2>2, <2>3 DEF D
<1>4. Cardinality(DOMAIN m \union {k}) \in Nat
  BY <1>3, FS_CardinalityType
<1>5. Cardinality(DOMAIN Put(m, k, s)) <= MaxKeys
  BY <1>1, <1>2, <1>3, <1>4, LimiterAssumption DEF LimiterAssumption
<1>6. GoodMap(Put(m, k, s))
  <2>1. ASSUME NEW j \in DOMAIN Put(m, k, s)
        PROVE  LET l == Put(m, k, s)[j]
               IN  l \subseteq Hit /\ l # {} /\ IsFiniteSet(l) /\ Cardinality(l) <= Limit
    <3>1. CASE j = k
      BY <1>1, <3>1
    <3>2. CASE j # k
      BY <1>1, <2>1, <3>2 DEF GoodMap
    <3> QED BY <3>1, <3>2
  <2> QED BY <1>1, <1>3, <2>1 DEF GoodMap
<1>7. /\ Entry(Put(m, k, s), k) = s
      /\ \A j \in Keys \ {k} : Entry(Put(m, k, s), j) = Entry(m, j)
  BY <1>1 DEF Entry
<1> QED BY <1>5, <1>6, <1>7

\* IInv is a sound map, grants that match it, and the rest.
LEMMA IInvFromMap ==
  IInv <=> /\ TypeOK
           /\ GoodMap(hits)
           /\ KeysBounded
           /\ StoreMatchesGrants
           /\ GrantsFinite
           /\ RefusalsPast
           /\ RefusalEarned
           /\ NothingStaleSurvivesCleanup
BY DEF IInv, GoodMap, ListsSound, TypeOK

----------------------------------------------------------------------------
\* The limiter starts with an empty map and nothing granted.
LEMMA InitEstablishes == Init => IInv
<1> SUFFICES ASSUME Init PROVE IInv
  OBVIOUS
<1> USE DEF Init, NoHits
<1>1. DOMAIN hits = {}
  OBVIOUS
<1>2. IsFiniteSet({}) /\ Cardinality({}) = 0
  BY FS_EmptySet
<1>3. TypeOK
  BY <1>1 DEF TypeOK
<1>4. GoodMap(hits) /\ KeysBounded
  BY <1>1, <1>2, LimiterAssumption DEF GoodMap, KeysBounded, LimiterAssumption
<1>5. StoreMatchesGrants
  BY <1>1 DEF StoreMatchesGrants, Entry, Live
<1>6. GrantsFinite /\ RefusalsPast /\ RefusalEarned
  BY <1>2 DEF GrantsFinite, RefusalsPast, RefusalEarned
<1>7. NothingStaleSurvivesCleanup
  BY <1>1 DEF NothingStaleSurvivesCleanup
<1> QED BY <1>3, <1>4, <1>5, <1>6, <1>7, IInvFromMap

\* What `allow` finds when it filters the caller's list: exactly the grants
\* of the caller that still count (none, if the caller was just evicted).
LEMMA FilteredIsGranted ==
  ASSUME IInv, NEW k \in Keys, NEW gone \in Evictable(Cleaned)
  PROVE  LET m == Drop(Cleaned, gone)
             kept == [j \in Keys |-> IF j \in gone THEN {} ELSE granted[j]]
         IN  /\ gone \subseteq Keys
             /\ GoodMap(m)
             /\ Cardinality(DOMAIN m) < MaxKeys
             /\ \A j \in Keys : Live(kept[j], now) = Live(Entry(m, j), now)
             /\ \A j \in Keys : \A h \in Entry(m, j) : h.at + Window > CleanupTime
             /\ IsFiniteSet(Live(Entry(m, k), now))
             /\ Live(Entry(m, k), now) \subseteq Hit
<1> DEFINE m == Drop(Cleaned, gone)
           kept == [j \in Keys |-> IF j \in gone THEN {} ELSE granted[j]]
<1>0. Cardinality(DOMAIN Cleaned) <= MaxKeys
  <2>1. IsFiniteSet(DOMAIN hits) /\ Cardinality(DOMAIN hits) <= MaxKeys
    BY DEF IInv, KeysBounded
  <2>2. DOMAIN Cleaned \subseteq DOMAIN hits
    BY CleanedMap
  <2>3. /\ IsFiniteSet(DOMAIN Cleaned)
        /\ Cardinality(DOMAIN Cleaned) <= Cardinality(DOMAIN hits)
    BY <2>1, <2>2, FS_Subset
  <2>4. Cardinality(DOMAIN Cleaned) \in Nat /\ Cardinality(DOMAIN hits) \in Nat
    BY <2>1, <2>3, FS_CardinalityType
  <2> QED BY <2>1, <2>3, <2>4, LimiterAssumption DEF LimiterAssumption
<1>1. /\ gone \subseteq Keys
      /\ GoodMap(m)
      /\ Cardinality(DOMAIN m) < MaxKeys
      /\ \A j \in gone : Entry(m, j) = {}
      /\ \A j \in Keys \ gone : Entry(m, j) = Entry(Cleaned, j)
  BY <1>0, CleanedMap, EvictedMap
<1> HIDE DEF m
<1>2. \A j \in Keys : Live(kept[j], now) = Live(Entry(m, j), now)
  <2> SUFFICES ASSUME NEW j \in Keys
               PROVE  Live(kept[j], now) = Live(Entry(m, j), now)
    OBVIOUS
  <2>1. CASE j \in gone
    BY <1>1, <2>1
  <2>2. CASE j \notin gone
    <3>1. Live(granted[j], now) = Live(Entry(hits, j), now)
      BY DEF IInv, StoreMatchesGrants
    <3>2. Live(Entry(Cleaned, j), now) = Live(Entry(hits, j), now)
      BY CleanedMap
    <3>3. Entry(m, j) = Entry(Cleaned, j) /\ kept[j] = granted[j]
      BY <1>1, <2>2
    <3> QED BY <3>1, <3>2, <3>3
  <2> QED BY <2>1, <2>2
<1>3. \A j \in Keys : \A h \in Entry(m, j) : h.at + Window > CleanupTime
  <2>1. \A j \in DOMAIN Cleaned : \A h \in Cleaned[j] : h.at + Window > CleanupTime
    BY CleanedMap
  <2> QED BY <1>1, <2>1 DEF Entry
<1>4. IsFiniteSet(Entry(m, k)) /\ Entry(m, k) \subseteq Hit
  BY <1>1, FS_EmptySet DEF Entry, GoodMap
<1>5. IsFiniteSet(Live(Entry(m, k), now)) /\ Live(Entry(m, k), now) \subseteq Hit
  BY <1>4, LiveSubset
<1> QED BY <1>1, <1>2, <1>3, <1>5 DEF m

\* A refused call stores the filtered list back: it keeps the invariant.
LEMMA RejectPreserves ==
  ASSUME IInv, NEW k \in Keys, NEW gone \in Evictable(Cleaned),
         Reject(k, gone), lastCleanup' = CleanupTime, now' = now
  PROVE  IInv'
<1> DEFINE m == Drop(Cleaned, gone)
           kept == [j \in Keys |-> IF j \in gone THEN {} ELSE granted[j]]
           filtered == Live(Entry(m, k), now)
<1>1. /\ gone \subseteq Keys
      /\ GoodMap(m)
      /\ Cardinality(DOMAIN m) < MaxKeys
      /\ \A j \in Keys : Live(kept[j], now) = Live(Entry(m, j), now)
      /\ \A j \in Keys : \A h \in Entry(m, j) : h.at + Window > CleanupTime
      /\ IsFiniteSet(filtered)
      /\ filtered \subseteq Hit
  BY FilteredIsGranted
<1>2. /\ ~(Cardinality(filtered) < Limit)
      /\ hits' = Put(m, k, filtered)
      /\ granted' = kept
      /\ last' = [key |-> {k}, ok |-> FALSE, at |-> now]
      /\ numGranted' = numGranted
  BY DEF Reject, QuotaLeft
<1>3. CleanupTime \in 0 .. now /\ now \in Nat /\ numGranted \in Nat
      /\ granted \in [Keys -> SUBSET Hit]
  BY CleanedMap DEF IInv, TypeOK
<1>4. /\ Cardinality(filtered) \in Nat
      /\ Cardinality(filtered) <= Limit
      /\ filtered # {}
  <2>1. Cardinality(filtered) \in Nat
    BY <1>1, FS_CardinalityType
  <2>2. Cardinality(filtered) <= Limit
    <3>1. CASE k \in DOMAIN m
      <4>1. Entry(m, k) = m[k]
        BY <3>1 DEF Entry
      <4>2. IsFiniteSet(m[k]) /\ Cardinality(m[k]) <= Limit
        BY <1>1, <3>1 DEF GoodMap
      <4>3. Cardinality(filtered) <= Cardinality(m[k]) /\ Cardinality(m[k]) \in Nat
        BY <4>1, <4>2, LiveSubset, FS_CardinalityType
      <4> QED BY <2>1, <4>2, <4>3, LimiterAssumption DEF LimiterAssumption
    <3>2. CASE k \notin DOMAIN m
      <4>1. filtered = {}
        BY <3>2 DEF Entry, Live
      <4>2. Cardinality(filtered) = 0
        BY <4>1, FS_EmptySet
      <4> QED BY <4>2, LimiterAssumption DEF LimiterAssumption
    <3> QED BY <3>1, <3>2
  <2>3. filtered # {}
    BY <1>2, FS_EmptySet, LimiterAssumption DEF LimiterAssumption
  <2> QED BY <2>1, <2>2, <2>3
<1>5. filtered = Live(Entry(m, k), now)
  OBVIOUS
<1>6. \A j \in Keys : Live(filtered, now) = filtered
  BY DEF Live
<1> HIDE DEF m, filtered
<1>7. /\ GoodMap(hits')
      /\ Cardinality(DOMAIN hits') <= MaxKeys
      /\ Entry(hits', k) = filtered
      /\ \A j \in Keys \ {k} : Entry(hits', j) = Entry(m, j)
  BY <1>1, <1>2, <1>4, PutMap
<1>8. TypeOK'
  <2>1. kept \in [Keys -> SUBSET Hit]
    BY <1>3
  <2>2. DOMAIN hits' \subseteq Keys /\ \A j \in DOMAIN hits' : hits'[j] \subseteq Hit
    BY <1>7 DEF GoodMap
  <2> QED BY <1>2, <1>3, <2>1, <2>2 DEF TypeOK
<1>9. StoreMatchesGrants'
  BY <1>1, <1>2, <1>5, <1>6, <1>7 DEF StoreMatchesGrants
<1>10. GrantsFinite'
  BY <1>2, FS_EmptySet DEF IInv, GrantsFinite
<1>11. RefusalEarned'
  <2> DEFINE earned == {h \in kept[k] : h.at + Window > now}
  <2>1. earned = filtered
    BY <1>1, <1>5 DEF Live
  <2>2. Cardinality(filtered) >= Limit
    BY <1>2, <1>4, LimiterAssumption DEF LimiterAssumption
  <2>3. Cardinality(earned) >= Limit
    <3> HIDE DEF earned
    <3> QED BY <2>1, <2>2
  <2> QED BY <1>2, <2>3 DEF RefusalEarned
<1>12. NothingStaleSurvivesCleanup'
  <2> SUFFICES ASSUME NEW j \in DOMAIN hits', NEW h \in hits'[j]
               PROVE  h.at + Window > CleanupTime
    BY DEF NothingStaleSurvivesCleanup
  <2>1. j \in Keys /\ Entry(hits', j) = hits'[j]
    BY <1>7 DEF GoodMap, Entry
  <2>2. filtered \subseteq Entry(m, k)
    BY <1>5 DEF Live
  <2> QED BY <1>1, <1>7, <2>1, <2>2
<1>13. KeysBounded' /\ RefusalsPast'
  BY <1>2, <1>3, <1>7 DEF KeysBounded, RefusalsPast
<1>14. /\ DOMAIN hits' \subseteq Keys
       /\ IsFiniteSet(DOMAIN hits')
       /\ ListsSound'
  BY <1>7 DEF GoodMap, ListsSound
<1> QED BY <1>8, <1>9, <1>10, <1>11, <1>12, <1>13, <1>14 DEF IInv

\* A granted call appends its hit to the filtered list: it keeps the invariant.
LEMMA AcceptPreserves ==
  ASSUME IInv, NEW k \in Keys, NEW gone \in Evictable(Cleaned),
         Accept(k, gone), lastCleanup' = CleanupTime, now' = now
  PROVE  IInv'
<1> DEFINE m == Drop(Cleaned, gone)
           kept == [j \in Keys |-> IF j \in gone THEN {} ELSE granted[j]]
           filtered == Live(Entry(m, k), now)
           hit == [n |-> numGranted, at |-> now]
           list == filtered \union {hit}
<1>1. /\ gone \subseteq Keys
      /\ GoodMap(m)
      /\ Cardinality(DOMAIN m) < MaxKeys
      /\ \A j \in Keys : Live(kept[j], now) = Live(Entry(m, j), now)
      /\ \A j \in Keys : \A h \in Entry(m, j) : h.at + Window > CleanupTime
      /\ IsFiniteSet(filtered)
      /\ filtered \subseteq Hit
  BY FilteredIsGranted
<1>2. /\ Cardinality(filtered) < Limit
      /\ hits' = Put(m, k, list)
      /\ granted' = [kept EXCEPT ![k] = @ \union {hit}]
      /\ numGranted' = numGranted + 1
      /\ last' = [key |-> {k}, ok |-> TRUE, at |-> now]
  BY DEF Accept, QuotaLeft
<1>3. CleanupTime \in 0 .. now /\ now \in Nat /\ numGranted \in Nat
      /\ granted \in [Keys -> SUBSET Hit]
  BY CleanedMap DEF IInv, TypeOK
<1>4. kept \in [Keys -> SUBSET Hit] /\ hit \in Hit
  BY <1>3 DEF Hit
<1>5. /\ list \subseteq Hit
      /\ list # {}
      /\ IsFiniteSet(list)
      /\ Cardinality(list) <= Limit
  <2> HIDE DEF filtered, hit
  <2>1. Cardinality(filtered) \in Nat
    BY <1>1, FS_CardinalityType
  <2>2. /\ IsFiniteSet(filtered \union {hit})
        /\ Cardinality(filtered \union {hit}) =
             IF hit \in filtered THEN Cardinality(filtered) ELSE Cardinality(filtered) + 1
    BY <1>1, FS_AddElement
  <2>3. Cardinality(list) <= Limit
    BY <1>2, <2>1, <2>2, LimiterAssumption DEF LimiterAssumption
  <2> QED BY <1>1, <1>4, <2>2, <2>3
<1>6. \A h \in list : h.at + Window > now
  BY <1>3, LimiterAssumption DEF Live, LimiterAssumption
<1>7. filtered = Live(Entry(m, k), now) /\ list = filtered \union {hit}
  OBVIOUS
<1>8. Live(list, now) = list /\ Live({hit}, now) = {hit}
  BY <1>6 DEF Live
<1>9. /\ kept[k] \union {hit} = granted'[k]
      /\ \A j \in Keys \ {k} : granted'[j] = kept[j]
      /\ granted' \in [Keys -> SUBSET Hit]
  BY <1>2, <1>4
<1> HIDE DEF m, filtered, hit, list
<1>10. /\ GoodMap(hits')
       /\ Cardinality(DOMAIN hits') <= MaxKeys
       /\ Entry(hits', k) = list
       /\ \A j \in Keys \ {k} : Entry(hits', j) = Entry(m, j)
  BY <1>1, <1>2, <1>5, PutMap
<1>11. TypeOK'
  <2>1. DOMAIN hits' \subseteq Keys /\ \A j \in DOMAIN hits' : hits'[j] \subseteq Hit
    BY <1>10 DEF GoodMap
  <2>2. last' \in [key : SUBSET Keys, ok : BOOLEAN, at : Nat]
    BY <1>2, <1>3
  <2>3. numGranted' \in Nat /\ lastCleanup' \in 0 .. now' /\ now' \in Nat
    BY <1>2, <1>3
  <2> QED BY <1>9, <2>1, <2>2, <2>3 DEF TypeOK
<1>12. StoreMatchesGrants'
  <2>1. \A a, b : Live(a \union b, now) = Live(a, now) \union Live(b, now)
    BY DEF Live
  <2>2. Live(granted'[k], now) = list
    <3>1. Live(kept[k] \union {hit}, now) = Live(kept[k], now) \union Live({hit}, now)
      BY <2>1
    <3>2. Live(kept[k], now) = filtered
      BY <1>1, <1>7
    <3> QED BY <1>7, <1>8, <1>9, <3>1, <3>2
  <2> QED BY <1>1, <1>8, <1>9, <1>10, <2>2 DEF StoreMatchesGrants
<1>13. GrantsFinite'
  <2>1. \A j \in Keys : IsFiniteSet(kept[j])
    BY FS_EmptySet DEF IInv, GrantsFinite
  <2>2. IsFiniteSet(kept[k] \union {hit})
    BY <2>1, FS_AddElement
  <2> QED BY <1>9, <2>1, <2>2 DEF GrantsFinite
<1>14. NothingStaleSurvivesCleanup'
  <2> SUFFICES ASSUME NEW j \in DOMAIN hits', NEW h \in hits'[j]
               PROVE  h.at + Window > CleanupTime
    BY DEF NothingStaleSurvivesCleanup
  <2>1. j \in Keys /\ Entry(hits', j) = hits'[j]
    BY <1>10 DEF GoodMap, Entry
  <2>2. CASE j # k
    BY <1>1, <1>10, <2>1, <2>2
  <2>3. CASE j = k
    <3>1. h \in list /\ h \in Hit
      BY <1>5, <1>10, <2>1, <2>3
    <3>2. h.at + Window > now /\ h.at \in Nat
      BY <1>6, <3>1 DEF Hit
    <3> QED BY <1>3, <3>2, LimiterAssumption DEF LimiterAssumption
  <2> QED BY <2>2, <2>3
<1>15. KeysBounded' /\ RefusalsPast' /\ RefusalEarned'
  BY <1>2, <1>3, <1>10 DEF KeysBounded, RefusalsPast, RefusalEarned
<1>16. /\ DOMAIN hits' \subseteq Keys
       /\ IsFiniteSet(DOMAIN hits')
       /\ ListsSound'
  BY <1>10 DEF GoodMap, ListsSound
<1> QED BY <1>11, <1>12, <1>13, <1>14, <1>15, <1>16 DEF IInv

\* Time only removes hits from the window, from the map and the grants alike.
LEMMA TickPreserves ==
  ASSUME IInv, Tick
  PROVE  IInv'
<1>1. /\ now \in Nat /\ now' = now + 1
      /\ UNCHANGED <<hits, lastCleanup, granted, numGranted, last>>
  BY DEF IInv, TypeOK, Tick
<1>2. TypeOK'
  BY <1>1 DEF IInv, TypeOK
<1>3. ASSUME NEW k \in Keys
      PROVE  Live(granted[k], now + 1) = Live(Entry(hits, k), now + 1)
  <2>1. Live(granted[k], now) = Live(Entry(hits, k), now)
    BY DEF IInv, StoreMatchesGrants
  <2>2. granted[k] \subseteq Hit /\ Entry(hits, k) \subseteq Hit
    BY DEF IInv, TypeOK, Entry
  <2>3. ASSUME NEW h \in Hit, h.at + Window > now + 1
        PROVE  h.at + Window > now
    BY <1>1, <2>3, LimiterAssumption DEF Hit, LimiterAssumption
  <2> QED BY <2>1, <2>2, <2>3 DEF Live
<1>4. StoreMatchesGrants'
  BY <1>1, <1>3 DEF StoreMatchesGrants, Entry
<1>5. RefusalsPast'
  BY <1>1 DEF IInv, RefusalsPast, TypeOK
<1>6. /\ IsFiniteSet(DOMAIN hits)' /\ KeysBounded' /\ ListsSound' /\ GrantsFinite'
      /\ RefusalEarned' /\ NothingStaleSurvivesCleanup'
  BY <1>1 DEF IInv, KeysBounded, ListsSound, GrantsFinite, RefusalEarned,
              NothingStaleSurvivesCleanup
<1> QED BY <1>2, <1>4, <1>5, <1>6 DEF IInv

\* Every step of the limiter keeps the invariant.
LEMMA StepPreserves == IInv /\ [Next]_vars => IInv'
<1> SUFFICES ASSUME IInv, [Next]_vars PROVE IInv'
  OBVIOUS
<1>1. ASSUME NEW k \in Keys, Allow(k)
      PROVE  IInv'
  BY <1>1, RejectPreserves, AcceptPreserves DEF Allow
<1>2. CASE Tick
  BY <1>2, TickPreserves
<1>3. CASE UNCHANGED vars
  BY <1>3 DEF vars, IInv, TypeOK, KeysBounded, ListsSound, StoreMatchesGrants, Entry, Live,
              GrantsFinite, RefusalsPast, RefusalEarned, NothingStaleSurvivesCleanup
<1> QED BY <1>1, <1>2, <1>3 DEF Next

\* The strengthened invariant holds in every reachable state of the limiter.
THEOREM InvariantHolds == Spec => []IInv
BY InitEstablishes, StepPreserves, PTL DEF Spec

----------------------------------------------------------------------------
\* The types of the limiter's state.
THEOREM TypeCorrect == Spec => []TypeOK
<1>1. IInv => TypeOK
  BY DEF IInv
<1> QED BY <1>1, InvariantHolds, PTL

\* The hard cap on tracked clients holds for every cap and every load: it
\* rests on no list being empty, so that evictOldest always finds a victim.
THEOREM CapHolds == Spec => []KeysBounded
<1>1. IInv => KeysBounded
  BY DEF IInv
<1> QED BY <1>1, InvariantHolds, PTL

\* No client is granted more than Limit writes in a window unless its entry
\* was evicted in between.
THEOREM QuotaHolds == Spec => []WindowQuota
<1>1. ASSUME IInv, NEW k \in Keys
      PROVE  Cardinality(Live(granted[k], now)) <= Limit
  <2>1. Live(granted[k], now) = Live(Entry(hits, k), now)
    BY <1>1 DEF IInv, StoreMatchesGrants
  <2>2. IsFiniteSet(Entry(hits, k)) /\ Cardinality(Entry(hits, k)) <= Limit
    <3>1. CASE k \in DOMAIN hits
      BY <1>1, <3>1 DEF IInv, ListsSound, Entry
    <3>2. CASE k \notin DOMAIN hits
      BY <3>2, FS_EmptySet, LimiterAssumption DEF Entry, LimiterAssumption
    <3> QED BY <3>1, <3>2
  <2>3. /\ IsFiniteSet(Live(Entry(hits, k), now))
        /\ Cardinality(Live(Entry(hits, k), now)) <= Cardinality(Entry(hits, k))
    BY <2>2, LiveSubset
  <2>4. Cardinality(Live(Entry(hits, k), now)) \in Nat /\ Cardinality(Entry(hits, k)) \in Nat
    BY <2>2, <2>3, FS_CardinalityType
  <2> QED BY <2>1, <2>2, <2>3, <2>4, LimiterAssumption DEF LimiterAssumption
<1>2. IInv => WindowQuota
  BY <1>1 DEF WindowQuota
<1> QED BY <1>2, InvariantHolds, PTL

\* Every refusal is backed by Limit grants inside the window.
THEOREM RefusalsAreEarned == Spec => []RefusalEarned
<1>1. IInv => RefusalEarned
  BY DEF IInv
<1> QED BY <1>1, InvariantHolds, PTL

\* The periodic cleanup leaves nothing that had expired when it ran.
THEOREM CleanupIsComplete == Spec => []NothingStaleSurvivesCleanup
<1>1. IInv => NothingStaleSurvivesCleanup
  BY DEF IInv
<1> QED BY <1>1, InvariantHolds, PTL
=============================================================================
