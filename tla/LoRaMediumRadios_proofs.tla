----------------------- MODULE LoRaMediumRadios_proofs -----------------------
(***************************************************************************)
(* The medium's list of radios, its communication cache and its neighbour  *)
(* cache, for any radios, speeds, ranges and periods, and any number of    *)
(* transmissions.                                                          *)
(***************************************************************************)
EXTENDS LoRaMediumRadios, FiniteSetTheorems, SequenceTheorems, WellFoundedInduction, TLAPS

LEMMA FunctionIsSequence ==
    ASSUME NEW S, NEW m \in Nat, NEW f \in [1..m -> S]
    PROVE  f \in Seq(S) /\ Len(f) = m
OBVIOUS

USE CacheAssumption, RadiosAssumption

-----------------------------------------------------------------------------
(***************************************************************************)
(* Lemmas about the operators of the model.                                *)
(***************************************************************************)

LEMMA LeastNatural ==
    ASSUME NEW S \in SUBSET Nat, S # {}
    PROVE  \E x \in S : \A y \in S : x <= y
<1> DEFINE T == {0..x : x \in S}
<1>1. T \subseteq FiniteSubsetsOf(Nat) /\ T # {}
  <2>1. ASSUME NEW x \in Nat
        PROVE  0..x \in FiniteSubsetsOf(Nat)
    <3>1. IsFiniteSet(0..x) /\ 0..x \in SUBSET Nat
      BY FS_Interval
    <3> QED
      BY <3>1 DEF FiniteSubsetsOf
  <2>2. PICK x \in S : TRUE
    OBVIOUS
  <2>3. 0..x \in T
    OBVIOUS
  <2>4. ASSUME NEW t \in T
        PROVE  t \in FiniteSubsetsOf(Nat)
    <3>1. PICK y \in S : t = 0..y
      OBVIOUS
    <3> QED
      BY <2>1, <3>1
  <2> HIDE DEF T
  <2> QED
    BY <2>3, <2>4
<1>2. PICK least \in T : \A t \in T : ~ (<<t, least>> \in StrictSubsetOrdering(Nat))
  <2>1. IsWellFoundedOn(StrictSubsetOrdering(Nat), FiniteSubsetsOf(Nat))
    BY FS_StrictSubsetOrderingWellFounded
  <2> HIDE DEF T
  <2> QED
    BY <1>1, <2>1, WFMin
<1>3. PICK x \in S : least = 0..x
  OBVIOUS
<1>4. ASSUME NEW y \in S, y < x
      PROVE  FALSE
  <2>1. /\ 0..y \in T
        /\ 0..y \subseteq Nat /\ 0..x \subseteq Nat
        /\ 0..y \subseteq 0..x
        /\ x \in 0..x /\ x \notin 0..y
    BY <1>4
  <2> QED
    BY <1>2, <1>3, <2>1 DEF StrictSubsetOrdering
<1> QED
  BY <1>4

\* computeMaxSpeed has a result, and it is a maximum.
LEMMA MaxSpeedIsMax ==
    ASSUME NEW S \in SUBSET Radios, IsFiniteSet(S), S # {}
    PROVE  ComputeMaxSpeed(S) \in Nat /\ \A r \in S : Speed[r] <= ComputeMaxSpeed(S)
<1> DEFINE speeds == {Speed[r] : r \in S}
           above(v) == {w \in speeds : v < w}
           T == {above(v) : v \in speeds}
<1>1. speeds \subseteq Nat /\ speeds # {}
  OBVIOUS
<1>2. IsFiniteSet(speeds)
  <2>1. [r \in S |-> Speed[r]] \in Surjection(S, speeds)
    BY DEF Surjection
  <2> QED
    BY <2>1, FS_Surjection
<1>3. T \subseteq FiniteSubsetsOf(Nat) /\ T # {}
  <2>1. ASSUME NEW v \in speeds
        PROVE  above(v) \in FiniteSubsetsOf(Nat)
    <3>1. above(v) \in SUBSET speeds
      OBVIOUS
    <3>2. IsFiniteSet(above(v))
      BY <1>2, <3>1, FS_Subset
    <3> QED
      BY <1>1, <3>1, <3>2 DEF FiniteSubsetsOf
  <2>2. PICK v \in speeds : TRUE
    BY <1>1
  <2>3. above(v) \in T
    OBVIOUS
  <2>4. ASSUME NEW t \in T
        PROVE  t \in FiniteSubsetsOf(Nat)
    <3>1. PICK w \in speeds : t = above(w)
      OBVIOUS
    <3> HIDE DEF speeds, above
    <3> QED
      BY <2>1, <3>1
  <2> HIDE DEF speeds, above, T
  <2> QED
    BY <2>3, <2>4
<1>4. PICK least \in T : \A t \in T : ~ (<<t, least>> \in StrictSubsetOrdering(Nat))
  <2>1. IsWellFoundedOn(StrictSubsetOrdering(Nat), FiniteSubsetsOf(Nat))
    BY FS_StrictSubsetOrderingWellFounded
  <2> HIDE DEF T
  <2> QED
    BY <1>3, <2>1, WFMin
<1>5. PICK v \in speeds : least = above(v)
  OBVIOUS
<1>6. ASSUME NEW w \in speeds, v < w
      PROVE  FALSE
  <2>1. above(w) \in T
    OBVIOUS
  <2>2. above(w) \subseteq above(v) /\ w \in above(v) /\ w \notin above(w) /\ above(v) \subseteq Nat
    BY <1>1, <1>6
  <2> QED
    BY <1>4, <1>5, <2>1, <2>2 DEF StrictSubsetOrdering
<1>7. v \in speeds /\ \A w \in speeds : w <= v
  <2> HIDE DEF speeds
  <2> QED
    BY <1>1, <1>5, <1>6
<1>8. ComputeMaxSpeed(S) \in speeds /\ \A w \in speeds : w <= ComputeMaxSpeed(S)
  BY <1>7 DEF ComputeMaxSpeed
<1> QED
  BY <1>1, <1>8

\* vector::resize keeps what is there and fills the rest.
LEMMA ResizedFacts ==
    ASSUME NEW S, NEW s \in Seq(S), NEW n \in Nat, Len(s) < n, NEW fill \in S,
           NEW q, q = Resized(s, n, fill)
    PROVE  /\ q \in Seq(S) /\ Len(q) = n
           /\ \A i \in 1..Len(s) : q[i] = s[i]
           /\ \A i \in 1..n : i > Len(s) => q[i] = fill
<1>1. Len(s) \in Nat /\ DOMAIN s = 1..Len(s) /\ n > Len(s)
  OBVIOUS
<1>2. q = [i \in 1..n |-> IF i \in 1..Len(s) THEN s[i] ELSE fill]
  BY <1>1 DEF Resized
<1>3. q \in [1..n -> S]
  BY <1>1, <1>2
<1>4. q \in Seq(S) /\ Len(q) = n
  BY <1>3
<1> QED
  BY <1>1, <1>2, <1>4

\* q is s without its first k elements, which are all e; the next one is not.
CutAfter(s, e, q, k) ==
    /\ k \in 0..Len(s)
    /\ \A i \in 1..k : s[i] = e
    /\ k < Len(s) => s[k + 1] # e
    /\ Len(q) = Len(s) - k
    /\ \A i \in 1..(Len(s) - k) : q[i] = s[k + i]

LEMMA WithoutLeadingFacts ==
    ASSUME NEW S, NEW s \in Seq(S), NEW e
    PROVE  WithoutLeading(s, e) \in Seq(S) /\ \E k : CutAfter(s, e, WithoutLeading(s, e), k)
<1> DEFINE Cut(k) == (\A i \in 1..k : s[i] = e) /\ (k < Len(s) => s[k + 1] # e)
           others == {j \in 0..Len(s) : j < Len(s) => s[j + 1] # e}
<1>1. \E k \in 0..Len(s) : Cut(k)
  <2>1. Len(s) \in others /\ others \in SUBSET Nat
    OBVIOUS
  <2>2. PICK k \in others : \A j \in others : k <= j
    <3> HIDE DEF others
    <3> QED
      BY <2>1, LeastNatural
  <2>3. ASSUME NEW i \in 1..k
        PROVE  s[i] = e
    <3>1. i - 1 \in 0..Len(s) /\ i - 1 < Len(s) /\ ~(k <= i - 1)
      OBVIOUS
    <3>2. i - 1 \notin others
      BY <2>2, <3>1
    <3> QED
      BY <3>1, <3>2
  <2> QED
    BY <2>3
<1> DEFINE k == CHOOSE j \in 0..Len(s) : Cut(j)
<1>2. k \in 0..Len(s) /\ Cut(k)
  BY <1>1
<1>3. WithoutLeading(s, e) = SubSeq(s, k + 1, Len(s))
  BY DEF WithoutLeading
<1> HIDE DEF k
<1>4. /\ SubSeq(s, k + 1, Len(s)) \in Seq(S)
      /\ Len(SubSeq(s, k + 1, Len(s))) = Len(s) - k
      /\ \A i \in 1..(Len(s) - k) : SubSeq(s, k + 1, Len(s))[i] = s[k + i]
  <2>1. Len(s) \in Nat /\ k + 1 \in Int /\ \A i \in (k + 1)..Len(s) : s[i] \in S
    BY <1>2
  <2>2. /\ SubSeq(s, k + 1, Len(s)) \in Seq(S)
        /\ Len(SubSeq(s, k + 1, Len(s))) = IF k + 1 <= Len(s) THEN Len(s) - (k + 1) + 1 ELSE 0
        /\ \A i \in 1..(Len(s) - (k + 1) + 1) : SubSeq(s, k + 1, Len(s))[i] = s[(k + 1) + i - 1]
    BY <2>1, SubSeqProperties
  <2> QED
    BY <1>2, <2>1, <2>2
<1>5. CutAfter(s, e, WithoutLeading(s, e), k)
  BY <1>2, <1>3, <1>4 DEF CutAfter
<1> QED
  BY <1>3, <1>4, <1>5

\* The ids of the initial radios grow with their places.
LEMMA InitialIds ==
    /\ \A i \in 0..Len(InitialRadios) : IdsBefore(i) \in Nat
    /\ \A i \in 1..Len(InitialRadios) : InitialId(i) = IdsBefore(i) - 1
    /\ \A i, j \in 0..Len(InitialRadios) : i < j => IdsBefore(i) < IdsBefore(j)
<1> DEFINE lora(n) == {i \in 1..n : InitialRadios[i] \in LoRaRadios}
<1>1. ASSUME NEW n \in 0..Len(InitialRadios)
      PROVE  IsFiniteSet(lora(n)) /\ Cardinality(lora(n)) \in Nat /\ IdsBefore(n) = n + Cardinality(lora(n))
  <2>1. IsFiniteSet(1..n)
    BY FS_Interval
  <2>2. IsFiniteSet(lora(n))
    BY <2>1, FS_Subset
  <2> QED
    BY <2>2, FS_CardinalityType DEF IdsBefore
<1>2. ASSUME NEW i \in 1..Len(InitialRadios)
      PROVE  InitialId(i) = IdsBefore(i) - 1
  <2>1. i - 1 \in 0..Len(InitialRadios) /\ i \in 0..Len(InitialRadios)
    OBVIOUS
  <2>2. lora(i) = IF InitialRadios[i] \in LoRaRadios THEN lora(i - 1) \union {i} ELSE lora(i - 1)
    <3>1. 1..i = (1..(i - 1)) \union {i}
      OBVIOUS
    <3> QED
      BY <3>1
  <2>3. i \notin lora(i - 1)
    OBVIOUS
  <2>4. Cardinality(lora(i)) = IF InitialRadios[i] \in LoRaRadios THEN Cardinality(lora(i - 1)) + 1
                               ELSE Cardinality(lora(i - 1))
    <3> HIDE DEF lora
    <3>1. Cardinality(lora(i - 1) \union {i}) = Cardinality(lora(i - 1)) + 1
      BY <1>1, <2>1, <2>3, FS_AddElement
    <3> QED
      BY <2>2, <3>1
  <2> HIDE DEF lora
  <2>5. IdsBefore(i) = i + Cardinality(lora(i)) /\ IdsBefore(i - 1) = i - 1 + Cardinality(lora(i - 1))
        /\ Cardinality(lora(i - 1)) \in Nat
    BY <1>1, <2>1
  <2> QED
    BY <2>4, <2>5 DEF InitialId, IdFrom, IdsTaken
<1>3. ASSUME NEW i \in 0..Len(InitialRadios), NEW j \in 0..Len(InitialRadios), i < j
      PROVE  IdsBefore(i) < IdsBefore(j)
  <2>1. lora(i) \in SUBSET lora(j)
    BY <1>3
  <2> HIDE DEF lora
  <2>2. Cardinality(lora(i)) <= Cardinality(lora(j))
    BY <1>1, <2>1, FS_Subset
  <2> QED
    BY <1>1, <1>3, <2>2
<1>4. \A i \in 0..Len(InitialRadios) : IdsBefore(i) \in Nat
  <2> HIDE DEF lora
  <2> QED
    BY <1>1
<1> QED
  BY <1>2, <1>3, <1>4

-----------------------------------------------------------------------------
(***************************************************************************)
(* The invariant.                                                          *)
(***************************************************************************)

\* The ids: unique, and below the counter.
IdInv ==
    /\ nextId \in Nat /\ id \in [Radios -> Nat \union {NoId}] /\ left \in [Radios -> Nat \union {Off}]
    /\ \A r \in Radios :
        /\ id[r] < nextId
        /\ left[r] # Off => id[r] # NoId
    /\ \A r, s \in Radios : id[r] = id[s] /\ id[r] # NoId => r = s
    /\ \A r \in InitialSet : id[r] # NoId

\* The communication cache: an entry for every id from baseRadioId on, and rows as long as it.
CacheInv ==
    /\ baseRadioId \in Nat /\ radioCache \in Seq(BOOLEAN) /\ baseRadioId + Len(radioCache) = nextId
    /\ \A r \in Registered : CacheIndex(r) \in 1..Len(radioCache) /\ radioCache[CacheIndex(r)] = FALSE
    /\ receptionCache \in Seq(Seq(Radios \union {NoArrival}))
    /\ \A t \in 1..Len(receptionCache) :
        /\ Len(receptionCache[t]) = Len(radioCache)
        /\ \A i \in 1..Len(radioCache) :
            receptionCache[t][i] # NoArrival => id[receptionCache[t][i]] = baseRadioId + i - 1

\* The list of the medium, when radios leave in the order of their ids: no null pointer in it.
ListInv ==
    /\ Registered # {} => ~corrupted
    /\ radios \in Seq(Radios)
    /\ Registered = {radios[i] : i \in 1..Len(radios)}
    /\ \A i, j \in 1..Len(radios) : i < j => id[radios[i]] < id[radios[j]]

\* The arrivals, when radios leave in the order of their ids: none is missing, and none is the
\* transmitter's own.
ArrivalInv ==
    /\ transmissions \in Seq(Radios) /\ Len(transmissions) = Len(receptionCache)
    /\ \A t \in 1..Len(receptionCache) :
        /\ id[transmissions[t]] # NoId
        /\ \A i \in 1..Len(radioCache) : receptionCache[t][i] # transmissions[t]
        /\ \A r \in Registered : r # transmissions[t] => receptionCache[t][CacheIndex(r)] = r

\* The neighbour cache: both lists of radios are the registered ones, maxSpeed bounds the speed of
\* the radios that were there from the start, and one that moves keeps the timer running.  maxSpeed
\* is not a number when none was left, which can only be after all of those have gone.
Movers == {r \in Registered \intersect InitialSet : Speed[r] # 0}
NeighborType ==
    /\ now \in Nat /\ position \in [Radios -> Places]
    /\ limitRadios = Registered /\ neighborRadios = Registered /\ IsFiniteSet(Registered)
    /\ neighborVector \in [Radios -> SUBSET Radios]
    /\ Registered \intersect InitialSet # {} => maxSpeed \in Nat
    /\ \A r \in Registered \intersect InitialSet : Speed[r] <= maxSpeed
    /\ updateNeighborListsTimer \in Nat \union {Off}
    /\ updateNeighborListsTimer # Off => now <= updateNeighborListsTimer
                                         /\ updateNeighborListsTimer <= now + refillPeriod
    /\ Movers # {} => updateNeighborListsTimer # Off

\* How long until the next refill.
Remaining == IF updateNeighborListsTimer = Off THEN 0 ELSE updateNeighborListsTimer - now

\* A radio that is not in the list is too far away to come into range before the next refill.
OutOfReach(r, s) == Distance(position[r], position[s]) > range + Remaining * (Speed[r] + Speed[s])
ReachInv ==
    \A r, s \in Registered \intersect InitialSet :
        (r # s /\ (Speed[r] = 0 \/ Speed[s] = 0) /\ s \notin neighborVector[r]) => OutOfReach(r, s)

RadiosInv == IdInv /\ CacheInv /\ NeighborType /\ ReachInv

\* What a radio's row in the neighbour lists says after a refill.
LEMMA DistanceFacts ==
    ASSUME NEW p \in Int, NEW q \in Int
    PROVE  Distance(p, q) \in Nat
BY DEF Distance

LEMMA IdsAtStart ==
    ASSUME Init
    PROVE  /\ \A i \in 1..Len(InitialRadios) : id[InitialRadios[i]] = IdsBefore(i) - 1
           /\ \A r \in Radios : r \notin InitialSet => id[r] = NoId
           /\ Registered = InitialSet
<1>1. ASSUME NEW i \in 1..Len(InitialRadios)
      PROVE  id[InitialRadios[i]] = IdsBefore(i) - 1 /\ id[InitialRadios[i]] \in Nat
  <2>1. (CHOOSE j \in DOMAIN InitialRadios : InitialRadios[j] = InitialRadios[i]) = i
    OBVIOUS
  <2>2. InitialRadios[i] \in InitialSet /\ InitialRadios[i] \in Radios
    BY DEF InitialSet
  <2>3. id[InitialRadios[i]] = InitialId(i)
    BY <2>1, <2>2 DEF Init
  <2>4. 0 \in 0..Len(InitialRadios) /\ i \in 0..Len(InitialRadios) /\ 0 < i
    OBVIOUS
  <2> QED
    BY <2>3, <2>4, InitialIds
<1>2. \A r \in Radios : r \notin InitialSet => id[r] = NoId
  BY DEF Init
<1>3. Registered = InitialSet
  <2>1. ASSUME NEW r \in InitialSet
        PROVE  r \in Registered
    <3>1. PICK i \in 1..Len(InitialRadios) : r = InitialRadios[i]
      BY DEF InitialSet
    <3>2. r \in Radios /\ left[r] = Off
      BY <3>1 DEF Init
    <3> QED
      BY <1>1, <3>1, <3>2 DEF Registered, NoId
  <2> QED
    BY <1>2, <2>1 DEF Registered
<1> QED
  BY <1>1, <1>2, <1>3

LEMMA IdInitial == ASSUME Init PROVE IdInv
<1>1. ASSUME NEW i \in 1..Len(InitialRadios)
      PROVE  IdsBefore(i) - 1 \in Nat /\ IdsBefore(i) - 1 < nextId
  <2>1. 0 \in 0..Len(InitialRadios) /\ i \in 0..Len(InitialRadios)
        /\ Len(InitialRadios) \in 0..Len(InitialRadios) /\ 0 < i /\ (i = Len(InitialRadios) \/ i < Len(InitialRadios))
    OBVIOUS
  <2>2. nextId = IdsBefore(Len(InitialRadios))
    BY DEF Init
  <2> QED
    BY <2>1, <2>2, InitialIds
<1>2. ASSUME NEW r \in InitialSet
      PROVE  \E i \in 1..Len(InitialRadios) : r = InitialRadios[i] /\ id[r] = IdsBefore(i) - 1
  <2>1. PICK i \in 1..Len(InitialRadios) : r = InitialRadios[i]
    BY DEF InitialSet
  <2> QED
    BY <2>1, IdsAtStart
<1>3. nextId \in Nat
  BY InitialIds DEF Init
<1>4. id \in [Radios -> Nat \union {NoId}]
  <2>1. id = [r \in Radios |-> id[r]]
    BY DEF Init
  <2>2. ASSUME NEW r \in Radios
        PROVE  id[r] \in Nat \union {NoId}
    <3>1. CASE r \in InitialSet
      BY <1>1, <1>2, <3>1
    <3>2. CASE r \notin InitialSet
      BY <3>2, IdsAtStart
    <3> QED
      BY <3>1, <3>2
  <2> QED
    BY <2>1, <2>2
<1>5. left \in [Radios -> Nat \union {Off}] /\ \A r \in Radios : left[r] = Off
  BY DEF Init
<1>6. ASSUME NEW r \in Radios
      PROVE  id[r] < nextId
  <2>1. CASE r \in InitialSet
    BY <1>1, <1>2, <2>1
  <2>2. CASE r \notin InitialSet
    BY <1>3, <2>2, IdsAtStart DEF NoId
  <2> QED
    BY <2>1, <2>2
<1>7. ASSUME NEW r \in Radios, NEW s \in Radios, id[r] = id[s], id[r] # NoId
      PROVE  r = s
  <2>1. r \in InitialSet /\ s \in InitialSet
    BY <1>7, IdsAtStart
  <2>2. PICK i \in 1..Len(InitialRadios) : r = InitialRadios[i] /\ id[r] = IdsBefore(i) - 1
    BY <1>2, <2>1
  <2>3. PICK j \in 1..Len(InitialRadios) : s = InitialRadios[j] /\ id[s] = IdsBefore(j) - 1
    BY <1>2, <2>1
  <2>4. i \in 0..Len(InitialRadios) /\ j \in 0..Len(InitialRadios) /\ IdsBefore(i) \in Nat /\ IdsBefore(j) \in Nat
    BY InitialIds
  <2>5. ~(i < j) /\ ~(j < i)
    BY <1>7, <2>2, <2>3, <2>4, InitialIds
  <2> QED
    BY <2>2, <2>3, <2>5
<1>8. \A r \in InitialSet : id[r] # NoId
  BY IdsAtStart DEF Registered
<1> QED
  BY <1>3, <1>4, <1>5, <1>6, <1>7, <1>8 DEF IdInv

LEMMA CacheInitial == ASSUME Init PROVE CacheInv
<1>1. 1 \in 0..Len(InitialRadios) /\ 0 \in 0..Len(InitialRadios) /\ Len(InitialRadios) \in 0..Len(InitialRadios)
      /\ 1 \in 1..Len(InitialRadios) /\ Len(InitialRadios) \in Nat
  OBVIOUS
<1>2. baseRadioId = IdsBefore(1) - 1 /\ baseRadioId \in Nat
  BY <1>1, InitialIds DEF Init
<1>3. nextId = IdsBefore(Len(InitialRadios)) /\ nextId \in Nat
  BY <1>1, InitialIds DEF Init
<1>4. nextId - baseRadioId \in Nat
  <2>1. \A n \in Nat : 1 \in 1..n => n = 1 \/ 1 < n
    OBVIOUS
  <2>2. Len(InitialRadios) = 1 \/ 1 < Len(InitialRadios)
    BY <1>1, <2>1
  <2> QED
    BY <1>1, <1>2, <1>3, <2>2, InitialIds
<1>5. radioCache = [i \in 1..(nextId - baseRadioId) |-> FALSE]
  BY DEF Init
<1>6. radioCache \in Seq(BOOLEAN) /\ Len(radioCache) = nextId - baseRadioId
  <2>1. ASSUME NEW m \in Nat
        PROVE  [i \in 1..m |-> FALSE] \in Seq(BOOLEAN) /\ Len([i \in 1..m |-> FALSE]) = m
    OBVIOUS
  <2> QED
    BY <1>4, <1>5, <2>1
<1>7. ASSUME NEW r \in Registered
      PROVE  CacheIndex(r) \in 1..Len(radioCache) /\ radioCache[CacheIndex(r)] = FALSE
  <2>1. PICK i \in 1..Len(InitialRadios) : r = InitialRadios[i] /\ id[r] = IdsBefore(i) - 1
    BY IdsAtStart DEF InitialSet
  <2>2. i \in 0..Len(InitialRadios) /\ (i = 1 \/ 1 < i) /\ (i = Len(InitialRadios) \/ i < Len(InitialRadios))
    BY <1>1
  <2>3. IdsBefore(1) <= IdsBefore(i) /\ IdsBefore(i) <= IdsBefore(Len(InitialRadios)) /\ IdsBefore(i) \in Nat
    BY <1>1, <2>2, InitialIds
  <2>4. CacheIndex(r) = IdsBefore(i) - IdsBefore(1) + 1
    BY <1>1, <1>2, <2>1, <2>3, InitialIds DEF CacheIndex
  <2>5. CacheIndex(r) \in 1..(nextId - baseRadioId)
    BY <1>1, <1>2, <1>3, <2>3, <2>4, InitialIds, SMTT(40)
  <2> QED
    BY <1>5, <1>6, <2>5
<1>8. receptionCache = <<>>
  BY DEF Init
<1>9. receptionCache \in Seq(Seq(Radios \union {NoArrival})) /\ Len(receptionCache) = 0
  BY <1>8
<1>10. baseRadioId + Len(radioCache) = nextId
  BY <1>2, <1>3, <1>6
<1> QED
  <2>1. \A t \in 1..Len(receptionCache) :
          /\ Len(receptionCache[t]) = Len(radioCache)
          /\ \A i \in 1..Len(radioCache) :
              receptionCache[t][i] # NoArrival => id[receptionCache[t][i]] = baseRadioId + i - 1
    BY <1>9
  <2> QED
    BY <1>2, <1>6, <1>7, <1>9, <1>10, <2>1 DEF CacheInv

LEMMA ListInitial == ASSUME Init PROVE ListInv
<1>1. radios = InitialRadios /\ corrupted = FALSE
  BY DEF Init
<1>2. Registered = {radios[i] : i \in 1..Len(radios)}
  BY <1>1, IdsAtStart DEF InitialSet
<1>3. ASSUME NEW i \in 1..Len(radios), NEW j \in 1..Len(radios), i < j
      PROVE  id[radios[i]] < id[radios[j]]
  <2>1. i \in 0..Len(InitialRadios) /\ j \in 0..Len(InitialRadios)
    BY <1>1
  <2>2. IdsBefore(i) < IdsBefore(j) /\ IdsBefore(i) \in Nat /\ IdsBefore(j) \in Nat
    BY <1>3, <2>1, InitialIds
  <2> QED
    BY <1>1, <2>2, IdsAtStart
<1> QED
  BY <1>1, <1>2, <1>3 DEF ListInv


-----------------------------------------------------------------------------
(***************************************************************************)
(* The neighbour cache.                                                    *)
(***************************************************************************)

LEMMA ProductFacts ==
    ASSUME NEW a \in Nat, NEW b \in Nat, NEW c \in Nat
    PROVE  /\ a * b \in Nat
           /\ a <= b => a * c <= b * c
           /\ a # 0 => (a - 1) * c = a * c - c
OBVIOUS

\* The margin of a refill is enough until the next one.
LEMMA MarginSuffices ==
    ASSUME NEW v \in Nat, NEW m \in Nat, v <= m, NEW t \in Nat, t <= refillPeriod,
           NEW d \in Int, ~(d <= m * refillPeriod + range)
    PROVE  d > range + t * v
<1>1. t * v <= refillPeriod * v /\ refillPeriod * v = v * refillPeriod /\ v * refillPeriod <= m * refillPeriod
  BY ProductFacts
<1>2. t * v \in Nat /\ refillPeriod * v \in Nat /\ m * refillPeriod \in Nat
  BY ProductFacts
<1> QED
  BY <1>1, <1>2

LEMMA PairSpeed ==
    ASSUME NeighborType, NEW r \in Registered \intersect InitialSet, NEW s \in Registered \intersect InitialSet,
           Speed[r] = 0 \/ Speed[s] = 0
    PROVE  /\ Speed[r] + Speed[s] \in Nat /\ Speed[r] + Speed[s] <= maxSpeed /\ maxSpeed \in Nat
           /\ Speed[r] + Speed[s] # 0 => updateNeighborListsTimer # Off
<1>1. Speed[r] \in Nat /\ Speed[s] \in Nat /\ Speed[r] <= maxSpeed /\ Speed[s] <= maxSpeed /\ maxSpeed \in Nat
  BY DEF NeighborType, Registered
<1>2. Speed[r] + Speed[s] # 0 => updateNeighborListsTimer # Off
  <2>1. Speed[r] # 0 => r \in Movers
    BY DEF Movers
  <2>2. Speed[s] # 0 => s \in Movers
    BY DEF Movers
  <2>3. Movers # {} => updateNeighborListsTimer # Off
    BY DEF NeighborType
  <2> QED
    BY <1>1, <2>1, <2>2, <2>3
<1> QED
  BY <1>1, <1>2

LEMMA RemainingFacts ==
    ASSUME NeighborType
    PROVE  Remaining \in Nat /\ Remaining <= refillPeriod
BY DEF NeighborType, Remaining

LEMMA NeighborInitial == ASSUME Init PROVE NeighborType /\ ReachInv
<1>1. Registered = InitialSet /\ InitialSet \subseteq Radios /\ InitialSet # {}
  BY IdsAtStart DEF InitialSet
<1>2. IsFiniteSet(InitialSet)
  <2>1. IsFiniteSet(1..Len(InitialRadios))
    BY FS_Interval
  <2>2. InitialRadios \in Surjection(1..Len(InitialRadios), InitialSet)
    BY DEF Surjection, InitialSet
  <2> QED
    BY <2>1, <2>2, FS_Surjection
<1>3. now = 0 /\ limitRadios = InitialSet /\ neighborRadios = InitialSet /\ maxSpeed = ComputeMaxSpeed(InitialSet)
  BY DEF Init, NeighborInit
<1>4. position \in [Radios -> Places]
  BY DEF Init, NeighborInit
<1>5. maxSpeed \in Nat /\ \A r \in InitialSet : Speed[r] <= maxSpeed
  BY <1>1, <1>2, <1>3, MaxSpeedIsMax
<1>6. updateNeighborListsTimer = IF maxSpeed # 0 THEN refillPeriod ELSE Off
  BY <1>3 DEF Init, NeighborInit
<1>7. neighborVector = [r \in Radios |->
            IF r \in InitialSet THEN Near(InitialSet, r) ELSE {}]
  BY DEF Init, NeighborInit
<1>8. Movers # {} => maxSpeed # 0
  <2> SUFFICES ASSUME NEW r \in Movers
               PROVE  maxSpeed # 0
    OBVIOUS
  <2>1. r \in InitialSet /\ Speed[r] # 0 /\ Speed[r] \in Nat
    BY <1>1 DEF Movers
  <2> QED
    BY <1>5, <2>1
<1>9. neighborVector \in [Radios -> SUBSET Radios]
  <2>1. \A r \in Radios : Near(InitialSet, r) \subseteq Radios
    BY <1>1 DEF Near
  <2> QED
    BY <1>7, <2>1
<1>10. NeighborType
  <2>1. updateNeighborListsTimer \in Nat \union {Off}
        /\ (updateNeighborListsTimer # Off => now <= updateNeighborListsTimer
                                              /\ updateNeighborListsTimer <= now + refillPeriod)
        /\ (Movers # {} => updateNeighborListsTimer # Off)
    BY <1>3, <1>6, <1>8 DEF Off
  <2> QED
    BY <1>1, <1>2, <1>3, <1>4, <1>5, <1>9, <2>1 DEF NeighborType
<1>11. ReachInv
  <2> SUFFICES ASSUME NEW r \in InitialSet, NEW s \in InitialSet, r # s, Speed[r] = 0 \/ Speed[s] = 0,
                      s \notin neighborVector[r]
               PROVE  OutOfReach(r, s)
    BY <1>1 DEF ReachInv
  <2>1. ~(Distance(position[r], position[s]) <= Radius)
    <3>1. neighborVector[r] = Near(InitialSet, r) /\ maxSpeed # NaN
      BY <1>1, <1>5, <1>7 DEF NaN
    <3> QED
      BY <3>1 DEF Near
  <2>2. Speed[r] + Speed[s] \in Nat /\ Speed[r] + Speed[s] <= maxSpeed
    BY <1>1, <1>10, PairSpeed
  <2>3. Distance(position[r], position[s]) \in Int
    <3>1. position[r] \in Int /\ position[s] \in Int
      BY <1>1, <1>4
    <3>2. Distance(position[r], position[s]) \in Nat
      BY <3>1, DistanceFacts
    <3> QED
      BY <3>2
  <2> QED
    BY <1>5, <1>10, <2>1, <2>2, <2>3, RemainingFacts, MarginSuffices DEF OutOfReach, Radius
<1> QED
  BY <1>10, <1>11

\* The rows of the lists made by updateNeighborLists.
LEMMA RowsAfterUpdate ==
    ASSUME NEW rs \in SUBSET Radios, neighborVector \in [Radios -> SUBSET Radios], UpdateNeighborLists(rs)
    PROVE  /\ neighborVector' \in [Radios -> SUBSET Radios]
           /\ \A r \in rs : neighborVector'[r] = Near(rs, r)
<1>1. \A r \in Radios : Near(rs, r) \subseteq Radios
  BY DEF Near
<1> QED
  BY <1>1 DEF UpdateNeighborLists

\* After a refill for the radios that are registered then, the lists are complete.
LEMMA ReachAfterUpdate ==
    ASSUME IdInv, NeighborType, NeighborType', UNCHANGED position, UpdateNeighborLists(Registered'),
           Registered' \intersect InitialSet \subseteq Registered
    PROVE  ReachInv'
<1>1. Registered' \subseteq Radios /\ neighborVector \in [Radios -> SUBSET Radios]
  BY DEF NeighborType, Registered
<1>2. \A r \in Registered' : neighborVector'[r] = Near(Registered', r)
  BY <1>1, RowsAfterUpdate
<1> SUFFICES ASSUME NEW r \in Registered' \intersect InitialSet, NEW s \in Registered' \intersect InitialSet,
                    r # s, Speed[r] = 0 \/ Speed[s] = 0, s \notin neighborVector'[r]
             PROVE  OutOfReach(r, s)'
  BY DEF ReachInv
<1>3. r \in Registered \intersect InitialSet /\ s \in Registered \intersect InitialSet
  OBVIOUS
<1>4. Speed[r] + Speed[s] \in Nat /\ Speed[r] + Speed[s] <= maxSpeed /\ maxSpeed \in Nat
  BY <1>3, PairSpeed
<1>5. ~(Distance(position[r], position[s]) <= Radius)
  <2>1. neighborVector'[r] = Near(Registered', r) /\ maxSpeed # NaN
    BY <1>2, <1>4 DEF NaN
  <2> QED
    BY <2>1 DEF Near
<1>6. Distance(position[r], position[s]) \in Int
  <2>1. position[r] \in Int /\ position[s] \in Int
    BY <1>1, <1>3 DEF NeighborType
  <2>2. Distance(position[r], position[s]) \in Nat
    BY <2>1, DistanceFacts
  <2> QED
    BY <2>2
<1>7. (Remaining \in Nat /\ Remaining <= refillPeriod)'
  BY RemainingFacts, PTL
<1>8. Distance(position[r], position[s]) > range + Remaining' * (Speed[r] + Speed[s])
  BY <1>4, <1>5, <1>6, <1>7, MarginSuffices DEF Radius
<1> QED
  BY <1>8 DEF OutOfReach

LEMMA AddsRegistered ==
    ASSUME IdInv, NEW r \in Radios, AddRadio(r)
    PROVE  /\ Registered' = Registered \union {r} /\ r \notin Registered /\ r \notin InitialSet
           /\ id' = [id EXCEPT ![r] = IdFrom(nextId, r)]
           /\ IdFrom(nextId, r) \in Nat /\ nextId <= IdFrom(nextId, r)
           /\ nextId' = IdFrom(nextId, r) + 1 /\ left' = left
<1>1. id[r] = NoId /\ id' = [id EXCEPT ![r] = IdFrom(nextId, r)] /\ nextId' = nextId + IdsTaken(r) /\ left' = left
  BY DEF AddRadio
<1>2. IdFrom(nextId, r) \in Nat /\ nextId <= IdFrom(nextId, r) /\ nextId' = IdFrom(nextId, r) + 1
  BY <1>1 DEF IdInv, IdFrom, IdsTaken
<1>3. id \in [Radios -> Nat \union {NoId}] /\ left[r] = Off /\ r \notin InitialSet
  BY <1>1 DEF IdInv
<1>4. IdFrom(nextId, r) # NoId
  BY <1>2 DEF NoId
<1>5. Registered' = Registered \union {r}
  BY <1>1, <1>3, <1>4 DEF Registered
<1> QED
  BY <1>1, <1>2, <1>3, <1>5 DEF Registered

LEMMA NeighborAdds ==
    ASSUME IdInv, NeighborType, NEW r \in Radios, AddRadio(r)
    PROVE  NeighborType' /\ ReachInv'
<1>1. Registered' = Registered \union {r} /\ r \notin Registered /\ r \notin InitialSet /\ Registered \subseteq Radios
  BY AddsRegistered DEF Registered
<1>2. /\ neighborRadios' = Registered' /\ limitRadios' = Registered' /\ UpdateNeighborLists(Registered')
      /\ maxSpeed' = ComputeMaxSpeed(Registered)
      /\ updateNeighborListsTimer' =
          IF maxSpeed' # 0 /\ updateNeighborListsTimer = Off THEN now + refillPeriod
          ELSE updateNeighborListsTimer
      /\ UNCHANGED <<now, position>>
  <2>1. limitRadios = Registered /\ neighborRadios = Registered
    BY DEF NeighborType
  <2> QED
    BY <1>1, <2>1 DEF AddRadio, NeighborAddRadio
<1>3. IsFiniteSet(Registered) /\ IsFiniteSet(Registered')
  <2>1. IsFiniteSet(Registered)
    BY DEF NeighborType
  <2> QED
    BY <1>1, <2>1, FS_AddElement
<1>4. Registered' \intersect InitialSet = Registered \intersect InitialSet
  BY <1>1
<1>5. /\ Registered' \intersect InitialSet # {} => maxSpeed' \in Nat
      /\ \A s \in Registered' \intersect InitialSet : Speed[s] <= maxSpeed'
  <2>1. CASE Registered = {}
    BY <1>4, <2>1
  <2>2. CASE Registered # {}
    BY <1>1, <1>2, <1>3, <1>4, <2>2, MaxSpeedIsMax
  <2> QED
    BY <2>1, <2>2
<1>6. /\ updateNeighborListsTimer \in Nat \union {Off}
      /\ updateNeighborListsTimer # Off => now <= updateNeighborListsTimer
                                           /\ updateNeighborListsTimer <= now + refillPeriod
      /\ now \in Nat /\ position \in [Radios -> Places] /\ neighborVector \in [Radios -> SUBSET Radios]
      /\ Movers # {} => updateNeighborListsTimer # Off
  BY DEF NeighborType
<1>7. neighborVector' \in [Radios -> SUBSET Radios]
  BY <1>1, <1>2, <1>6, RowsAfterUpdate
<1>8. /\ updateNeighborListsTimer' \in Nat \union {Off}
      /\ updateNeighborListsTimer' # Off => now <= updateNeighborListsTimer'
                                            /\ updateNeighborListsTimer' <= now + refillPeriod
      /\ updateNeighborListsTimer # Off => updateNeighborListsTimer' # Off
  BY <1>2, <1>6 DEF Off
<1>9. Movers' = Movers
  BY <1>4 DEF Movers
<1>10. NeighborType'
  BY <1>2, <1>3, <1>5, <1>6, <1>7, <1>8, <1>9 DEF NeighborType
<1>11. Registered' \intersect InitialSet \subseteq Registered
  BY <1>4
<1> QED
  BY <1>2, <1>10, <1>11, ReachAfterUpdate

LEMMA NeighborRefills ==
    ASSUME IdInv, NeighborType, TimerFires
    PROVE  NeighborType' /\ ReachInv'
<1>1. Registered' = Registered /\ Registered \subseteq Radios
  BY DEF TimerFires, Registered
<1>2. /\ UpdateNeighborLists(Registered') /\ updateNeighborListsTimer' = now + refillPeriod
      /\ UNCHANGED <<now, position, limitRadios, neighborRadios, maxSpeed>>
  BY <1>1 DEF TimerFires, NeighborListsTimerFires, NeighborType
<1>3. now \in Nat /\ neighborVector \in [Radios -> SUBSET Radios]
  BY DEF NeighborType
<1>4. neighborVector' \in [Radios -> SUBSET Radios]
  BY <1>1, <1>2, <1>3, RowsAfterUpdate
<1>5. updateNeighborListsTimer' \in Nat /\ now <= updateNeighborListsTimer' /\ updateNeighborListsTimer' # Off
  BY <1>2, <1>3 DEF Off
<1>6. NeighborType'
  BY <1>1, <1>2, <1>4, <1>5 DEF NeighborType, Movers
<1>7. Registered' \intersect InitialSet \subseteq Registered
  BY <1>1
<1> QED
  BY <1>2, <1>6, <1>7, ReachAfterUpdate

LEMMA DistanceMoves ==
    ASSUME NEW p \in Int, NEW q \in Int, NEW p2 \in Int, NEW q2 \in Int, NEW a \in Nat, NEW b \in Nat,
           Distance(p, p2) <= a, Distance(q, q2) <= b
    PROVE  Distance(p, q) - (a + b) <= Distance(p2, q2)
BY DEF Distance

LEMMA NeighborTick ==
    ASSUME IdInv, NeighborType, ReachInv, Tick
    PROVE  NeighborType' /\ ReachInv'
<1>1. /\ now # updateNeighborListsTimer /\ now' = now + 1 /\ position' \in [Radios -> Places]
      /\ \A r \in Radios : Distance(position[r], position'[r]) <= Speed[r]
      /\ UNCHANGED <<id, left, limitRadios, neighborRadios, neighborVector, maxSpeed, updateNeighborListsTimer>>
  BY DEF Tick, MoveOn, neighborVars
<1>2. Registered' = Registered /\ Registered \subseteq Radios
  BY <1>1 DEF Registered
<1>3. /\ now \in Nat /\ position \in [Radios -> Places]
      /\ updateNeighborListsTimer \in Nat \union {Off}
      /\ updateNeighborListsTimer # Off => now <= updateNeighborListsTimer
                                           /\ updateNeighborListsTimer <= now + refillPeriod
  BY DEF NeighborType
<1>4. NeighborType'
  BY <1>1, <1>2, <1>3 DEF NeighborType, Movers
<1>5. ReachInv'
  <2> SUFFICES ASSUME NEW r \in Registered' \intersect InitialSet, NEW s \in Registered' \intersect InitialSet,
                      r # s, Speed[r] = 0 \/ Speed[s] = 0, s \notin neighborVector'[r]
               PROVE  OutOfReach(r, s)'
    BY DEF ReachInv
  <2>1. r \in Registered \intersect InitialSet /\ s \in Registered \intersect InitialSet
        /\ r \in Radios /\ s \in Radios /\ s \notin neighborVector[r]
    BY <1>1, <1>2
  <2>2. OutOfReach(r, s)
    BY <2>1 DEF ReachInv
  <2>3. Speed[r] + Speed[s] \in Nat /\ Speed[r] \in Nat /\ Speed[s] \in Nat
        /\ (Speed[r] + Speed[s] # 0 => updateNeighborListsTimer # Off)
    BY <2>1, PairSpeed
  <2>4. /\ position[r] \in Int /\ position[s] \in Int /\ position'[r] \in Int /\ position'[s] \in Int
    BY <1>1, <1>3, <2>1
  <2>5. Distance(position[r], position[s]) - (Speed[r] + Speed[s]) <= Distance(position'[r], position'[s])
    BY <1>1, <2>1, <2>3, <2>4, DistanceMoves
  <2>6. Distance(position[r], position[s]) \in Nat /\ Distance(position'[r], position'[s]) \in Nat
    BY <2>4, DistanceFacts
  <2>7. Remaining \in Nat /\ Remaining * (Speed[r] + Speed[s]) \in Nat
    BY <2>3, RemainingFacts, ProductFacts
  <2>8. Remaining' * (Speed[r] + Speed[s]) = Remaining * (Speed[r] + Speed[s]) - (Speed[r] + Speed[s])
    <3>1. CASE updateNeighborListsTimer = Off
      <4>1. Speed[r] + Speed[s] = 0 /\ Remaining = 0 /\ Remaining' = 0
        BY <1>1, <2>3, <3>1 DEF Remaining
      <4> QED
        BY <4>1
    <3>2. CASE updateNeighborListsTimer # Off
      <4>1. Remaining # 0 /\ Remaining' = Remaining - 1
        BY <1>1, <1>3, <3>2 DEF Remaining
      <4> QED
        BY <2>3, <2>7, <4>1, ProductFacts
    <3> QED
      BY <3>1, <3>2
  <2>9. Distance(position[r], position[s]) > range + Remaining * (Speed[r] + Speed[s])
    BY <2>2 DEF OutOfReach
  <2>10. Distance(position'[r], position'[s]) > range + Remaining' * (Speed[r] + Speed[s])
    BY <2>3, <2>5, <2>6, <2>7, <2>8, <2>9
  <2> QED
    BY <2>10 DEF OutOfReach
<1> QED
  BY <1>4, <1>5

LEMMA NeighborRemoves ==
    ASSUME IdInv, NeighborType, ReachInv, NEW r \in Radios, RemoveRadio(r)
    PROVE  NeighborType' /\ ReachInv'
<1>1. /\ r \in Registered /\ left' = [left EXCEPT ![r] = now] /\ id' = id
      /\ maxSpeed' = ComputeMaxSpeed(limitRadios)
      /\ updateNeighborListsTimer' = IF maxSpeed' = 0 THEN Off ELSE updateNeighborListsTimer
      /\ limitRadios' = limitRadios \ {r} /\ neighborRadios' = neighborRadios \ {r}
      /\ UNCHANGED <<now, position, neighborVector>>
  BY DEF RemoveRadio, NeighborRemoveRadio
<1>2. /\ now \in Nat /\ limitRadios = Registered /\ neighborRadios = Registered /\ IsFiniteSet(Registered)
      /\ updateNeighborListsTimer \in Nat \union {Off}
      /\ updateNeighborListsTimer # Off => now <= updateNeighborListsTimer
                                           /\ updateNeighborListsTimer <= now + refillPeriod
      /\ Movers # {} => updateNeighborListsTimer # Off
  BY DEF NeighborType
<1>3. Registered' = Registered \ {r} /\ Registered \subseteq Radios /\ left'[r] = now
      /\ \A s \in Radios : s # r => left'[s] = left[s]
  BY <1>1, <1>2 DEF Registered, IdInv, Off
<1>4. maxSpeed' \in Nat /\ \A s \in Registered : Speed[s] <= maxSpeed'
  BY <1>1, <1>2, <1>3, MaxSpeedIsMax
<1>5. IsFiniteSet(Registered')
  BY <1>2, <1>3, FS_RemoveElement
<1>6. Movers' # {} => updateNeighborListsTimer' # Off
  <2> SUFFICES ASSUME NEW s \in Movers'
               PROVE  updateNeighborListsTimer' # Off
    OBVIOUS
  <2>1. s \in Movers /\ s \in Registered /\ Speed[s] # 0 /\ Speed[s] \in Nat
    BY <1>3 DEF Movers
  <2>2. maxSpeed' # 0
    BY <1>4, <2>1
  <2> QED
    BY <1>1, <1>2, <2>1, <2>2
<1>7. NeighborType'
  <2>1. \A s \in Registered' \intersect InitialSet : Speed[s] <= maxSpeed'
    BY <1>3, <1>4
  <2>2. position \in [Radios -> Places] /\ neighborVector \in [Radios -> SUBSET Radios]
    BY DEF NeighborType
  <2>3. limitRadios' = Registered' /\ neighborRadios' = Registered'
    BY <1>1, <1>2, <1>3
  <2> QED
    BY <1>1, <1>2, <1>4, <1>5, <1>6, <2>1, <2>2, <2>3 DEF NeighborType
<1>8. ReachInv'
  <2> SUFFICES ASSUME NEW p \in Registered' \intersect InitialSet, NEW q \in Registered' \intersect InitialSet,
                      p # q, Speed[p] = 0 \/ Speed[q] = 0, q \notin neighborVector'[p]
               PROVE  OutOfReach(p, q)'
    BY DEF ReachInv
  <2>1. p \in Registered \intersect InitialSet /\ q \in Registered \intersect InitialSet /\ q \notin neighborVector[p]
    BY <1>1, <1>3
  <2>2. Distance(position[p], position[q]) > range + Remaining * (Speed[p] + Speed[q])
    BY <2>1 DEF ReachInv, OutOfReach
  <2>3. Speed[p] + Speed[q] \in Nat /\ position[p] \in Int /\ position[q] \in Int
    BY <2>1, PairSpeed DEF NeighborType, Registered
  <2>4. Remaining \in Nat /\ (Remaining' = Remaining \/ Remaining' = 0)
    BY <1>1, RemainingFacts DEF Remaining
  <2>5. Remaining * (Speed[p] + Speed[q]) \in Nat /\ 0 * (Speed[p] + Speed[q]) = 0
    BY <2>3, <2>4, ProductFacts
  <2>6. Distance(position[p], position[q]) \in Nat
    BY <2>3, DistanceFacts
  <2>7. Distance(position[p], position[q]) > range + Remaining' * (Speed[p] + Speed[q])
    BY <2>2, <2>4, <2>5, <2>6
  <2> QED
    BY <1>1, <2>7 DEF OutOfReach
<1> QED
  BY <1>7, <1>8

LEMMA NeighborElsewhere ==
    ASSUME NeighborType, ReachInv, UNCHANGED <<now, position, neighborVars, id, left>>
    PROVE  NeighborType' /\ ReachInv'
<1>1. Registered' = Registered
  BY DEF Registered
<1>2. NeighborType'
  BY <1>1 DEF NeighborType, Movers, neighborVars
<1>3. ReachInv'
  BY <1>1 DEF ReachInv, OutOfReach, Remaining, neighborVars
<1> QED
  BY <1>2, <1>3

-----------------------------------------------------------------------------
(***************************************************************************)
(* The ids.                                                                *)
(***************************************************************************)

LEMMA IdAdds ==
    ASSUME IdInv, NEW r \in Radios, AddRadio(r)
    PROVE  IdInv'
<1>1. /\ id' = [id EXCEPT ![r] = IdFrom(nextId, r)] /\ left' = left /\ r \notin InitialSet
      /\ IdFrom(nextId, r) \in Nat /\ nextId <= IdFrom(nextId, r) /\ nextId' = IdFrom(nextId, r) + 1
  BY AddsRegistered
<1>2. /\ nextId \in Nat /\ id \in [Radios -> Nat \union {NoId}] /\ left \in [Radios -> Nat \union {Off}]
      /\ \A s \in Radios : id[s] < nextId
      /\ \A s \in Radios : left[s] # Off => id[s] # NoId
      /\ \A p, s \in Radios : id[p] = id[s] /\ id[p] # NoId => p = s
      /\ \A s \in InitialSet : id[s] # NoId
  BY DEF IdInv
<1> DEFINE new == IdFrom(nextId, r)
<1>3. id'[r] = new /\ (\A s \in Radios : s # r => id'[s] = id[s]) /\ id' \in [Radios -> Nat \union {NoId}]
  BY <1>1, <1>2
<1> HIDE DEF new
<1>4. new \in Nat /\ nextId <= new /\ nextId' = new + 1 /\ new # NoId
  BY <1>1 DEF new, NoId
<1>5. ASSUME NEW s \in Radios
      PROVE  id'[s] < nextId' /\ (left'[s] # Off => id'[s] # NoId) /\ (s # r => id'[s] < new)
  <2>1. id[s] \in Int
    BY <1>2 DEF NoId
  <2> QED
    BY <1>1, <1>2, <1>3, <1>4, <2>1
<1>6. ASSUME NEW p \in Radios, NEW s \in Radios, id'[p] = id'[s], id'[p] # NoId
      PROVE  p = s
  <2>1. CASE p = r /\ s # r
    BY <1>3, <1>4, <1>5, <1>6, <2>1
  <2>2. CASE s = r /\ p # r
    BY <1>3, <1>4, <1>5, <1>6, <2>2
  <2>3. CASE p # r /\ s # r
    BY <1>2, <1>3, <1>6, <2>3
  <2> QED
    BY <2>1, <2>2, <2>3
<1>7. \A s \in InitialSet : id'[s] # NoId
  BY <1>1, <1>2, <1>3 DEF InitialSet
<1> QED
  BY <1>1, <1>2, <1>3, <1>4, <1>5, <1>6, <1>7 DEF IdInv

LEMMA IdRemoves ==
    ASSUME IdInv, NeighborType, NEW r \in Radios, RemoveRadio(r)
    PROVE  IdInv'
<1>1. left' = [left EXCEPT ![r] = now] /\ id[r] # NoId /\ UNCHANGED <<id, nextId>>
  BY DEF RemoveRadio, Registered
<1>2. left' \in [Radios -> Nat \union {Off}] /\ \A s \in Radios : s # r => left'[s] = left[s]
  BY <1>1 DEF IdInv, NeighborType
<1>3. \A s \in Radios : left'[s] # Off => id[s] # NoId
  BY <1>1, <1>2 DEF IdInv
<1> QED
  BY <1>1, <1>2, <1>3 DEF IdInv

LEMMA IdElsewhere == ASSUME IdInv, UNCHANGED <<nextId, id, left>> PROVE IdInv'
BY DEF IdInv

-----------------------------------------------------------------------------
(***************************************************************************)
(* The communication cache.                                                *)
(***************************************************************************)

\* What addRadio does to the rows: r's arrival is at the new end of each, the others stay.
RowsExtended(r) ==
    /\ Len(receptionCache') = Len(receptionCache) /\ CacheIndex(r)' = Len(radioCache')
    /\ \A s \in Registered : CacheIndex(s)' = CacheIndex(s)
    /\ \A t \in 1..Len(receptionCache) :
        /\ receptionCache'[t][Len(radioCache')] = r
        /\ \A i \in 1..Len(radioCache) : receptionCache'[t][i] = receptionCache[t][i]
        /\ \A i \in 1..Len(radioCache') : i \notin 1..Len(radioCache) => receptionCache'[t][i] \in {r, NoArrival}

LEMMA CacheAdds ==
    ASSUME IdInv, CacheInv, NEW r \in Radios, AddRadio(r)
    PROVE  CacheInv' /\ RowsExtended(r)
<1>1. /\ Registered' = Registered \union {r} /\ r \notin Registered
      /\ id' = [id EXCEPT ![r] = IdFrom(nextId, r)]
      /\ IdFrom(nextId, r) \in Nat /\ nextId <= IdFrom(nextId, r) /\ nextId' = IdFrom(nextId, r) + 1
  BY AddsRegistered
<1> DEFINE new == IdFrom(nextId, r)
           index == new - baseRadioId' + 1
<1>2. id \in [Radios -> Nat \union {NoId}] /\ id[r] = NoId
  BY DEF IdInv, AddRadio
<1>3. id'[r] = new /\ \A s \in Radios : s # r => id'[s] = id[s]
  BY <1>1, <1>2
<1>4. /\ baseRadioId \in Nat /\ radioCache \in Seq(BOOLEAN) /\ baseRadioId + Len(radioCache) = nextId
      /\ receptionCache \in Seq(Seq(Radios \union {NoArrival}))
      /\ \A t \in 1..Len(receptionCache) : Len(receptionCache[t]) = Len(radioCache)
  BY DEF CacheInv
<1>5. /\ baseRadioId' = IF radioCache = <<>> THEN new ELSE baseRadioId
      /\ radioCache' = Resized(radioCache, index, FALSE)
      /\ receptionCache' = [t \in DOMAIN receptionCache |->
            [Resized(receptionCache[t], index, NoArrival) EXCEPT ![index] = r]]
  BY <1>2, <1>3 DEF AddRadio
<1>14. CacheIndex(r)' = index
  BY <1>3 DEF CacheIndex
<1> HIDE DEF new
<1>6. new \in Nat /\ nextId <= new /\ nextId' = new + 1
  BY <1>1 DEF new
<1>7. Len(radioCache) \in Nat /\ (radioCache = <<>> <=> Len(radioCache) = 0)
  BY <1>4
<1>8. /\ baseRadioId' \in Nat /\ index \in Nat /\ Len(radioCache) < index
      /\ baseRadioId' + index = nextId' /\ index \in 1..index
      /\ Len(radioCache) # 0 => baseRadioId' = baseRadioId
  BY <1>4, <1>5, <1>6, <1>7
<1>13. new = baseRadioId' + index - 1
  <2>1. \A a, b \in Nat : a = b + (a - b + 1) - 1
    OBVIOUS
  <2> QED
    BY <1>6, <1>8, <2>1
<1> HIDE DEF index
<1>9. /\ radioCache' \in Seq(BOOLEAN) /\ Len(radioCache') = index
      /\ \A i \in 1..Len(radioCache) : radioCache'[i] = radioCache[i]
      /\ \A i \in 1..index : i > Len(radioCache) => radioCache'[i] = FALSE
  <2>1. DOMAIN radioCache = 1..Len(radioCache) /\ index > Len(radioCache)
    BY <1>4, <1>7, <1>8
  <2>2. radioCache' = [i \in 1..index |-> IF i \in 1..Len(radioCache) THEN radioCache[i] ELSE FALSE]
    BY <1>5, <2>1 DEF Resized
  <2>3. \A i \in 1..Len(radioCache) : radioCache[i] \in BOOLEAN
    BY <1>4
  <2>4. radioCache' \in [1..index -> BOOLEAN]
    BY <2>2, <2>3
  <2>5. radioCache' \in Seq(BOOLEAN) /\ Len(radioCache') = index
    BY <1>8, <2>4
  <2>6. ASSUME NEW i \in 1..Len(radioCache)
        PROVE  radioCache'[i] = radioCache[i]
    <3>1. i \in 1..index
      BY <1>7, <1>8
    <3> QED
      BY <2>2, <3>1
  <2>7. ASSUME NEW i \in 1..index, i > Len(radioCache)
        PROVE  radioCache'[i] = FALSE
    <3>1. i \notin 1..Len(radioCache)
      BY <1>7, <2>7
    <3> QED
      BY <2>2, <3>1
  <2> QED
    BY <2>5, <2>6, <2>7
<1>10. ASSUME NEW s \in Registered'
       PROVE  CacheIndex(s)' \in 1..index /\ radioCache'[CacheIndex(s)'] = FALSE
  <2>1. CASE s = r
    <3>1. CacheIndex(s)' = index
      BY <1>3, <2>1 DEF CacheIndex, index
    <3>2. index > Len(radioCache)
      BY <1>7, <1>8
    <3> QED
      BY <1>8, <1>9, <3>1, <3>2
  <2>2. CASE s # r
    <3>1. s \in Registered /\ s \in Radios
      BY <1>1, <2>2 DEF Registered
    <3>2. CacheIndex(s) \in 1..Len(radioCache) /\ radioCache[CacheIndex(s)] = FALSE
      BY <3>1 DEF CacheInv
    <3>3. CacheIndex(s)' = CacheIndex(s)
      BY <1>3, <1>7, <1>8, <2>2, <3>1, <3>2 DEF CacheIndex
    <3>4. CacheIndex(s) \in 1..index
      BY <1>7, <1>8, <3>2
    <3> QED
      BY <1>9, <3>2, <3>3, <3>4
  <2> QED
    BY <2>1, <2>2
<1>11. ASSUME NEW t \in 1..Len(receptionCache)
       PROVE  /\ receptionCache'[t] \in Seq(Radios \union {NoArrival}) /\ Len(receptionCache'[t]) = index
              /\ \A i \in 1..index :
                    receptionCache'[t][i] # NoArrival => id'[receptionCache'[t][i]] = baseRadioId' + i - 1
              /\ receptionCache'[t][index] = r
              /\ \A i \in 1..Len(radioCache) : receptionCache'[t][i] = receptionCache[t][i]
              /\ \A i \in 1..index : i \notin 1..Len(radioCache) => receptionCache'[t][i] \in {r, NoArrival}
  <2> DEFINE row == receptionCache[t]
             resized == Resized(row, index, NoArrival)
  <2>1. row \in Seq(Radios \union {NoArrival}) /\ Len(row) = Len(radioCache)
    BY <1>4
  <2>2. receptionCache'[t] = [resized EXCEPT ![index] = r]
    <3>1. t \in DOMAIN receptionCache
      BY <1>4
    <3> QED
      BY <1>5, <3>1
  <2>3. \A i \in 1..Len(row) : row[i] # NoArrival => row[i] \in Radios /\ id[row[i]] = baseRadioId + i - 1
    <3>1. \A i \in 1..Len(row) : row[i] \in Radios \union {NoArrival}
      BY <2>1
    <3>2. \A i \in 1..Len(radioCache) : row[i] # NoArrival => id[row[i]] = baseRadioId + i - 1
      BY DEF CacheInv
    <3> QED
      BY <2>1, <3>1, <3>2
  <2> HIDE DEF row
  <2>4. /\ resized \in Seq(Radios \union {NoArrival}) /\ Len(resized) = index
        /\ \A i \in 1..Len(row) : resized[i] = row[i]
        /\ \A i \in 1..index : i > Len(row) => resized[i] = NoArrival
    <3>1. NoArrival \in Radios \union {NoArrival} /\ Len(row) < index /\ index \in Nat
      BY <1>8, <2>1
    <3>2. \A q : q = resized =>
            /\ q \in Seq(Radios \union {NoArrival}) /\ Len(q) = index
            /\ \A i \in 1..Len(row) : q[i] = row[i]
            /\ \A i \in 1..index : i > Len(row) => q[i] = NoArrival
      BY <2>1, <3>1, ResizedFacts
    <3> HIDE DEF resized
    <3> QED
      BY <3>2
  <2> HIDE DEF resized
  <2>5. /\ receptionCache'[t] \in Seq(Radios \union {NoArrival}) /\ Len(receptionCache'[t]) = index
        /\ \A i \in 1..index : receptionCache'[t][i] = IF i = index THEN r ELSE resized[i]
    BY <1>8, <2>2, <2>4, ExceptSeq
  <2>6. ASSUME NEW i \in 1..index, receptionCache'[t][i] # NoArrival
        PROVE  id'[receptionCache'[t][i]] = baseRadioId' + i - 1
    <3>1. CASE i = index
      BY <1>3, <1>13, <2>5, <3>1
    <3>2. CASE i # index
      <4>1. i \in 1..Len(row) /\ receptionCache'[t][i] = row[i]
        <5>1. i \in 1..Len(row) \/ i > Len(row)
          BY <1>7, <2>1
        <5> QED
          BY <2>4, <2>5, <2>6, <3>2, <5>1
      <4>2. row[i] \in Radios /\ id[row[i]] = baseRadioId + i - 1
        BY <2>3, <2>6, <4>1
      <4>3. row[i] # r
        BY <1>2, <1>4, <4>1, <4>2, SMTT(40) DEF NoId
      <4>4. baseRadioId' = baseRadioId
        BY <1>8, <2>1, <4>1
      <4> QED
        BY <1>3, <4>1, <4>2, <4>3, <4>4
    <3> QED
      BY <3>1, <3>2
  <2>7. ASSUME NEW i \in 1..Len(radioCache)
        PROVE  receptionCache'[t][i] = row[i]
    <3>1. i \in 1..index /\ i # index /\ i \in 1..Len(row)
      BY <1>7, <1>8, <2>1
    <3> QED
      BY <2>4, <2>5, <3>1
  <2>8. ASSUME NEW i \in 1..index, i \notin 1..Len(radioCache)
        PROVE  receptionCache'[t][i] \in {r, NoArrival}
    <3>1. i > Len(row)
      BY <1>7, <2>1, <2>8
    <3> QED
      BY <2>4, <2>5, <3>1
  <2> QED
    BY <1>8, <2>5, <2>6, <2>7, <2>8 DEF row
<1>12. receptionCache' \in Seq(Seq(Radios \union {NoArrival})) /\ Len(receptionCache') = Len(receptionCache)
  <2>1. DOMAIN receptionCache = 1..Len(receptionCache) /\ Len(receptionCache) \in Nat
    BY <1>4
  <2>2. receptionCache' \in [1..Len(receptionCache) -> Seq(Radios \union {NoArrival})]
    BY <1>5, <1>11, <2>1
  <2> QED
    BY <2>1, <2>2, FunctionIsSequence, Zenon
<1>15. ASSUME NEW s \in Registered
       PROVE  CacheIndex(s)' = CacheIndex(s)
  <2>1. CacheIndex(s) \in 1..Len(radioCache) /\ s \in Radios /\ s # r
    BY <1>1 DEF CacheInv, Registered
  <2>2. Len(radioCache) # 0
    BY <1>7, <2>1
  <2> QED
    BY <1>3, <1>8, <2>1, <2>2 DEF CacheIndex
<1>16. CacheInv'
  BY <1>8, <1>9, <1>10, <1>11, <1>12 DEF CacheInv
<1>17. RowsExtended(r)
  BY <1>9, <1>11, <1>12, <1>14, <1>15 DEF RowsExtended
<1> QED
  BY <1>16, <1>17

LEMMA RemovesRegistered ==
    ASSUME IdInv, now \in Nat, NEW r \in Radios, RemoveRadio(r)
    PROVE  /\ Registered' = Registered \ {r} /\ r \in Registered
           /\ left' = [left EXCEPT ![r] = now] /\ UNCHANGED <<id, nextId>>
<1>1. r \in Registered /\ left' = [left EXCEPT ![r] = now] /\ UNCHANGED <<id, nextId>>
  BY DEF RemoveRadio
<1>2. Registered' = Registered \ {r}
  BY <1>1 DEF Registered, IdInv, Off
<1> QED
  BY <1>1, <1>2

\* What removeRadio does to the rows: the first k entries go.
RowsCut(k) ==
    /\ baseRadioId' = baseRadioId + k /\ Len(receptionCache') = Len(receptionCache)
    /\ \A t \in 1..Len(receptionCache), i \in 1..Len(radioCache') :
        k + i \in 1..Len(radioCache) /\ receptionCache'[t][i] = receptionCache[t][k + i]

LEMMA CacheRemoves ==
    ASSUME IdInv, CacheInv, now \in Nat, NEW r \in Radios, RemoveRadio(r)
    PROVE  CacheInv' /\ \E k \in Nat : RowsCut(k)
<1> DEFINE stale == [radioCache EXCEPT ![CacheIndex(r)] = TRUE]
           kept == WithoutLeading(stale, TRUE)
<1>1. Registered' = Registered \ {r} /\ r \in Registered /\ UNCHANGED <<id, nextId>>
  BY RemovesRegistered
<1>2. /\ baseRadioId \in Nat /\ radioCache \in Seq(BOOLEAN) /\ baseRadioId + Len(radioCache) = nextId
      /\ receptionCache \in Seq(Seq(Radios \union {NoArrival}))
      /\ Len(radioCache) \in Nat /\ CacheIndex(r) \in 1..Len(radioCache)
  BY <1>1 DEF CacheInv
<1>3. stale \in Seq(BOOLEAN) /\ Len(stale) = Len(radioCache)
      /\ stale = [i \in 1..Len(radioCache) |-> IF i = CacheIndex(r) THEN TRUE ELSE radioCache[i]]
  <2>1. DOMAIN radioCache = 1..Len(radioCache)
    BY <1>2
  <2>2. stale = [i \in 1..Len(radioCache) |-> IF i = CacheIndex(r) THEN TRUE ELSE radioCache[i]]
    BY <1>2, <2>1
  <2>3. \A i \in 1..Len(radioCache) : radioCache[i] \in BOOLEAN
    BY <1>2
  <2>4. stale \in [1..Len(radioCache) -> BOOLEAN]
    BY <2>2, <2>3
  <2> HIDE DEF stale
  <2>5. stale \in Seq(BOOLEAN) /\ Len(stale) = Len(radioCache)
    BY <1>2, <2>4, FunctionIsSequence, Zenon
  <2> QED
    BY <2>2, <2>5
<1>4. /\ radioCache' = kept
      /\ baseRadioId' = baseRadioId + (Len(stale) - Len(kept))
      /\ receptionCache' = [t \in DOMAIN receptionCache |->
            SubSeq(receptionCache[t], Len(stale) - Len(kept) + 1, Len(receptionCache[t]))]
  BY DEF RemoveRadio, CacheRemoveRadio, NewBase
<1> HIDE DEF stale
<1>5. kept \in Seq(BOOLEAN) /\ \E k : CutAfter(stale, TRUE, kept, k)
  BY <1>3, WithoutLeadingFacts, Zenon
<1> HIDE DEF kept
<1>12. PICK k : CutAfter(stale, TRUE, kept, k)
  BY <1>5
<1>13. /\ k \in 0..Len(stale)
       /\ \A i \in 1..k : stale[i] = TRUE
       /\ Len(kept) = Len(stale) - k
       /\ \A i \in 1..(Len(stale) - k) : kept[i] = stale[k + i]
  BY <1>12, Zenon DEF CutAfter
<1>6. k \in 0..Len(radioCache) /\ k \in Nat /\ Len(stale) - Len(kept) = k
  <2>1. Len(radioCache) \in Nat /\ Len(stale) = Len(radioCache) /\ k \in 0..Len(stale)
        /\ Len(kept) = Len(stale) - k
    BY <1>2, <1>3, <1>13, Zenon
  <2> QED
    BY <2>1
<1>7. radioCache' \in Seq(BOOLEAN) /\ Len(radioCache') = Len(radioCache) - k /\ baseRadioId' = baseRadioId + k
  BY <1>2, <1>3, <1>4, <1>5, <1>6, <1>13, Zenon
<1>8. ASSUME NEW s \in Registered'
      PROVE  CacheIndex(s)' \in 1..Len(radioCache') /\ radioCache'[CacheIndex(s)'] = FALSE
  <2>1. s \in Registered /\ s # r /\ s \in Radios
    BY <1>1 DEF Registered
  <2>2. CacheIndex(s) \in 1..Len(radioCache) /\ radioCache[CacheIndex(s)] = FALSE
    BY <2>1 DEF CacheInv
  <2>3. CacheIndex(s) # CacheIndex(r)
    <3>1. id[s] # id[r] /\ id[s] \in Int /\ id[r] \in Int
      BY <1>1, <2>1 DEF IdInv, Registered, NoId
    <3>2. \A a, b \in Int, c \in Nat : a # b => a - c + 1 # b - c + 1
      OBVIOUS
    <3> QED
      BY <1>2, <3>1, <3>2 DEF CacheIndex
  <2>4. stale[CacheIndex(s)] = FALSE
    BY <1>3, <2>2, <2>3
  <2>5. CacheIndex(s) \notin 1..k
    BY <1>13, <2>4
  <2>6. CacheIndex(s) - k \in 1..(Len(radioCache) - k) /\ k + (CacheIndex(s) - k) = CacheIndex(s)
    BY <1>6, <2>2, <2>5
  <2>7. CacheIndex(s)' = CacheIndex(s) - k
    <3>1. id[s] \in Int
      BY <2>1 DEF IdInv, NoId
    <3> QED
      BY <1>1, <1>2, <1>6, <1>7, <3>1, SMTT(40) DEF CacheIndex
  <2>8. radioCache'[CacheIndex(s) - k] = stale[CacheIndex(s)]
    <3>1. \A i \in 1..(Len(radioCache) - k) : radioCache'[i] = stale[k + i]
      BY <1>3, <1>4, <1>13, Zenon
    <3>2. radioCache'[CacheIndex(s) - k] = stale[k + (CacheIndex(s) - k)]
      BY <2>6, <3>1, Zenon
    <3> QED
      BY <2>6, <3>2
  <2> QED
    BY <1>7, <2>4, <2>6, <2>7, <2>8
<1>9. ASSUME NEW t \in 1..Len(receptionCache)
      PROVE  /\ receptionCache'[t] \in Seq(Radios \union {NoArrival})
             /\ Len(receptionCache'[t]) = Len(radioCache')
             /\ \A i \in 1..Len(radioCache') :
                    receptionCache'[t][i] # NoArrival => id[receptionCache'[t][i]] = baseRadioId' + i - 1
             /\ \A i \in 1..Len(radioCache') :
                    k + i \in 1..Len(radioCache) /\ receptionCache'[t][i] = receptionCache[t][k + i]
  <2> DEFINE row == receptionCache[t]
  <2>1. row \in Seq(Radios \union {NoArrival}) /\ Len(row) = Len(radioCache)
    BY <1>2 DEF CacheInv
  <2>2. \A i \in 1..Len(radioCache) : row[i] # NoArrival => id[row[i]] = baseRadioId + i - 1
    BY DEF CacheInv
  <2>3. receptionCache'[t] = SubSeq(row, k + 1, Len(row))
    <3>1. t \in DOMAIN receptionCache
      BY <1>2
    <3> QED
      BY <1>4, <1>6, <3>1
  <2> HIDE DEF row
  <2>4. /\ SubSeq(row, k + 1, Len(row)) \in Seq(Radios \union {NoArrival})
        /\ Len(SubSeq(row, k + 1, Len(row))) = Len(row) - k
        /\ \A i \in 1..(Len(row) - k) : SubSeq(row, k + 1, Len(row))[i] = row[k + i]
    <3>1. Len(row) \in Int /\ k + 1 \in Int /\ \A i \in (k + 1)..Len(row) : row[i] \in Radios \union {NoArrival}
      BY <1>2, <1>6, <2>1
    <3>2. /\ SubSeq(row, k + 1, Len(row)) \in Seq(Radios \union {NoArrival})
          /\ Len(SubSeq(row, k + 1, Len(row))) = IF k + 1 <= Len(row) THEN Len(row) - (k + 1) + 1 ELSE 0
          /\ \A i \in 1..(Len(row) - (k + 1) + 1) : SubSeq(row, k + 1, Len(row))[i] = row[(k + 1) + i - 1]
      BY <3>1, SubSeqProperties, SMTT(40)
    <3> QED
      BY <1>2, <1>6, <2>1, <3>2, SMTT(40)
  <2>5. ASSUME NEW i \in 1..Len(radioCache'), receptionCache'[t][i] # NoArrival
        PROVE  id[receptionCache'[t][i]] = baseRadioId' + i - 1
    <3>1. k + i \in 1..Len(radioCache) /\ receptionCache'[t][i] = row[k + i]
      BY <1>2, <1>6, <1>7, <2>1, <2>3, <2>4
    <3>2. id[row[k + i]] = baseRadioId + (k + i) - 1
      BY <2>2, <2>5, <3>1
    <3> QED
      BY <1>2, <1>6, <1>7, <3>1, <3>2, SMTT(40)
  <2>6. ASSUME NEW i \in 1..Len(radioCache')
        PROVE  k + i \in 1..Len(radioCache) /\ receptionCache'[t][i] = row[k + i]
    BY <1>2, <1>6, <1>7, <2>1, <2>3, <2>4
  <2> QED
    BY <1>7, <2>1, <2>3, <2>4, <2>5, <2>6 DEF row
<1>10. receptionCache' \in Seq(Seq(Radios \union {NoArrival})) /\ Len(receptionCache') = Len(receptionCache)
  <2>1. DOMAIN receptionCache = 1..Len(receptionCache) /\ Len(receptionCache) \in Nat
    BY <1>2
  <2>2. receptionCache' \in [1..Len(receptionCache) -> Seq(Radios \union {NoArrival})]
    BY <1>4, <1>9, <2>1
  <2> QED
    BY <2>1, <2>2, FunctionIsSequence, Zenon
<1>11. baseRadioId' \in Nat /\ baseRadioId' + Len(radioCache') = nextId'
  BY <1>1, <1>2, <1>6, <1>7
<1>14. CacheInv'
  BY <1>1, <1>7, <1>8, <1>9, <1>10, <1>11 DEF CacheInv
<1>15. RowsCut(k)
  BY <1>7, <1>9, <1>10 DEF RowsCut
<1> QED
  BY <1>6, <1>14, <1>15

\* The row of a new transmission.
LEMMA ArrivalsOfFacts ==
    ASSUME IdInv, CacheInv, Receivers \subseteq Registered, NEW r \in Radios
    PROVE  /\ ArrivalsOf(r) \in Seq(Radios \union {NoArrival}) /\ Len(ArrivalsOf(r)) = Len(radioCache)
           /\ \A i \in 1..Len(radioCache) :
                /\ ArrivalsOf(r)[i] # NoArrival => id[ArrivalsOf(r)[i]] = baseRadioId + i - 1
                /\ ArrivalsOf(r)[i] # r
                /\ \A s \in Receivers \ {r} : CacheIndex(s) = i => ArrivalsOf(r)[i] = s
<1> DEFINE row == ArrivalsOf(r)
<1>1. DOMAIN radioCache = 1..Len(radioCache) /\ Len(radioCache) \in Nat /\ baseRadioId \in Nat
  BY DEF CacheInv
<1>2. \A s \in Receivers \ {r} : s \in Radios /\ s # NoArrival /\ id[s] \in Int /\ id[s] # NoId
  BY DEF Registered, IdInv, NoId
<1>3. ASSUME NEW i \in 1..Len(radioCache)
      PROVE  /\ row[i] \in Radios \union {NoArrival} /\ row[i] # r
             /\ row[i] # NoArrival => id[row[i]] = baseRadioId + i - 1
             /\ \A s \in Receivers \ {r} : CacheIndex(s) = i => row[i] = s
  <2>1. CASE \E s \in Receivers \ {r} : CacheIndex(s) = i
    <3>1. row[i] \in Receivers \ {r} /\ CacheIndex(row[i]) = i
      BY <1>1, <2>1 DEF ArrivalsOf
    <3> HIDE DEF row
    <3>2. \A a \in Int, c \in Nat : a - c + 1 = i => a = c + i - 1
      OBVIOUS
    <3>3. \A s \in Receivers \ {r} : CacheIndex(s) = i => id[s] = baseRadioId + i - 1
      BY <1>1, <1>2, <3>2 DEF CacheIndex
    <3> QED
      BY <1>2, <3>1, <3>3 DEF IdInv
  <2>2. CASE ~ \E s \in Receivers \ {r} : CacheIndex(s) = i
    <3>1. row[i] = NoArrival
      BY <1>1, <2>2 DEF ArrivalsOf
    <3> QED
      BY <2>2, <3>1
  <2> QED
    BY <2>1, <2>2
<1>4. row \in [1..Len(radioCache) -> Radios \union {NoArrival}]
  <2>1. row = [i \in 1..Len(radioCache) |-> row[i]]
    BY <1>1 DEF ArrivalsOf
  <2> HIDE DEF row
  <2> QED
    BY <1>3, <2>1
<1> HIDE DEF row
<1>5. row \in Seq(Radios \union {NoArrival}) /\ Len(row) = Len(radioCache)
  BY <1>1, <1>4, FunctionIsSequence, Zenon
<1> QED
  BY <1>3, <1>5 DEF row

LEMMA CacheTransmits ==
    ASSUME IdInv, CacheInv, NEW r \in Radios, Transmit(r)
    PROVE  CacheInv'
<1>1. UNCHANGED <<nextId, id, left, baseRadioId, radioCache>> /\ Registered' = Registered
  BY DEF Transmit, Registered
<1>2. \A s \in Radios : CacheIndex(s)' = CacheIndex(s)
  BY <1>1 DEF CacheIndex
<1>3. CASE Receivers \subseteq Registered
  <2> DEFINE row == ArrivalsOf(r)
  <2>1. receptionCache' = Append(receptionCache, row)
    BY <1>3 DEF Transmit
  <2>2. /\ row \in Seq(Radios \union {NoArrival}) /\ Len(row) = Len(radioCache)
        /\ \A i \in 1..Len(radioCache) : row[i] # NoArrival => id[row[i]] = baseRadioId + i - 1
    BY <1>3, ArrivalsOfFacts
  <2> HIDE DEF row
  <2>6. receptionCache \in Seq(Seq(Radios \union {NoArrival}))
    BY DEF CacheInv
  <2>7. /\ receptionCache' \in Seq(Seq(Radios \union {NoArrival}))
        /\ Len(receptionCache') = Len(receptionCache) + 1
        /\ \A t \in 1..Len(receptionCache) : receptionCache'[t] = receptionCache[t]
        /\ receptionCache'[Len(receptionCache) + 1] = row
    BY <2>1, <2>2, <2>6, AppendProperties
  <2>8. ASSUME NEW t \in 1..Len(receptionCache')
        PROVE  /\ Len(receptionCache'[t]) = Len(radioCache)
               /\ \A i \in 1..Len(radioCache) :
                    receptionCache'[t][i] # NoArrival => id[receptionCache'[t][i]] = baseRadioId + i - 1
    <3>1. CASE t \in 1..Len(receptionCache)
      <4>1. receptionCache'[t] = receptionCache[t]
        BY <2>7, <3>1
      <4> QED
        BY <3>1, <4>1 DEF CacheInv
    <3>2. CASE t = Len(receptionCache) + 1
      BY <2>2, <2>7, <3>2
    <3>3. Len(receptionCache) \in Nat
      BY <2>6
    <3> QED
      BY <2>7, <3>1, <3>2, <3>3
  <2> QED
    BY <1>1, <1>2, <2>7, <2>8 DEF CacheInv, Registered
<1>4. CASE ~(Receivers \subseteq Registered)
  <2>1. receptionCache' = receptionCache
    BY <1>4 DEF Transmit
  <2> QED
    BY <1>1, <1>2, <2>1 DEF CacheInv, Registered
<1> QED
  BY <1>3, <1>4

LEMMA CacheForgets ==
    ASSUME CacheInv, ForgetTransmission
    PROVE  CacheInv'
<1>1. UNCHANGED <<nextId, id, left, baseRadioId, radioCache>> /\ Registered' = Registered
  BY DEF ForgetTransmission, Registered
<1>2. \A s \in Radios : CacheIndex(s)' = CacheIndex(s)
  BY <1>1 DEF CacheIndex
<1>3. receptionCache \in Seq(Seq(Radios \union {NoArrival})) /\ receptionCache # <<>>
      /\ receptionCache' = Tail(receptionCache)
  BY DEF CacheInv, ForgetTransmission
<1>4. /\ receptionCache' \in Seq(Seq(Radios \union {NoArrival}))
      /\ Len(receptionCache') = Len(receptionCache) - 1
      /\ \A t \in 1..Len(receptionCache') : receptionCache'[t] = receptionCache[t + 1]
  BY <1>3, HeadTailProperties
<1>5. \A t \in 1..Len(receptionCache') : t + 1 \in 1..Len(receptionCache)
  BY <1>3, <1>4
<1>6. \A t \in 1..Len(receptionCache') :
        /\ Len(receptionCache'[t]) = Len(radioCache)
        /\ \A i \in 1..Len(radioCache) :
            receptionCache'[t][i] # NoArrival => id[receptionCache'[t][i]] = baseRadioId + i - 1
  <2> TAKE t \in 1..Len(receptionCache')
  <2>1. t + 1 \in 1..Len(receptionCache) /\ receptionCache'[t] = receptionCache[t + 1]
    BY <1>4, <1>5
  <2>2. /\ Len(receptionCache[t + 1]) = Len(radioCache)
        /\ \A i \in 1..Len(radioCache) :
            receptionCache[t + 1][i] # NoArrival => id[receptionCache[t + 1][i]] = baseRadioId + i - 1
    BY <2>1 DEF CacheInv
  <2> QED
    BY <2>1, <2>2
<1> QED
  BY <1>1, <1>2, <1>4, <1>6 DEF CacheInv, Registered

LEMMA CacheElsewhere == ASSUME CacheInv, UNCHANGED <<nextId, id, left, cacheVars>> PROVE CacheInv'
<1>1. Registered' = Registered /\ \A s \in Radios : CacheIndex(s)' = CacheIndex(s)
  BY DEF Registered, CacheIndex, cacheVars
<1> QED
  BY <1>1 DEF CacheInv, Registered, cacheVars

-----------------------------------------------------------------------------
(***************************************************************************)
(* The list of the medium, while radios leave in the order of their ids.   *)
(***************************************************************************)

LEMMA ListAdds ==
    ASSUME IdInv, ListInv, NEW r \in Radios, AddRadio(r)
    PROVE  ListInv'
<1>1. /\ Registered' = Registered \union {r} /\ r \notin Registered
      /\ id' = [id EXCEPT ![r] = IdFrom(nextId, r)]
      /\ IdFrom(nextId, r) \in Nat /\ nextId <= IdFrom(nextId, r)
  BY AddsRegistered
<1> DEFINE new == IdFrom(nextId, r)
<1>2. nextId \in Nat /\ id \in [Radios -> Nat \union {NoId}] /\ \A s \in Radios : id[s] < nextId
  BY DEF IdInv
<1>3. id'[r] = new /\ \A s \in Radios : s # r => id'[s] = id[s]
  BY <1>1, <1>2
<1> HIDE DEF new
<1>4. new \in Nat /\ nextId <= new
  BY <1>1 DEF new
<1>5. /\ radios \in Seq(Radios) /\ Registered = {radios[i] : i \in 1..Len(radios)}
      /\ \A i, j \in 1..Len(radios) : i < j => id[radios[i]] < id[radios[j]]
  BY DEF ListInv
<1>6. radios' = Append(radios, r) /\ ~corrupted'
  BY DEF AddRadio
<1>7. /\ radios' \in Seq(Radios) /\ Len(radios') = Len(radios) + 1 /\ Len(radios) \in Nat
      /\ \A i \in 1..Len(radios) : radios'[i] = radios[i]
      /\ radios'[Len(radios) + 1] = r
  BY <1>5, <1>6, AppendProperties
<1>8. \A i \in 1..Len(radios') : i \in 1..Len(radios) \/ i = Len(radios) + 1
  BY <1>7
<1>9. Registered' = {radios'[i] : i \in 1..Len(radios')}
  <2>1. ASSUME NEW s \in Registered'
        PROVE  \E i \in 1..Len(radios') : s = radios'[i]
    <3>1. CASE s = r
      BY <1>7, <3>1
    <3>2. CASE s \in Registered
      <4>1. PICK i \in 1..Len(radios) : s = radios[i]
        BY <1>5, <3>2
      <4> QED
        BY <1>7, <4>1
    <3> QED
      BY <1>1, <3>1, <3>2
  <2>2. ASSUME NEW i \in 1..Len(radios')
        PROVE  radios'[i] \in Registered'
    <3>1. CASE i \in 1..Len(radios)
      BY <1>1, <1>5, <1>7, <3>1
    <3>2. CASE i = Len(radios) + 1
      BY <1>1, <1>7, <3>2
    <3> QED
      BY <1>8, <3>1, <3>2
  <2> QED
    BY <2>1, <2>2
<1>10. ASSUME NEW i \in 1..Len(radios')
       PROVE  /\ i \in 1..Len(radios) => radios'[i] = radios[i] /\ id'[radios'[i]] = id[radios[i]]
                                         /\ id'[radios'[i]] < new
              /\ i \notin 1..Len(radios) => id'[radios'[i]] = new /\ i = Len(radios) + 1
  <2>1. CASE i \in 1..Len(radios)
    <3>1. radios'[i] = radios[i] /\ radios[i] \in Registered /\ radios[i] \in Radios
      BY <1>5, <1>7, <2>1, SMTT(40)
    <3>2. id[radios[i]] < nextId /\ id[radios[i]] \in Int
      BY <1>2, <3>1 DEF NoId
    <3> QED
      BY <1>1, <1>2, <1>3, <1>4, <2>1, <3>1, <3>2
  <2>2. CASE i \notin 1..Len(radios)
    BY <1>3, <1>7, <1>8, <2>2
  <2> QED
    BY <2>1, <2>2
<1>11. ASSUME NEW i \in 1..Len(radios'), NEW j \in 1..Len(radios'), i < j
       PROVE  id'[radios'[i]] < id'[radios'[j]]
  <2>1. i \in 1..Len(radios)
    BY <1>7, <1>11
  <2>2. CASE j \in 1..Len(radios)
    BY <1>5, <1>10, <1>11, <2>1, <2>2
  <2>3. CASE j \notin 1..Len(radios)
    BY <1>10, <2>1, <2>3
  <2> QED
    BY <2>2, <2>3
<1> QED
  BY <1>6, <1>7, <1>9, <1>11 DEF ListInv

LEMMA ListRemoves ==
    ASSUME OnlyFirstLeaves = TRUE, IdInv, ListInv, now \in Nat, NEW r \in Radios, RemoveRadio(r)
    PROVE  ListInv'
<1>1. Registered' = Registered \ {r} /\ r \in Registered /\ UNCHANGED id
  BY RemovesRegistered
<1>2. /\ radios \in Seq(Radios) /\ Registered = {radios[i] : i \in 1..Len(radios)}
      /\ \A i, j \in 1..Len(radios) : i < j => id[radios[i]] < id[radios[j]]
      /\ Len(radios) \in Nat
  BY DEF ListInv
<1>3. id \in [Radios -> Nat \union {NoId}] /\ \A i \in 1..Len(radios) : radios[i] \in Radios /\ id[radios[i]] \in Int
  BY <1>2 DEF IdInv, NoId
<1>4. 1 \in 1..Len(radios) /\ r = radios[1]
  <2>1. PICK i \in 1..Len(radios) : r = radios[i]
    BY <1>1, <1>2
  <2>2. 1 \in 1..Len(radios)
    BY <1>2
  <2>3. id[r] <= id[radios[1]]
    BY <1>2, <2>2 DEF RemoveRadio, IsFirst
  <2>4. ~(1 < i)
    BY <1>2, <1>3, <2>1, <2>2, <2>3
  <2> QED
    BY <2>1, <2>2, <2>4
<1>5. RadioIndex(r) = 1 /\ radios # <<>> /\ First(radios) \in Registered /\ RadioIndex(r) \in DOMAIN radios
  BY <1>1, <1>2, <1>3, <1>4 DEF RadioIndex, First
<1> DEFINE without == [radios EXCEPT ![1] = Null]
<1>6. radios' = WithoutLeading(without, Null) /\ corrupted' = (radios' = <<>>)
  BY <1>5 DEF RemoveRadio
<1>7. /\ without \in Seq(Radios \union {Null}) /\ Len(without) = Len(radios)
      /\ without[1] = Null /\ \A i \in 2..Len(radios) : without[i] = radios[i]
  <2>1. radios \in Seq(Radios \union {Null})
    BY <1>2, SeqMonotonic
  <2>2. Null \in Radios \union {Null}
    OBVIOUS
  <2>3. /\ without \in Seq(Radios \union {Null}) /\ Len(without) = Len(radios)
        /\ \A i \in 1..Len(radios) : without[i] = IF i = 1 THEN Null ELSE radios[i]
    BY <1>4, <2>1, <2>2, ExceptSeq
  <2> HIDE DEF without
  <2> QED
    BY <1>4, <2>3
<1> HIDE DEF without
<1>8. radios' \in Seq(Radios \union {Null}) /\ \E k : CutAfter(without, Null, radios', k)
  BY <1>6, <1>7, WithoutLeadingFacts
<1>9. PICK k : CutAfter(without, Null, radios', k)
  BY <1>8
<1>10. k = 1
  <2>1. k \in 0..Len(radios) /\ (\A i \in 1..k : without[i] = Null) /\ (k < Len(radios) => without[k + 1] # Null)
    BY <1>7, <1>9 DEF CutAfter
  <2>2. k # 0
    BY <1>2, <1>4, <1>7, <2>1
  <2>3. ~(2 <= k)
    <3> SUFFICES ASSUME 2 <= k
                 PROVE  FALSE
      OBVIOUS
    <3>1. 2 \in 2..Len(radios) /\ 2 \in 1..k /\ 2 \in 1..Len(radios)
      BY <1>2, <2>1
    <3> QED
      BY <1>3, <1>7, <2>1, <3>1
  <2> QED
    BY <1>2, <2>1, <2>2, <2>3
<1>11. Len(radios') = Len(radios) - 1 /\ \A i \in 1..Len(radios') : radios'[i] = radios[i + 1] /\ i + 1 \in 2..Len(radios)
  <2>1. Len(radios') = Len(radios) - 1 /\ \A i \in 1..(Len(radios) - 1) : radios'[i] = without[1 + i]
    BY <1>7, <1>9, <1>10 DEF CutAfter
  <2>2. \A i \in 1..(Len(radios) - 1) : i + 1 \in 2..Len(radios) /\ 1 + i = i + 1
    BY <1>2
  <2> QED
    BY <1>7, <2>1, <2>2
<1>12. radios' \in Seq(Radios)
  <2>1. Len(radios') \in Nat /\ radios' \in [1..Len(radios') -> Radios \union {Null}]
    BY <1>8
  <2>2. ASSUME NEW i \in 1..Len(radios')
        PROVE  radios'[i] \in Radios
    <3>1. radios'[i] = radios[i + 1] /\ i + 1 \in 1..Len(radios)
      BY <1>2, <1>11
    <3> QED
      BY <1>3, <3>1
  <2>3. radios' \in [1..Len(radios') -> Radios]
    BY <2>1, <2>2
  <2> QED
    BY <2>1, <2>3, FunctionIsSequence, Zenon
<1>13. Registered' = {radios'[i] : i \in 1..Len(radios')}
  <2>1. ASSUME NEW s \in Registered'
        PROVE  \E i \in 1..Len(radios') : s = radios'[i]
    <3>1. PICK j \in 1..Len(radios) : s = radios[j]
      BY <1>1, <1>2
    <3>2. j # 1
      BY <1>1, <1>4, <3>1
    <3>3. j - 1 \in 1..Len(radios') /\ (j - 1) + 1 = j
      BY <1>2, <1>11, <3>2
    <3>4. radios'[j - 1] = radios[(j - 1) + 1]
      BY <1>11, <3>3
    <3> QED
      BY <3>1, <3>3, <3>4
  <2>2. ASSUME NEW i \in 1..Len(radios')
        PROVE  radios'[i] \in Registered'
    <3>1. radios'[i] = radios[i + 1] /\ i + 1 \in 2..Len(radios) /\ i + 1 \in 1..Len(radios) /\ 1 < i + 1
      BY <1>2, <1>11
    <3>2. id[radios[1]] < id[radios[i + 1]]
      BY <1>2, <1>4, <3>1
    <3>3. radios[i + 1] # r
      BY <1>3, <1>4, <3>1, <3>2
    <3> QED
      BY <1>1, <1>2, <3>1, <3>3
  <2> QED
    BY <2>1, <2>2, SMTT(40)
<1>14. ASSUME NEW i \in 1..Len(radios'), NEW j \in 1..Len(radios'), i < j
       PROVE  id[radios'[i]] < id[radios'[j]]
  <2>1. i + 1 \in 1..Len(radios) /\ j + 1 \in 1..Len(radios) /\ i + 1 < j + 1
    BY <1>2, <1>11, <1>14
  <2> QED
    BY <1>2, <1>11, <2>1
<1>15. Registered' # {} => ~corrupted'
  <2>1. Registered' # {} => radios' # <<>>
    BY <1>12, <1>13
  <2> QED
    BY <1>6, <2>1
<1> QED
  BY <1>1, <1>12, <1>13, <1>14, <1>15 DEF ListInv

\* No null pointer is in the list, and the radios in it are the receivers.
LEMMA ReceiversAreListed == ASSUME ListInv PROVE Receivers = Registered
<1>1. radios \in Seq(Radios) /\ Registered = {radios[i] : i \in 1..Len(radios)} /\ DOMAIN radios = 1..Len(radios)
  BY DEF ListInv
<1>2. Null \notin Registered
  BY DEF Registered
<1> QED
  BY <1>1, <1>2 DEF Receivers

LEMMA ListTransmits == ASSUME ListInv, NEW r \in Radios, Transmit(r) PROVE ListInv'
<1>1. Receivers \subseteq Registered
  BY ReceiversAreListed
<1>2. UNCHANGED <<id, left, radios, corrupted>>
  BY <1>1 DEF Transmit
<1> QED
  BY <1>2 DEF ListInv, Registered

LEMMA ListElsewhere == ASSUME ListInv, UNCHANGED <<id, left, radios, corrupted>> PROVE ListInv'
BY DEF ListInv, Registered

-----------------------------------------------------------------------------
(***************************************************************************)
(* The arrivals, while radios leave in the order of their ids.             *)
(***************************************************************************)

LEMMA ArrivalInitial == ASSUME Init PROVE ArrivalInv
<1>1. transmissions = <<>> /\ receptionCache = <<>>
  BY DEF Init
<1> QED
  BY <1>1 DEF ArrivalInv

LEMMA ArrivalAdds ==
    ASSUME IdInv, CacheInv, ArrivalInv, NEW r \in Radios, AddRadio(r)
    PROVE  ArrivalInv'
<1>1. /\ Registered' = Registered \union {r} /\ r \notin Registered
      /\ id' = [id EXCEPT ![r] = IdFrom(nextId, r)] /\ IdFrom(nextId, r) \in Nat
  BY AddsRegistered
<1>2. id[r] = NoId /\ id \in [Radios -> Nat \union {NoId}] /\ transmissions' = transmissions
  BY DEF AddRadio, IdInv
<1>3. RowsExtended(r)
  BY CacheAdds
<1>4. /\ transmissions \in Seq(Radios) /\ Len(transmissions) = Len(receptionCache)
      /\ Len(receptionCache') = Len(receptionCache)
  BY <1>3 DEF ArrivalInv, RowsExtended
<1>5. ASSUME NEW t \in 1..Len(receptionCache)
      PROVE  /\ id'[transmissions[t]] # NoId
             /\ \A i \in 1..Len(radioCache') : receptionCache'[t][i] # transmissions[t]
             /\ \A s \in Registered' : s # transmissions[t] => receptionCache'[t][CacheIndex(s)'] = s
  <2>1. transmissions[t] \in Radios /\ id[transmissions[t]] # NoId /\ transmissions[t] # r
    BY <1>2, <1>4 DEF ArrivalInv
  <2>2. id'[transmissions[t]] # NoId
    BY <1>1, <1>2, <2>1
  <2>3. ASSUME NEW i \in 1..Len(radioCache')
        PROVE  receptionCache'[t][i] # transmissions[t]
    <3>1. CASE i \in 1..Len(radioCache)
      <4>1. receptionCache'[t][i] = receptionCache[t][i]
        BY <1>3, <3>1 DEF RowsExtended
      <4>2. receptionCache[t][i] # transmissions[t]
        BY <3>1 DEF ArrivalInv
      <4> QED
        BY <4>1, <4>2
    <3>2. CASE i \notin 1..Len(radioCache)
      <4>1. receptionCache'[t][i] \in {r, NoArrival}
        BY <1>3, <3>2 DEF RowsExtended
      <4> QED
        BY <2>1, <4>1
    <3> QED
      BY <3>1, <3>2
  <2>4. ASSUME NEW s \in Registered', s # transmissions[t]
        PROVE  receptionCache'[t][CacheIndex(s)'] = s
    <3>1. CASE s = r
      BY <1>3, <3>1 DEF RowsExtended
    <3>2. CASE s \in Registered
      <4>1. CacheIndex(s)' = CacheIndex(s) /\ CacheIndex(s) \in 1..Len(radioCache)
        BY <1>3, <3>2 DEF RowsExtended, CacheInv
      <4>2. receptionCache'[t][CacheIndex(s)] = receptionCache[t][CacheIndex(s)]
        BY <1>3, <4>1 DEF RowsExtended
      <4>3. receptionCache[t][CacheIndex(s)] = s
        BY <2>4, <3>2 DEF ArrivalInv
      <4> QED
        BY <4>1, <4>2, <4>3
    <3> QED
      BY <1>1, <3>1, <3>2
  <2> QED
    BY <2>2, <2>3, <2>4
<1> QED
  BY <1>2, <1>4, <1>5 DEF ArrivalInv

LEMMA ArrivalRemoves ==
    ASSUME IdInv, CacheInv, ArrivalInv, now \in Nat, NEW r \in Radios, RemoveRadio(r)
    PROVE  ArrivalInv'
<1>1. Registered' = Registered \ {r} /\ UNCHANGED <<id, transmissions>>
  BY RemovesRegistered DEF RemoveRadio
<1>2. CacheInv' /\ \E k \in Nat : RowsCut(k)
  BY CacheRemoves
<1>3. PICK k \in Nat : RowsCut(k)
  BY <1>2
<1>4. ASSUME NEW t \in 1..Len(receptionCache)
      PROVE  /\ \A i \in 1..Len(radioCache') : receptionCache'[t][i] # transmissions[t]
             /\ \A s \in Registered' : s # transmissions[t] => receptionCache'[t][CacheIndex(s)'] = s
  <2>1. ASSUME NEW i \in 1..Len(radioCache')
        PROVE  receptionCache'[t][i] # transmissions[t]
    <3>1. k + i \in 1..Len(radioCache) /\ receptionCache'[t][i] = receptionCache[t][k + i]
      BY <1>3 DEF RowsCut
    <3> QED
      BY <3>1 DEF ArrivalInv
  <2>2. ASSUME NEW s \in Registered', s # transmissions[t]
        PROVE  receptionCache'[t][CacheIndex(s)'] = s
    <3>1. s \in Registered /\ s \in Radios /\ id[s] \in Int /\ baseRadioId \in Nat
      <4>1. s \in Registered /\ s \in Radios
        BY <1>1 DEF Registered
      <4>2. id[s] \in Int
        BY <4>1 DEF IdInv, NoId
      <4> QED
        BY <4>1, <4>2 DEF CacheInv
    <3>2. CacheIndex(s)' \in 1..Len(radioCache')
      BY <1>2 DEF CacheInv
    <3>3. k + CacheIndex(s)' = CacheIndex(s)
      <4>1. CacheIndex(s)' = id[s] - (baseRadioId + k) + 1
        BY <1>1, <1>3 DEF CacheIndex, RowsCut
      <4> QED
        <5>1. \A a \in Int, b, c \in Nat : c + (a - (b + c) + 1) = a - b + 1
          OBVIOUS
        <5>2. k \in Nat
          BY <1>3
        <5>3. k + (id[s] - (baseRadioId + k) + 1) = id[s] - baseRadioId + 1
          BY <3>1, <5>1, <5>2
        <5> QED
          BY <4>1, <5>3 DEF CacheIndex
    <3>4. receptionCache'[t][CacheIndex(s)'] = receptionCache[t][k + CacheIndex(s)']
      BY <1>3, <3>2 DEF RowsCut
    <3>5. receptionCache[t][CacheIndex(s)] = s
      BY <2>2, <3>1 DEF ArrivalInv
    <3> QED
      BY <3>3, <3>4, <3>5
  <2> QED
    BY <2>1, <2>2
<1>5. Len(receptionCache') = Len(receptionCache)
  BY <1>3 DEF RowsCut
<1> QED
  BY <1>1, <1>4, <1>5 DEF ArrivalInv

LEMMA ArrivalTransmits ==
    ASSUME IdInv, CacheInv, ListInv, ArrivalInv, NEW r \in Radios, Transmit(r)
    PROVE  ArrivalInv'
<1> DEFINE row == ArrivalsOf(r)
<1>1. /\ UNCHANGED <<id, left, baseRadioId, radioCache>> /\ Registered' = Registered
      /\ r \in Registered /\ id[r] # NoId /\ Receivers = Registered
  BY ReceiversAreListed DEF Transmit, Registered
<1>2. \A s \in Radios : CacheIndex(s)' = CacheIndex(s)
  BY <1>1 DEF CacheIndex
<1>3. transmissions' = Append(transmissions, r) /\ receptionCache' = Append(receptionCache, row)
  BY <1>1 DEF Transmit
<1>4. /\ row \in Seq(Radios \union {NoArrival})
      /\ \A i \in 1..Len(radioCache) :
            row[i] # r /\ \A s \in Registered \ {r} : CacheIndex(s) = i => row[i] = s
  BY <1>1, ArrivalsOfFacts
<1> HIDE DEF row
<1>5. /\ receptionCache \in Seq(Seq(Radios \union {NoArrival})) /\ Len(receptionCache) \in Nat
      /\ transmissions \in Seq(Radios) /\ Len(transmissions) = Len(receptionCache)
  BY DEF CacheInv, ArrivalInv
<1>6. /\ transmissions' \in Seq(Radios) /\ Len(transmissions') = Len(transmissions) + 1
      /\ \A t \in 1..Len(transmissions) : transmissions'[t] = transmissions[t]
      /\ transmissions'[Len(transmissions) + 1] = r
  <2>1. transmissions' = Append(transmissions, r) /\ transmissions \in Seq(Radios)
    BY <1>3, <1>5
  <2> QED
    BY <2>1, AppendProperties
<1>7. /\ Len(receptionCache') = Len(receptionCache) + 1
      /\ \A t \in 1..Len(receptionCache) : receptionCache'[t] = receptionCache[t]
      /\ receptionCache'[Len(receptionCache) + 1] = row
  <2>1. receptionCache' = Append(receptionCache, row) /\ receptionCache \in Seq(Seq(Radios \union {NoArrival}))
    BY <1>3, <1>5
  <2> QED
    BY <1>4, <2>1, AppendProperties
<1>8. ASSUME NEW t \in 1..Len(receptionCache')
      PROVE  /\ id[transmissions'[t]] # NoId
             /\ \A i \in 1..Len(radioCache) : receptionCache'[t][i] # transmissions'[t]
             /\ \A s \in Registered : s # transmissions'[t] => receptionCache'[t][CacheIndex(s)] = s
  <2>1. CASE t \in 1..Len(receptionCache)
    <3>1. receptionCache'[t] = receptionCache[t] /\ transmissions'[t] = transmissions[t]
      BY <1>5, <1>6, <1>7, <2>1
    <3> QED
      BY <2>1, <3>1 DEF ArrivalInv
  <2>2. CASE t = Len(receptionCache) + 1
    <3>1. receptionCache'[t] = row /\ transmissions'[t] = r
      BY <1>5, <1>6, <1>7, <2>2
    <3>2. \A s \in Registered : CacheIndex(s) \in 1..Len(radioCache)
      BY DEF CacheInv
    <3> QED
      BY <1>1, <1>4, <3>1, <3>2
  <2> QED
    BY <1>5, <1>7, <2>1, <2>2
<1>9. \A s \in Registered : s \in Radios
  BY DEF Registered
<1> QED
  BY <1>1, <1>2, <1>5, <1>6, <1>7, <1>8, <1>9 DEF ArrivalInv

LEMMA ArrivalForgets ==
    ASSUME CacheInv, ArrivalInv, ForgetTransmission
    PROVE  ArrivalInv'
<1>1. UNCHANGED <<id, left, baseRadioId, radioCache>> /\ Registered' = Registered
  BY DEF ForgetTransmission, Registered
<1>2. \A s \in Radios : CacheIndex(s)' = CacheIndex(s)
  BY <1>1 DEF CacheIndex
<1>3. /\ receptionCache \in Seq(Seq(Radios \union {NoArrival})) /\ receptionCache # <<>>
      /\ transmissions \in Seq(Radios) /\ Len(transmissions) = Len(receptionCache)
      /\ transmissions' = Tail(transmissions) /\ receptionCache' = Tail(receptionCache)
  BY DEF CacheInv, ArrivalInv, ForgetTransmission
<1>8. Len(receptionCache) \in Nat /\ Len(transmissions) \in Nat
  BY <1>3
<1>4. /\ Len(receptionCache') = Len(receptionCache) - 1
      /\ \A t \in 1..Len(receptionCache') : receptionCache'[t] = receptionCache[t + 1]
  BY <1>3, HeadTailProperties
<1>5. /\ transmissions' \in Seq(Radios) /\ Len(transmissions') = Len(transmissions) - 1
      /\ \A t \in 1..Len(transmissions') : transmissions'[t] = transmissions[t + 1]
  <2>1. transmissions # <<>>
    BY <1>3
  <2> QED
    BY <1>3, <2>1, HeadTailProperties
<1>6. ASSUME NEW t \in 1..Len(receptionCache')
      PROVE  /\ id[transmissions'[t]] # NoId
             /\ \A i \in 1..Len(radioCache) : receptionCache'[t][i] # transmissions'[t]
             /\ \A s \in Registered : s # transmissions'[t] => receptionCache'[t][CacheIndex(s)] = s
  <2>1. t + 1 \in 1..Len(receptionCache) /\ t \in 1..Len(transmissions')
    <3>1. Len(receptionCache') = Len(receptionCache) - 1 /\ Len(transmissions') = Len(receptionCache) - 1
      BY <1>3, <1>4, <1>5
    <3> QED
      BY <1>8, <3>1
  <2>2. receptionCache'[t] = receptionCache[t + 1] /\ transmissions'[t] = transmissions[t + 1]
    BY <1>4, <1>5, <2>1
  <2>3. id[transmissions[t + 1]] # NoId
    BY <2>1 DEF ArrivalInv
  <2>4. \A i \in 1..Len(radioCache) : receptionCache[t + 1][i] # transmissions[t + 1]
    BY <2>1 DEF ArrivalInv
  <2>5. \A s \in Registered : s # transmissions[t + 1] => receptionCache[t + 1][CacheIndex(s)] = s
    BY <2>1 DEF ArrivalInv
  <2> QED
    BY <2>2, <2>3, <2>4, <2>5
<1>7. \A s \in Registered : s \in Radios
  BY DEF Registered
<1>9. transmissions' \in Seq(Radios) /\ Len(transmissions') = Len(receptionCache')
  BY <1>3, <1>4, <1>5
<1> QED
  BY <1>1, <1>2, <1>6, <1>7, <1>9 DEF ArrivalInv

LEMMA ArrivalElsewhere == ASSUME ArrivalInv, UNCHANGED <<id, left, cacheVars>> PROVE ArrivalInv'
<1>1. Registered' = Registered /\ \A s \in Radios : CacheIndex(s)' = CacheIndex(s)
  BY DEF Registered, CacheIndex, cacheVars
<1> QED
  BY <1>1 DEF ArrivalInv, Registered, cacheVars

-----------------------------------------------------------------------------
(***************************************************************************)
(* The theorems.                                                           *)
(***************************************************************************)

LEMMA RadiosInitial == ASSUME Init PROVE RadiosInv
BY IdInitial, CacheInitial, NeighborInitial DEF RadiosInv

LEMMA RadiosStep == ASSUME RadiosInv, [Next]_vars PROVE RadiosInv'
<1> USE DEF RadiosInv
<1>1. now \in Nat
  BY DEF NeighborType
<1>2. ASSUME NEW r \in Radios, AddRadio(r)
      PROVE  RadiosInv'
  BY <1>2, IdAdds, CacheAdds, NeighborAdds
<1>3. ASSUME NEW r \in Radios, RemoveRadio(r)
      PROVE  RadiosInv'
  BY <1>1, <1>3, IdRemoves, CacheRemoves, NeighborRemoves
<1>4. ASSUME NEW r \in Radios, Transmit(r)
      PROVE  RadiosInv'
  <2>1. UNCHANGED <<now, position, neighborVars, id, left, nextId>>
    BY <1>4 DEF Transmit
  <2> QED
    BY <1>4, <2>1, IdElsewhere, CacheTransmits, NeighborElsewhere
<1>5. CASE ForgetTransmission
  <2>1. UNCHANGED <<now, position, neighborVars, id, left, nextId>>
    BY <1>5 DEF ForgetTransmission
  <2> QED
    BY <1>5, <2>1, IdElsewhere, CacheForgets, NeighborElsewhere
<1>6. CASE TimerFires
  <2>1. UNCHANGED <<nextId, id, left, cacheVars>>
    BY <1>6 DEF TimerFires
  <2> QED
    BY <1>6, <2>1, IdElsewhere, CacheElsewhere, NeighborRefills
<1>7. CASE Tick
  <2>1. UNCHANGED <<nextId, id, left, cacheVars>>
    BY <1>7 DEF Tick
  <2> QED
    BY <1>7, <2>1, IdElsewhere, CacheElsewhere, NeighborTick
<1>8. CASE UNCHANGED vars
  BY <1>8, IdElsewhere, CacheElsewhere, NeighborElsewhere DEF vars
<1> QED
  BY <1>2, <1>3, <1>4, <1>5, <1>6, <1>7, <1>8 DEF Next

LEMMA RadiosAlways == Spec => []RadiosInv
<1>1. Init => RadiosInv
  BY RadiosInitial
<1>2. RadiosInv /\ [Next]_vars => RadiosInv'
  BY RadiosStep
<1> QED
  BY <1>1, <1>2, PTL DEF Spec

LEMMA ListStep == ASSUME OnlyFirstLeaves = TRUE, RadiosInv, ListInv, [Next]_vars PROVE ListInv'
<1>1. now \in Nat /\ IdInv
  BY DEF RadiosInv, NeighborType
<1>2. ASSUME NEW r \in Radios, AddRadio(r)
      PROVE  ListInv'
  BY <1>1, <1>2, ListAdds
<1>3. ASSUME NEW r \in Radios, RemoveRadio(r)
      PROVE  ListInv'
  BY <1>1, <1>3, ListRemoves
<1>4. ASSUME NEW r \in Radios, Transmit(r)
      PROVE  ListInv'
  BY <1>4, ListTransmits
<1>5. CASE ForgetTransmission \/ TimerFires \/ Tick \/ UNCHANGED vars
  <2>1. UNCHANGED <<id, left, radios, corrupted>>
    BY <1>5 DEF ForgetTransmission, TimerFires, Tick, vars
  <2> QED
    BY <2>1, ListElsewhere
<1> QED
  BY <1>2, <1>3, <1>4, <1>5 DEF Next

LEMMA ArrivalStep ==
    ASSUME RadiosInv, ListInv, ArrivalInv, [Next]_vars
    PROVE  ArrivalInv'
<1>1. now \in Nat /\ IdInv /\ CacheInv
  BY DEF RadiosInv, NeighborType
<1>2. ASSUME NEW r \in Radios, AddRadio(r)
      PROVE  ArrivalInv'
  BY <1>1, <1>2, ArrivalAdds
<1>3. ASSUME NEW r \in Radios, RemoveRadio(r)
      PROVE  ArrivalInv'
  BY <1>1, <1>3, ArrivalRemoves
<1>4. ASSUME NEW r \in Radios, Transmit(r)
      PROVE  ArrivalInv'
  BY <1>1, <1>4, ArrivalTransmits
<1>5. CASE ForgetTransmission
  BY <1>1, <1>5, ArrivalForgets
<1>6. CASE TimerFires \/ Tick \/ UNCHANGED vars
  <2>1. UNCHANGED <<id, left, cacheVars>>
    BY <1>6 DEF TimerFires, Tick, vars
  <2> QED
    BY <2>1, ArrivalElsewhere
<1> QED
  BY <1>2, <1>3, <1>4, <1>5, <1>6 DEF Next

(***************************************************************************)
(* As long as radios leave in the order of their ids, sendToAllRadios      *)
(* reaches exactly the radios that are registered, and removeRadio never   *)
(* uses memory outside the list before the last radio leaves: the list     *)
(* holds them in the order of their ids, so the one that leaves is its     *)
(* front, whatever numbers were skipped.                                   *)
(***************************************************************************)
THEOREM ListHoldsTheRadios ==
    ASSUME OnlyFirstLeaves = TRUE
    PROVE  Spec => []ReceiversAreRadios
<1>1. Init => ListInv
  BY ListInitial
<1>2. RadiosInv /\ ListInv /\ [Next]_vars => ListInv'
  BY ListStep
<1>3. ListInv => ReceiversAreRadios
  BY ReceiversAreListed DEF ReceiversAreRadios, ListInv
<1> QED
  BY <1>1, <1>2, <1>3, RadiosAlways, PTL DEF Spec

(***************************************************************************)
(* As long as radios leave in the order of their ids,                      *)
(* VectorCommunicationCache has the arrival of every transmission at every *)
(* radio on the medium but its transmitter, under the radio's index and    *)
(* nowhere else.                                                           *)
(***************************************************************************)
THEOREM CacheFindsArrivals ==
    ASSUME OnlyFirstLeaves = TRUE
    PROVE  Spec => []ArrivalsFound
<1>1. Init => ListInv /\ ArrivalInv
  BY ListInitial, ArrivalInitial
<1>2. RadiosInv /\ ListInv /\ ArrivalInv /\ [Next]_vars => ListInv' /\ ArrivalInv'
  BY ListStep, ArrivalStep
<1>3. RadiosInv /\ ArrivalInv => ArrivalsFound
  <2> SUFFICES ASSUME RadiosInv, ArrivalInv, NEW t \in DOMAIN receptionCache, NEW r \in Registered
               PROVE  {i \in DOMAIN receptionCache[t] : receptionCache[t][i] = r} =
                        IF r = transmissions[t] THEN {} ELSE {CacheIndex(r)}
    BY DEF ArrivalsFound
  <2> USE DEF RadiosInv
  <2>1. receptionCache \in Seq(Seq(Radios \union {NoArrival})) /\ t \in 1..Len(receptionCache)
    BY DEF CacheInv
  <2> DEFINE row == receptionCache[t]
  <2>2. row \in Seq(Radios \union {NoArrival}) /\ Len(row) = Len(radioCache) /\ DOMAIN row = 1..Len(row)
        /\ \A i \in 1..Len(row) : row[i] # NoArrival => id[row[i]] = baseRadioId + i - 1
    BY <2>1 DEF CacheInv
  <2>3. r \in Radios /\ id[r] \in Int /\ CacheIndex(r) \in 1..Len(row) /\ baseRadioId \in Int
    BY <2>2 DEF CacheInv, Registered, IdInv, NoId
  <2>4. /\ \A i \in 1..Len(row) : row[i] # transmissions[t]
        /\ r # transmissions[t] => row[CacheIndex(r)] = r
    BY <2>1, <2>2 DEF ArrivalInv
  <2> HIDE DEF row
  <2>5. ASSUME NEW i \in 1..Len(row), row[i] = r
        PROVE  i = CacheIndex(r)
    <3>1. id[r] = baseRadioId + i - 1
      BY <2>2, <2>3, <2>5
    <3> QED
      BY <2>3, <3>1 DEF CacheIndex
  <2>6. {i \in DOMAIN row : row[i] = r} = IF r = transmissions[t] THEN {} ELSE {CacheIndex(r)}
    BY <2>2, <2>3, <2>4, <2>5
  <2> QED
    BY <2>6 DEF row
<1> QED
  BY <1>1, <1>2, <1>3, RadiosAlways, PTL DEF Spec

(***************************************************************************)
(* maxSpeed * refillPeriod is margin enough: of two radios that were there *)
(* from the start, of which at most one moves, neither comes into range of *)
(* the other between two refills without being in its list.                *)
(***************************************************************************)
THEOREM ListsAreComplete == Spec => []NeighborsComplete
<1>1. RadiosInv => NeighborsComplete
  <2> SUFFICES ASSUME RadiosInv, NEW r \in Registered \intersect InitialSet, NEW s \in Registered \intersect InitialSet,
                      r # s, InRange(r, s), Speed[r] = 0 \/ Speed[s] = 0, s \notin neighborVector[r]
               PROVE  FALSE
    BY DEF NeighborsComplete
  <2> USE DEF RadiosInv
  <2>1. Distance(position[r], position[s]) > range + Remaining * (Speed[r] + Speed[s])
    BY DEF ReachInv, OutOfReach
  <2>2. Remaining * (Speed[r] + Speed[s]) \in Nat
    BY PairSpeed, RemainingFacts, ProductFacts
  <2>3. Distance(position[r], position[s]) \in Nat
    <3>1. position[r] \in Int /\ position[s] \in Int
      BY DEF NeighborType, Registered
    <3> QED
      BY <3>1, DistanceFacts
  <2> QED
    BY <2>1, <2>2, <2>3 DEF InRange
<1> QED
  BY <1>1, RadiosAlways, PTL
=============================================================================
