---------------------- MODULE OpalLoRaRadioMedium_proofs ----------------------
(***************************************************************************)
(* The powers of Opal and the receptions they belong to, for any radios,   *)
(* any powers and any number of transmissions, as long as the medium tells *)
(* every radio of a transmission (radioModeFilter = FALSE, the default     *)
(* that no configuration changes): a receiver's callback holds the last    *)
(* transmission, and nothing but the call of Opal puts a power into it.    *)
(***************************************************************************)
EXTENDS OpalLoRaRadioMedium, FiniteSetTheorems, WellFoundedInduction, TLAPS

USE RadiosAssumption, PowersAssumption

LEMMA LeastNatural ==
    ASSUME NEW S \in SUBSET Nat, S # {}
    PROVE  \E x \in S : \A y \in S : x <= y
<1> DEFINE T == {0..x : x \in S}
<1>1. T \subseteq FiniteSubsetsOf(Nat) /\ T # {}
  <2>1. ASSUME NEW x \in Nat
        PROVE  0..x \in FiniteSubsetsOf(Nat)
    <3>1. IsFiniteSet(0..x) /\ 0..x \in SUBSET Nat
      BY FS_Interval
    <3> QED
      BY <3>1 DEF FiniteSubsetsOf
  <2>2. PICK x \in S : TRUE
    OBVIOUS
  <2>3. 0..x \in T
    OBVIOUS
  <2>4. ASSUME NEW t \in T
        PROVE  t \in FiniteSubsetsOf(Nat)
    <3>1. PICK y \in S : t = 0..y
      OBVIOUS
    <3> QED
      BY <2>1, <3>1
  <2> HIDE DEF T
  <2> QED
    BY <2>3, <2>4
<1>2. PICK least \in T : \A t \in T : ~ (<<t, least>> \in StrictSubsetOrdering(Nat))
  <2>1. IsWellFoundedOn(StrictSubsetOrdering(Nat), FiniteSubsetsOf(Nat))
    BY FS_StrictSubsetOrderingWellFounded
  <2> HIDE DEF T
  <2> QED
    BY <1>1, <2>1, WFMin
<1>3. PICK x \in S : least = 0..x
  OBVIOUS
<1>4. ASSUME NEW y \in S, y < x
      PROVE  FALSE
  <2>1. /\ 0..y \in T
        /\ 0..y \subseteq Nat /\ 0..x \subseteq Nat
        /\ 0..y \subseteq 0..x
        /\ x \in 0..x /\ x \notin 0..y
    BY <1>4
  <2> QED
    BY <1>2, <1>3, <2>1 DEF StrictSubsetOrdering
<1> QED
  BY <1>4


-----------------------------------------------------------------------------
(***************************************************************************)
(* The invariant.                                                          *)
(***************************************************************************)
Callback == [hasReceivedPower : BOOLEAN, lastPower : Nat, lastTransmitterId : Radios \union {Nobody},
             transmission : Nat]
Powers == UNION {[S -> Nat] : S \in SUBSET Radios}

OpalType ==
    /\ isStatic \in BOOLEAN /\ thrown \in BOOLEAN
    /\ isStatic => gain \in [Radios -> [Radios -> Nat]]
    /\ radios \subseteq Radios /\ left \subseteq Radios
    /\ callback \in [Radios -> Callback]
    /\ sent \in Seq([transmitter : Radios, power : Powers])
    /\ transmissions \in Seq(1..Len(sent))
    /\ reception \in Seq([Radios -> Nat \union {NotComputed}]) /\ Len(reception) = Len(sent)

\* A transmitter that is gone, with a transmission still known, has left a pending one.
KnownOrPending ==
    \A i \in 1..Len(transmissions) :
        sent[transmissions[i]].transmitter \in radios \/ pendingTransmissions # {}

\* The power that Opal found for receiver r when transmission u began.
PowerAt(u, r) == IF r \in DOMAIN sent[u].power THEN sent[u].power[r] ELSE 0
\* The transmission whose powers t gets.
Source(t) == IF isStatic THEN FirstOf(t) ELSE t

\* A reception that is not computed yet is one of no power.
ReceptionInv ==
    \A t \in 1..Len(sent), r \in Radios :
        \/ reception[t][r] = PowerAt(Source(t), r)
        \/ reception[t][r] = NotComputed /\ PowerAt(Source(t), r) = 0

\* The map of a static scene holds all powers of the first frame of every transmitter.
MapInv ==
    isStatic =>
        /\ \A t \in 1..Len(sent) : sent[t].transmitter \in DOMAIN mapReceptions
        /\ \A x \in DOMAIN mapReceptions :
            /\ x \in Radios
            /\ mapReceptions[x] \in [DOMAIN mapReceptions[x] -> Nat]
            /\ DOMAIN mapReceptions[x] \subseteq radios \union left /\ x \notin DOMAIN mapReceptions[x]
            /\ \E t \in 1..Len(sent) : sent[t].transmitter = x
        /\ \A t \in 1..Len(sent), r \in Radios :
            LET found == mapReceptions[sent[t].transmitter] IN
            IF r \in DOMAIN found THEN found[r] = PowerAt(FirstOf(t), r) ELSE PowerAt(FirstOf(t), r) = 0

\* Who gets a power has been there, and is not the transmitter.
ReachedInv ==
    \A t \in 1..Len(sent) :
        /\ DOMAIN sent[t].power \subseteq radios \union left
        /\ sent[t].transmitter \notin DOMAIN sent[t].power

OpalInv ==
    /\ OpalType /\ NoPowerLeftOver /\ KnownOrPending /\ ThrowsOnlyAfterRemoval
    /\ ReachedInv /\ ReceptionInv /\ MapInv

LEMMA OpalInitial == Init => OpalInv
<1> SUFFICES ASSUME Init
             PROVE  OpalInv
  OBVIOUS
<1>1. OpalType
  <2>1. isStatic => gain \in [Radios -> [Radios -> Nat]]
    <3> SUFFICES ASSUME isStatic
                 PROVE  gain \in [Radios -> [Radios -> Nat]]
      OBVIOUS
    <3>1. gain \in [Radios -> [Radios -> Gains]]
      BY DEF Init
    <3>2. [Radios -> Gains] \subseteq [Radios -> Nat]
      OBVIOUS
    <3> QED
      BY <3>1, <3>2
  <2>2. callback \in [Radios -> Callback]
    BY DEF Init, NewCallback, Callback, NoTransmission
  <2>3. sent = <<>> /\ transmissions = <<>> /\ reception = <<>>
    BY DEF Init
  <2>4. isStatic \in BOOLEAN /\ thrown \in BOOLEAN /\ radios \subseteq Radios /\ left \subseteq Radios
    BY DEF Init
  <2>5. /\ sent \in Seq([transmitter : Radios, power : Powers])
        /\ transmissions \in Seq(1..Len(sent))
        /\ reception \in Seq([Radios -> Nat \union {NotComputed}])
        /\ Len(reception) = Len(sent)
    BY <2>3
  <2> QED
    BY <2>1, <2>2, <2>4, <2>5 DEF OpalType
<1>2. NoPowerLeftOver
  BY DEF Init, NoPowerLeftOver, NewCallback
<1>3. sent = <<>> /\ transmissions = <<>> /\ ~thrown
  BY DEF Init
<1>4. KnownOrPending /\ ThrowsOnlyAfterRemoval /\ ReachedInv /\ ReceptionInv
  BY <1>3 DEF KnownOrPending, ThrowsOnlyAfterRemoval, ReachedInv, ReceptionInv
<1>5. MapInv
  <2>1. DOMAIN mapReceptions = {}
    BY DEF Init, NoPowers
  <2> QED
    BY <1>3, <2>1 DEF MapInv
<1> QED
  BY <1>1, <1>2, <1>4, <1>5 DEF OpalInv

\* FirstOf in any record of transmissions: it is what its name says, and stays.
FirstIn(s, t) ==
    CHOOSE u \in DOMAIN s :
        /\ s[u].transmitter = s[t].transmitter
        /\ \A v \in DOMAIN s : s[v].transmitter = s[t].transmitter => u <= v

LEMMA FirstInIsLeast ==
    ASSUME NEW S, NEW s \in Seq(S), NEW t \in 1..Len(s)
    PROVE  /\ FirstIn(s, t) \in 1..Len(s)
           /\ s[FirstIn(s, t)].transmitter = s[t].transmitter
           /\ \A v \in 1..Len(s) : s[v].transmitter = s[t].transmitter => FirstIn(s, t) <= v
<1> DEFINE Own == {u \in 1..Len(s) : s[u].transmitter = s[t].transmitter}
<1>1. DOMAIN s = 1..Len(s)
  OBVIOUS
<1>2. PICK u \in Own : \A v \in Own : u <= v
  <2>1. Own \in SUBSET Nat /\ t \in Own
    OBVIOUS
  <2> HIDE DEF Own
  <2> QED
    BY <2>1, LeastNatural
<1>3. \E w \in DOMAIN s :
        /\ s[w].transmitter = s[t].transmitter
        /\ \A v \in DOMAIN s : s[v].transmitter = s[t].transmitter => w <= v
  BY <1>1, <1>2
<1> QED
  BY <1>1, <1>3 DEF FirstIn

LEMMA FunctionIsSequence ==
    ASSUME NEW S, NEW m \in Nat, NEW f \in [1..m -> S]
    PROVE  f \in Seq(S) /\ Len(f) = m
OBVIOUS

LEMMA FirstInIsUnique ==
    ASSUME NEW S, NEW s \in Seq(S), NEW t \in 1..Len(s), NEW u \in 1..Len(s),
           s[u].transmitter = s[t].transmitter,
           \A v \in 1..Len(s) : s[v].transmitter = s[t].transmitter => u <= v
    PROVE  FirstIn(s, t) = u
<1>1. FirstIn(s, t) \in 1..Len(s) /\ FirstIn(s, t) <= u /\ u <= FirstIn(s, t)
  BY FirstInIsLeast
<1> QED
  BY <1>1

LEMMA FirstAfterAppend ==
    ASSUME NEW S, NEW s \in Seq(S), NEW e \in S
    PROVE  /\ \A t \in 1..Len(s) : FirstIn(Append(s, e), t) = FirstIn(s, t)
           /\ \A v \in 1..Len(s) :
                s[v].transmitter = e.transmitter => FirstIn(Append(s, e), Len(s) + 1) = FirstIn(s, v)
           /\ (\A v \in 1..Len(s) : s[v].transmitter # e.transmitter)
              => FirstIn(Append(s, e), Len(s) + 1) = Len(s) + 1
<1> DEFINE a == Append(s, e)
           n == Len(s) + 1
<1>1. /\ a \in Seq(S) /\ Len(a) = n /\ a[n] = e /\ n \in 1..Len(a) /\ Len(s) \in Nat
      /\ \A v \in 1..Len(s) : a[v] = s[v] /\ v \in 1..Len(a)
      /\ \A v \in 1..Len(a) : v \in 1..Len(s) \/ v = n
  OBVIOUS
<1> HIDE DEF a
<1>2. ASSUME NEW t \in 1..Len(s)
      PROVE  FirstIn(a, t) = FirstIn(s, t)
  <2>1. /\ FirstIn(s, t) \in 1..Len(s) /\ s[FirstIn(s, t)].transmitter = s[t].transmitter
        /\ \A v \in 1..Len(s) : s[v].transmitter = s[t].transmitter => FirstIn(s, t) <= v
    BY FirstInIsLeast
  <2>2. FirstIn(s, t) <= n
    BY <1>1, <2>1
  <2>3. FirstIn(s, t) \in 1..Len(a) /\ a[FirstIn(s, t)].transmitter = a[t].transmitter
    BY <1>1, <2>1
  <2>4. ASSUME NEW v \in 1..Len(a), a[v].transmitter = a[t].transmitter
        PROVE  FirstIn(s, t) <= v
    BY <1>1, <2>1, <2>2, <2>4
  <2> QED
    BY <1>1, <2>3, <2>4, FirstInIsUnique
<1>3. ASSUME NEW v \in 1..Len(s), s[v].transmitter = e.transmitter
      PROVE  FirstIn(a, n) = FirstIn(s, v)
  <2>1. /\ FirstIn(s, v) \in 1..Len(s) /\ s[FirstIn(s, v)].transmitter = s[v].transmitter
        /\ \A w \in 1..Len(s) : s[w].transmitter = s[v].transmitter => FirstIn(s, v) <= w
    BY FirstInIsLeast
  <2>2. FirstIn(s, v) <= n
    BY <1>1, <2>1
  <2>3. FirstIn(s, v) \in 1..Len(a) /\ a[FirstIn(s, v)].transmitter = a[n].transmitter
    BY <1>1, <1>3, <2>1
  <2>4. ASSUME NEW w \in 1..Len(a), a[w].transmitter = a[n].transmitter
        PROVE  FirstIn(s, v) <= w
    BY <1>1, <1>3, <2>1, <2>2, <2>4
  <2> QED
    BY <1>1, <2>3, <2>4, FirstInIsUnique
<1>4. ASSUME \A v \in 1..Len(s) : s[v].transmitter # e.transmitter
      PROVE  FirstIn(a, n) = n
  <2>1. ASSUME NEW w \in 1..Len(a), a[w].transmitter = a[n].transmitter
        PROVE  n <= w
    BY <1>1, <1>4, <2>1
  <2> QED
    BY <1>1, <2>1, FirstInIsUnique
<1> QED
  BY <1>2, <1>3, <1>4 DEF a

-----------------------------------------------------------------------------
(***************************************************************************)
(* What the steps do.                                                      *)
(***************************************************************************)

\* The powers used for a frame of tx for which Opal has computed `power'.
Used(tx, power) == IF isStatic /\ tx \in DOMAIN mapReceptions THEN mapReceptions[tx] ELSE power
Called(used) == {r \in DOMAIN used : used[r] # 0}

LEMMA ResetKeeps ==
    ASSUME NEW c \in Callback
    PROVE  Reset(c) \in Callback /\ ~Reset(c).hasReceivedPower
<1>1. Reset(c).hasReceivedPower = FALSE
  BY DEF Reset, Callback
<1>2. Reset(c) \in Callback
  BY DEF Reset, Callback
<1> QED
  BY <1>1, <1>2

\* The callbacks of those called hold the new transmission and its power, so none throws.
LEMMA TransmitSteps ==
    ASSUME radioModeFilter = FALSE, OpalInv, NEW tx \in radios, NEW power \in [radios \ {tx} -> Nat],
           TransmitPacket(tx, power, radios \ {tx})
    PROVE  LET used == Used(tx, power)
               called == Called(used)
           IN
           \/ /\ ~(called \subseteq radios)
              /\ thrown' = TRUE /\ UNCHANGED <<callback, sent, transmissions, reception, mapReceptions>>
           \/ /\ called \subseteq radios \ {tx}
              /\ sent' = Append(sent, [transmitter |-> tx, power |-> power])
              /\ transmissions' = Append(transmissions, Len(sent) + 1)
              /\ callback' \in [Radios -> Callback]
              /\ \A r \in Radios : ~callback'[r].hasReceivedPower
              /\ reception' = [u \in 1..(Len(sent) + 1) |-> [r \in Radios |->
                    IF u = Len(sent) + 1
                    THEN IF r \in called THEN used[r] ELSE NotComputed
                    ELSE reception[u][r]]]
              /\ mapReceptions' =
                    IF isStatic
                    THEN WithPowers(WithEntry(mapReceptions, tx), tx, [r \in called |-> used[r]])
                    ELSE mapReceptions
              /\ UNCHANGED thrown
<1> DEFINE t == Len(sent) + 1
           computed == Append(reception, [r \in Radios |-> NotComputed])
           replayed == isStatic /\ tx \in DOMAIN mapReceptions
           used == IF replayed THEN mapReceptions[tx] ELSE power
           called == {r \in DOMAIN used : used[r] # 0}
           after == [r \in called |->
                       [Told(r, t, radios \ {tx}) EXCEPT !.hasReceivedPower = TRUE, !.lastPower = used[r],
                                                         !.lastTransmitterId = tx]]
           computes == {r \in called : CreateReceptionComputes(r, after[r], computed)}
           Of(r) == after[r].transmission
           stops == \/ called \ radios # {}
                    \/ \E r \in called \cap radios :
                        \/ Of(r) \notin {transmissions[i] : i \in DOMAIN transmissions} \union {t}
                        \/ r \in computes
                           /\ ComputeThrows(r, IF Of(r) = t THEN tx ELSE sent[Of(r)].transmitter, after[r])
<1>1. IF stops
      THEN thrown' = TRUE /\ UNCHANGED <<callback, sent, transmissions, reception, mapReceptions>>
      ELSE /\ sent' = Append(sent, [transmitter |-> tx, power |-> power])
           /\ transmissions' = Append(transmissions, t)
           /\ callback' = [r \in Radios |->
                              IF r \in computes THEN AfterCompute(after[r])
                              ELSE IF r \in called THEN after[r] ELSE Told(r, t, radios \ {tx})]
           /\ reception' = [u \in DOMAIN computed |-> [r \in Radios |->
                              IF r \in computes /\ Of(r) = u THEN PowerIn(after[r]) ELSE computed[u][r]]]
           /\ mapReceptions' =
                  IF isStatic
                  THEN WithPowers(WithEntry(mapReceptions, tx), tx, [r \in computes |-> PowerIn(after[r])])
                  ELSE mapReceptions
           /\ UNCHANGED thrown
  BY Zenon DEF TransmitPacket
<1>2. used = Used(tx, power) /\ called = Called(used)
  BY Zenon DEF Used, Called
<1>3. /\ used \in [DOMAIN used -> Nat] /\ tx \notin DOMAIN used /\ DOMAIN used \subseteq Radios
      /\ radios \subseteq Radios /\ Len(sent) \in Nat
  <2>1. CASE replayed
    <3>1. /\ mapReceptions[tx] \in [DOMAIN mapReceptions[tx] -> Nat]
          /\ DOMAIN mapReceptions[tx] \subseteq radios \union left /\ tx \notin DOMAIN mapReceptions[tx]
      BY <2>1 DEF OpalInv, MapInv
    <3> QED
      BY <2>1, <3>1 DEF OpalInv, OpalType
  <2>2. CASE ~replayed
    BY <2>2 DEF OpalInv, OpalType
  <2> QED
    BY <2>1, <2>2
<1>4. callback \in [Radios -> Callback] /\ \A r \in Radios : ~callback[r].hasReceivedPower
  BY DEF OpalInv, OpalType, NoPowerLeftOver
<1>5. computed \in Seq([Radios -> Nat \union {NotComputed}])
      /\ DOMAIN computed = 1..t /\ computed[t] = [r \in Radios |-> NotComputed]
      /\ \A u \in 1..Len(sent) : computed[u] = reception[u]
  <2>1. reception \in Seq([Radios -> Nat \union {NotComputed}]) /\ Len(reception) = Len(sent)
    BY DEF OpalInv, OpalType
  <2>2. [r \in Radios |-> NotComputed] \in [Radios -> Nat \union {NotComputed}]
    OBVIOUS
  <2> QED
    BY <2>1, <2>2
<1> HIDE DEF computed, used, called
<1>6. ASSUME NEW r \in called, r \in radios
      PROVE  /\ r # tx /\ r \in DOMAIN used /\ used[r] \in Nat /\ r \in Radios
             /\ after[r] = [hasReceivedPower |-> TRUE, lastPower |-> used[r],
                            lastTransmitterId |-> tx, transmission |-> t]
  <2>1. r \in DOMAIN used /\ r # tx /\ r \in Radios
    BY <1>3, <1>6 DEF called
  <2>2. Told(r, t, radios \ {tx}) = [callback[r] EXCEPT !.transmission = t]
    BY <1>6, <2>1 DEF Told
  <2>3. callback[r] \in Callback
    BY <1>4, <2>1
  <2>4. after[r] = [Told(r, t, radios \ {tx}) EXCEPT !.hasReceivedPower = TRUE, !.lastPower = used[r],
                                                   !.lastTransmitterId = tx]
    OBVIOUS
  <2> QED
    BY <1>3, <2>1, <2>2, <2>3, <2>4 DEF Callback
<1>7. t \in Nat \ {0} /\ t \notin 1..Len(sent) /\ 1..t = 1..Len(sent) \union {t}
  BY <1>3
<1> HIDE DEF after, t
<1>8. ASSUME NEW r \in called, r \in radios
      PROVE  /\ r \in computes /\ Of(r) = t /\ PowerIn(after[r]) = used[r]
             /\ ~ComputeThrows(r, tx, after[r])
             /\ AfterCompute(after[r]) \in Callback /\ ~AfterCompute(after[r]).hasReceivedPower
  <2>1. /\ r # tx /\ r \in DOMAIN used /\ used[r] \in Nat /\ r \in Radios
        /\ after[r] = [hasReceivedPower |-> TRUE, lastPower |-> used[r],
                       lastTransmitterId |-> tx, transmission |-> t]
    BY <1>6, <1>8, Zenon
  <2>2. /\ after[r].hasReceivedPower = TRUE /\ after[r].lastPower = used[r]
        /\ after[r].lastTransmitterId = tx /\ after[r].transmission = t
    BY <2>1
  <2>3. CreateReceptionComputes(r, after[r], computed)
    <3>1. computed[t][r] = NotComputed
      BY <1>5, <2>1
    <3>2. t # NoTransmission
      BY <1>7 DEF NoTransmission
    <3> QED
      BY <2>2, <3>1, <3>2, Zenon DEF CreateReceptionComputes
  <2>4. ~ComputeThrows(r, tx, after[r])
    BY <2>1, <2>2, Zenon DEF ComputeThrows
  <2>5. PowerIn(after[r]) = used[r]
    BY <2>2, Zenon DEF PowerIn
  <2>6. AfterCompute(after[r]) \in Callback /\ ~AfterCompute(after[r]).hasReceivedPower
    <3>1. after[r] = [hasReceivedPower |-> TRUE, lastPower |-> used[r],
                      lastTransmitterId |-> tx, transmission |-> t]
      BY <2>1
    <3>2. after[r] \in Callback
      BY <1>3, <1>7, <2>1, <3>1 DEF Callback
    <3>3. AfterCompute(after[r]) = Reset(after[r])
      BY <2>2, Zenon DEF AfterCompute
    <3> QED
      BY <3>2, <3>3, ResetKeeps
  <2> QED
    BY <1>8, <2>2, <2>3, <2>4, <2>5, <2>6
<1>9. CASE ~(called \subseteq radios)
  BY <1>1, <1>2, <1>9, Zenon
<1>10. CASE called \subseteq radios
  <2>1. computes = called
    BY <1>8, <1>10
  <2>2. ~stops
    BY <1>8, <1>10
  <2> HIDE DEF computes, stops
  <2>3. called \subseteq radios \ {tx}
    BY <1>6, <1>10
  <2>4. ASSUME NEW r \in Radios
        PROVE  callback'[r] \in Callback /\ ~callback'[r].hasReceivedPower
    <3>1. CASE r \in called
      BY <1>1, <1>8, <1>10, <2>1, <2>2, <3>1
    <3>2. CASE r \notin called
      <4>1. callback'[r] = Told(r, t, radios \ {tx})
        BY <1>1, <2>1, <2>2, <3>2
      <4>2. callback[r] \in Callback /\ ~callback[r].hasReceivedPower
        BY <1>4
      <4>3. callback'[r] = callback[r] \/ callback'[r] = [callback[r] EXCEPT !.transmission = t]
        BY <4>1, <4>2 DEF Told, Callback
      <4>4. t \in Nat
        BY <1>7
      <4> QED
        BY <4>2, <4>3, <4>4 DEF Callback
    <3> QED
      BY <3>1, <3>2
  <2>5. callback' \in [Radios -> Callback]
    <3>1. callback' = [r \in Radios |-> callback'[r]]
      BY <1>1, <2>2
    <3> QED
      BY <2>4, <3>1
  <2>6. reception' = [u \in 1..t |-> [r \in Radios |->
                        IF u = t THEN IF r \in called THEN used[r] ELSE NotComputed
                        ELSE reception[u][r]]]
    <3>1. reception' = [u \in 1..t |-> [r \in Radios |->
                          IF r \in called /\ Of(r) = u THEN PowerIn(after[r]) ELSE computed[u][r]]]
      BY <1>1, <1>5, <2>1, <2>2, SMTT(40)
    <3>2. ASSUME NEW u \in 1..t, NEW r \in Radios
          PROVE  (IF r \in called /\ Of(r) = u THEN PowerIn(after[r]) ELSE computed[u][r])
                 = IF u = t THEN IF r \in called THEN used[r] ELSE NotComputed ELSE reception[u][r]
      <4>1. CASE r \in called
        <5>1. Of(r) = t /\ PowerIn(after[r]) = used[r]
          BY <1>8, <1>10, <4>1
        <5>2. u # t => u \in 1..Len(sent)
          BY <1>7
        <5> QED
          BY <1>5, <4>1, <5>1, <5>2
      <4>2. CASE r \notin called
        <5>1. computed[u][r] = IF u = t THEN NotComputed ELSE reception[u][r]
          BY <1>5, <1>7
        <5> QED
          BY <4>2, <5>1
      <4> QED
        BY <4>1, <4>2
    <3> HIDE DEF Of
    <3> QED
      BY <3>1, <3>2, ZenonT(30)
  <2>7. [r \in computes |-> PowerIn(after[r])] = [r \in called |-> used[r]]
    BY <1>8, <1>10, <2>1
  <2> QED
    BY <1>1, <1>2, <2>2, <2>3, <2>4, <2>5, <2>6, <2>7 DEF t
<1> QED
  BY <1>9, <1>10

-----------------------------------------------------------------------------
(***************************************************************************)
(* The invariant after each step.                                          *)
(***************************************************************************)

\* Whatever the radios do, the powers found before stay what they are.
LEMMA PowersKept ==
    ASSUME OpalInv, UNCHANGED <<isStatic, sent, reception, mapReceptions>>,
           radios \union left \subseteq (radios \union left)'
    PROVE  ReachedInv' /\ ReceptionInv' /\ MapInv'
<1>1. \A u, r : PowerAt(u, r)' = PowerAt(u, r)
  BY Zenon DEF PowerAt
<1>2. \A t : FirstOf(t)' = FirstOf(t)
  BY Zenon DEF FirstOf
<1>3. \A t : Source(t)' = Source(t)
  BY <1>2, Zenon DEF Source
<1>4. ReachedInv'
  BY DEF OpalInv, ReachedInv
<1>5. ReceptionInv'
  <2> SUFFICES ASSUME NEW t \in 1..Len(sent), NEW r \in Radios
               PROVE  \/ reception[t][r] = PowerAt(Source(t), r)'
                      \/ reception[t][r] = NotComputed /\ PowerAt(Source(t), r)' = 0
    BY Zenon DEF ReceptionInv
  <2>1. PowerAt(Source(t), r)' = PowerAt(Source(t), r)
    BY <1>3, Zenon DEF PowerAt
  <2> QED
    BY <2>1 DEF OpalInv, ReceptionInv
<1>6. MapInv'
  <2> SUFFICES ASSUME isStatic
               PROVE  MapInv'
    BY DEF MapInv
  <2>1. \A t \in 1..Len(sent), r \in Radios : PowerAt(FirstOf(t), r)' = PowerAt(FirstOf(t), r)
    BY <1>2, Zenon DEF PowerAt
  <2>2. \A x \in DOMAIN mapReceptions : DOMAIN mapReceptions[x] \subseteq (radios \union left)'
    BY DEF OpalInv, MapInv
  <2>3. \A t \in 1..Len(sent), r \in Radios :
            LET found == mapReceptions[sent[t].transmitter] IN
            IF r \in DOMAIN found THEN found[r] = PowerAt(FirstOf(t), r)' ELSE PowerAt(FirstOf(t), r)' = 0
    BY <2>1, SMTT(40) DEF OpalInv, MapInv
  <2>4. /\ \A t \in 1..Len(sent) : sent[t].transmitter \in DOMAIN mapReceptions
        /\ \A x \in DOMAIN mapReceptions :
            /\ x \in Radios
            /\ mapReceptions[x] \in [DOMAIN mapReceptions[x] -> Nat]
            /\ DOMAIN mapReceptions[x] \subseteq (radios \union left)' /\ x \notin DOMAIN mapReceptions[x]
            /\ \E t \in 1..Len(sent) : sent[t].transmitter = x
    BY <2>2, Zenon DEF OpalInv, MapInv
  <2> QED
    BY <2>3, <2>4, Zenon DEF MapInv
<1> QED
  BY <1>4, <1>5, <1>6

LEMMA ForgetKeeps == ASSUME OpalInv, ForgetTransmission PROVE OpalInv'
<1>1. /\ transmissions # <<>> /\ transmissions' = Tail(transmissions)
      /\ UNCHANGED <<isStatic, gain, radios, left, callback, sent, reception, mapReceptions,
                     pendingTransmissions, thrown>>
  BY DEF ForgetTransmission
<1>2. transmissions \in Seq(1..Len(sent))
  BY DEF OpalInv, OpalType
<1>3. /\ transmissions' \in Seq(1..Len(sent)) /\ Len(transmissions) \in Nat
      /\ Len(transmissions') = Len(transmissions) - 1
      /\ \A i \in 1..Len(transmissions') :
            i + 1 \in 1..Len(transmissions) /\ transmissions'[i] = transmissions[i + 1]
  BY <1>1, <1>2
<1>4. OpalType'
  BY <1>1, <1>3 DEF OpalInv, OpalType
<1>5. KnownOrPending'
  BY <1>1, <1>3 DEF OpalInv, KnownOrPending
<1>6. NoPowerLeftOver' /\ ThrowsOnlyAfterRemoval'
  BY <1>1 DEF OpalInv, NoPowerLeftOver, ThrowsOnlyAfterRemoval
<1>7. ReachedInv' /\ ReceptionInv' /\ MapInv'
  BY <1>1, PowersKept
<1> QED
  BY <1>4, <1>5, <1>6, <1>7 DEF OpalInv

LEMMA AddRadioKeeps == ASSUME OpalInv, NEW r \in Radios, AddRadio(r) PROVE OpalInv'
<1>1. /\ radios' = radios \union {r} /\ callback' = [callback EXCEPT ![r] = NewCallback]
      /\ UNCHANGED <<isStatic, gain, left, sent, transmissions, reception, mapReceptions,
                     pendingTransmissions, thrown>>
  BY DEF AddRadio
<1>2. NewCallback \in Callback /\ ~NewCallback.hasReceivedPower
  BY DEF NewCallback, Callback, NoTransmission
<1>3. callback \in [Radios -> Callback] /\ \A x \in Radios : ~callback[x].hasReceivedPower
  BY DEF OpalInv, OpalType, NoPowerLeftOver
<1>4. callback' \in [Radios -> Callback] /\ \A x \in Radios : ~callback'[x].hasReceivedPower
  BY <1>1, <1>2, <1>3
<1>5. OpalType' /\ NoPowerLeftOver'
  BY <1>1, <1>4 DEF OpalInv, OpalType, NoPowerLeftOver
<1>6. KnownOrPending' /\ ThrowsOnlyAfterRemoval'
  BY <1>1 DEF OpalInv, KnownOrPending, ThrowsOnlyAfterRemoval
<1>7. ReachedInv' /\ ReceptionInv' /\ MapInv'
  BY <1>1, PowersKept
<1> QED
  BY <1>5, <1>6, <1>7 DEF OpalInv

\* A transmitter that leaves while one of its transmissions is known: the first of these is kept.
LEMMA RemoveRadioKeeps == ASSUME OpalInv, NEW r \in Radios, RemoveRadio(r) PROVE OpalInv'
<1> DEFINE own == {i \in DOMAIN transmissions : sent[transmissions[i]].transmitter = r}
           firsts == {transmissions[i] : i \in {j \in own : \A k \in own : j <= k}}
<1>1. /\ radios' = radios \ {r} /\ left' = left \union {r}
      /\ pendingTransmissions' = pendingTransmissions \union firsts
      /\ callback' = [callback EXCEPT ![r] = NewCallback]
      /\ UNCHANGED <<isStatic, gain, sent, transmissions, reception, mapReceptions, thrown>>
  BY Zenon DEF RemoveRadio
<1>2. NewCallback \in Callback /\ ~NewCallback.hasReceivedPower
  BY DEF NewCallback, Callback, NoTransmission
<1>3. callback \in [Radios -> Callback] /\ \A x \in Radios : ~callback[x].hasReceivedPower
  BY DEF OpalInv, OpalType, NoPowerLeftOver
<1>4. callback' \in [Radios -> Callback] /\ \A x \in Radios : ~callback'[x].hasReceivedPower
  BY <1>1, <1>2, <1>3
<1>5. DOMAIN transmissions = 1..Len(transmissions)
  BY DEF OpalInv, OpalType
<1>6. own # {} => firsts # {}
  <2> SUFFICES ASSUME own # {}
               PROVE  firsts # {}
    OBVIOUS
  <2>1. own \in SUBSET Nat
    BY <1>5
  <2> HIDE DEF own
  <2>2. PICK i \in own : \A k \in own : i <= k
    BY <2>1, LeastNatural
  <2> QED
    BY <2>2
<1>7. OpalType' /\ NoPowerLeftOver'
  BY <1>1, <1>4 DEF OpalInv, OpalType, NoPowerLeftOver
<1>8. KnownOrPending'
  <2> SUFFICES ASSUME NEW i \in 1..Len(transmissions),
                      sent[transmissions[i]].transmitter \notin radios'
               PROVE  pendingTransmissions' # {}
    BY <1>1 DEF KnownOrPending
  <2>1. CASE sent[transmissions[i]].transmitter \in radios
    <3>1. i \in own
      BY <1>1, <1>5, <2>1
    <3> QED
      BY <1>1, <1>6, <3>1
  <2>2. CASE sent[transmissions[i]].transmitter \notin radios
    <3>1. pendingTransmissions # {}
      BY <2>2 DEF OpalInv, KnownOrPending
    <3> HIDE DEF firsts
    <3> QED
      BY <1>1, <3>1
  <2> QED
    BY <2>1, <2>2
<1> HIDE DEF firsts
<1>9. ThrowsOnlyAfterRemoval'
  BY <1>1 DEF OpalInv, ThrowsOnlyAfterRemoval
<1>10. ReachedInv' /\ ReceptionInv' /\ MapInv'
  <2>1. radios \union left \subseteq (radios \union left)'
    BY <1>1
  <2> QED
    BY <1>1, <2>1, PowersKept
<1> QED
  BY <1>7, <1>8, <1>9, <1>10 DEF OpalInv

LEMMA PowerTypes ==
    ASSUME OpalInv, NEW u \in 1..Len(sent)
    PROVE  /\ sent[u].transmitter \in Radios /\ sent[u].power \in Powers
           /\ DOMAIN sent[u].power \subseteq Radios
           /\ \A r : PowerAt(u, r) \in Nat
           /\ Source(u) \in 1..Len(sent)
<1>1. sent \in Seq([transmitter : Radios, power : Powers])
  BY DEF OpalInv, OpalType
<1>2. sent[u].transmitter \in Radios /\ sent[u].power \in Powers
  <2> DEFINE Sent == [transmitter : Radios, power : Powers]
  <2>1. sent[u] \in Sent
    <3>1. sent \in Seq(Sent)
      BY <1>1
    <3> HIDE DEF Sent
    <3> QED
      BY <3>1
  <2> QED
    BY <2>1
<1>3. PICK S \in SUBSET Radios : sent[u].power \in [S -> Nat]
  BY <1>2 DEF Powers
<1>4. Source(u) \in 1..Len(sent)
  <2>1. FirstIn(sent, u) \in 1..Len(sent)
    BY <1>1, FirstInIsLeast
  <2> QED
    BY <2>1, Zenon DEF Source, FirstOf, FirstIn
<1> QED
  BY <1>2, <1>3, <1>4 DEF PowerAt

\* A reception asked for without a call of Opal is one of no power.
LEMMA GetReceptionKeeps ==
    ASSUME OpalInv, NEW r \in Radios, NEW t \in DOMAIN sent, GetReception(r, t)
    PROVE  OpalInv'
<1> DEFINE tx == sent[t].transmitter
<1>1. /\ DOMAIN sent = 1..Len(sent) /\ DOMAIN transmissions = 1..Len(transmissions)
      /\ t \in 1..Len(sent) /\ callback[r] \in Callback /\ ~callback[r].hasReceivedPower
  BY DEF OpalInv, OpalType, NoPowerLeftOver
<1>2. /\ r \in radios \intersect DOMAIN sent[t].power
      /\ \E i \in DOMAIN transmissions : transmissions[i] = t
      /\ reception[t][r] = NotComputed
      /\ UNCHANGED <<isStatic, gain, radios, left, sent, transmissions, pendingTransmissions>>
      /\ IF ComputeThrows(r, tx, callback[r])
         THEN thrown' = TRUE /\ UNCHANGED <<callback, reception, mapReceptions>>
         ELSE /\ reception' = [reception EXCEPT ![t][r] = PowerIn(callback[r])]
              /\ mapReceptions' = WithPowers(mapReceptions, tx, [x \in {r} |-> PowerIn(callback[r])])
              /\ callback' = [callback EXCEPT ![r] = AfterCompute(@)]
              /\ UNCHANGED thrown
  BY Zenon DEF GetReception
<1>3. PowerIn(callback[r]) = 0 /\ AfterCompute(callback[r]) = callback[r]
  BY <1>1, Zenon DEF PowerIn, AfterCompute
<1>4. PowerAt(Source(t), r) = 0
  <2>1. Source(t) \in 1..Len(sent) /\ PowerAt(Source(t), r) \in Nat
    BY <1>1, PowerTypes
  <2>2. \/ reception[t][r] = PowerAt(Source(t), r)
        \/ PowerAt(Source(t), r) = 0
    BY <1>1 DEF OpalInv, ReceptionInv
  <2> QED
    BY <1>2, <2>1, <2>2 DEF NotComputed
<1>5. CASE ComputeThrows(r, tx, callback[r])
  <2>1. tx \notin radios
    BY <1>1, <1>5 DEF ComputeThrows
  <2>2. pendingTransmissions # {}
    BY <1>1, <1>2, <2>1 DEF OpalInv, KnownOrPending
  <2>3. /\ thrown' = TRUE
        /\ UNCHANGED <<isStatic, gain, radios, left, callback, sent, transmissions, reception,
                       mapReceptions, pendingTransmissions>>
    BY <1>2, <1>5
  <2>4. OpalType' /\ NoPowerLeftOver' /\ KnownOrPending' /\ ThrowsOnlyAfterRemoval'
    BY <2>2, <2>3 DEF OpalInv, OpalType, NoPowerLeftOver, KnownOrPending, ThrowsOnlyAfterRemoval
  <2>5. ReachedInv' /\ ReceptionInv' /\ MapInv'
    BY <2>3, PowersKept
  <2> QED
    BY <2>4, <2>5 DEF OpalInv
<1>6. CASE ~ComputeThrows(r, tx, callback[r])
  <2>1. /\ reception' = [reception EXCEPT ![t][r] = 0]
        /\ mapReceptions' = WithPowers(mapReceptions, tx, [x \in {r} |-> 0])
        /\ UNCHANGED <<isStatic, gain, radios, left, callback, sent, transmissions,
                       pendingTransmissions, thrown>>
    <3>1. callback \in [Radios -> Callback]
      BY DEF OpalInv, OpalType
    <3>2. callback' = [callback EXCEPT ![r] = AfterCompute(callback[r])]
      BY <1>2, <1>6, Zenon
    <3>3. callback' = callback
      BY <1>3, <3>1, <3>2
    <3> QED
      BY <1>2, <1>3, <1>6, <3>3
  <2>2. reception \in Seq([Radios -> Nat \union {NotComputed}]) /\ Len(reception) = Len(sent)
    BY DEF OpalInv, OpalType
  <2>3. /\ reception' \in Seq([Radios -> Nat \union {NotComputed}]) /\ Len(reception') = Len(sent)
        /\ \A u \in 1..Len(sent), x \in Radios :
              reception'[u][x] = IF u = t /\ x = r THEN 0 ELSE reception[u][x]
    BY <1>1, <2>1, <2>2
  <2>4. OpalType'
    BY <2>1, <2>3 DEF OpalInv, OpalType
  <2>5. NoPowerLeftOver' /\ KnownOrPending' /\ ThrowsOnlyAfterRemoval' /\ ReachedInv'
    BY <2>1 DEF OpalInv, NoPowerLeftOver, KnownOrPending, ThrowsOnlyAfterRemoval, ReachedInv
  <2>6. \A u, x : PowerAt(u, x)' = PowerAt(u, x)
    BY <2>1, Zenon DEF PowerAt
  <2>7. \A u : FirstOf(u)' = FirstOf(u)
    BY <2>1, Zenon DEF FirstOf
  <2>8. \A u : Source(u)' = Source(u)
    BY <2>1, <2>7, Zenon DEF Source
  <2>9. \A u, x : /\ PowerAt(Source(u), x)' = PowerAt(Source(u), x)
                 /\ PowerAt(FirstOf(u), x)' = PowerAt(FirstOf(u), x)
    BY <2>1, <2>7, <2>8, Zenon DEF PowerAt
  <2>10. ReceptionInv'
    <3> SUFFICES ASSUME NEW u \in 1..Len(sent), NEW x \in Radios
                 PROVE  \/ reception'[u][x] = PowerAt(Source(u), x)'
                        \/ reception'[u][x] = NotComputed /\ PowerAt(Source(u), x)' = 0
      BY <2>1, Zenon DEF ReceptionInv
    <3>1. \/ reception[u][x] = PowerAt(Source(u), x)
          \/ reception[u][x] = NotComputed /\ PowerAt(Source(u), x) = 0
      BY DEF OpalInv, ReceptionInv
    <3> QED
      BY <1>4, <2>3, <2>9, <3>1, ZenonT(30)
  <2>11. MapInv'
    <3> SUFFICES ASSUME isStatic
                 PROVE  MapInv'
      BY <2>1 DEF MapInv
    <3>1. tx \in DOMAIN mapReceptions /\ r \in radios /\ r # tx /\ tx \in Radios
      BY <1>1, <1>2, PowerTypes DEF OpalInv, MapInv, ReachedInv
    <3> DEFINE known == mapReceptions[tx]
               found == [x \in {r} |-> 0]
    <3>2. mapReceptions' = [mapReceptions EXCEPT ![tx] = Completed(known, found)]
      BY <2>1, <3>1, Zenon DEF WithPowers
    <3>3. /\ DOMAIN mapReceptions' = DOMAIN mapReceptions
          /\ mapReceptions'[tx] = Completed(known, found)
          /\ \A x \in DOMAIN mapReceptions : x # tx => mapReceptions'[x] = mapReceptions[x]
      BY <3>1, <3>2
    <3>4. /\ known \in [DOMAIN known -> Nat] /\ DOMAIN known \subseteq radios \union left
          /\ tx \notin DOMAIN known
      BY <3>1 DEF OpalInv, MapInv
    <3>5. /\ DOMAIN Completed(known, found) = DOMAIN known \union {r}
          /\ \A x \in DOMAIN known \union {r} :
                Completed(known, found)[x] = IF x \in DOMAIN known THEN known[x] ELSE 0
          /\ Completed(known, found) \in [DOMAIN known \union {r} -> Nat]
      BY <3>4 DEF Completed
    <3> HIDE DEF known, found
    <3>6. ASSUME NEW x \in DOMAIN mapReceptions'
          PROVE  /\ x \in Radios
                 /\ mapReceptions'[x] \in [DOMAIN mapReceptions'[x] -> Nat]
                 /\ DOMAIN mapReceptions'[x] \subseteq radios \union left /\ x \notin DOMAIN mapReceptions'[x]
                 /\ \E u \in 1..Len(sent) : sent[u].transmitter = x
      <4>1. CASE x = tx
        BY <1>1, <3>1, <3>3, <3>4, <3>5, <4>1
      <4>2. CASE x # tx
        BY <3>3, <4>2 DEF OpalInv, MapInv
      <4> QED
        BY <4>1, <4>2
    <3>7. ASSUME NEW u \in 1..Len(sent), NEW x \in Radios
          PROVE  LET all == mapReceptions'[sent[u].transmitter] IN
                 IF x \in DOMAIN all THEN all[x] = PowerAt(FirstOf(u), x) ELSE PowerAt(FirstOf(u), x) = 0
      <4>1. LET all == mapReceptions[sent[u].transmitter] IN
            IF x \in DOMAIN all THEN all[x] = PowerAt(FirstOf(u), x) ELSE PowerAt(FirstOf(u), x) = 0
        BY Zenon DEF OpalInv, MapInv
      <4>2. sent[u].transmitter \in DOMAIN mapReceptions
        BY DEF OpalInv, MapInv
      <4>3. CASE sent[u].transmitter = tx
        <5>1. IF x \in DOMAIN known THEN known[x] = PowerAt(FirstOf(u), x) ELSE PowerAt(FirstOf(u), x) = 0
          BY <4>1, <4>3, Zenon DEF known
        <5>2. mapReceptions'[sent[u].transmitter] = Completed(known, found)
          BY <3>3, <4>3, Zenon
        <5> HIDE DEF tx
        <5> QED
          BY <3>5, <5>1, <5>2
      <4>4. CASE sent[u].transmitter # tx
        BY <3>3, <4>1, <4>2, <4>4, Zenon
      <4> QED
        BY <4>3, <4>4
    <3>8. \A u \in 1..Len(sent) : sent[u].transmitter \in DOMAIN mapReceptions'
      BY <3>3 DEF OpalInv, MapInv
    <3>9. \A u \in 1..Len(sent), x \in Radios :
            LET all == mapReceptions'[sent[u].transmitter] IN
            IF x \in DOMAIN all THEN all[x] = PowerAt(FirstOf(u), x)' ELSE PowerAt(FirstOf(u), x)' = 0
      BY <2>9, <3>7, Zenon
    <3> QED
      BY <2>1, <3>6, <3>8, <3>9, Zenon DEF MapInv
  <2> QED
    BY <2>4, <2>5, <2>10, <2>11 DEF OpalInv
<1> QED
  BY <1>5, <1>6

LEMMA PowersOfTypes ==
    ASSUME OpalInv, NEW tx \in radios, NEW tp \in TransmissionPowers, NEW power \in PowersOf(tx, tp)
    PROVE  power \in [radios \ {tx} -> Nat]
<1>1. tp \in Nat /\ radios \subseteq Radios
  BY DEF OpalInv, OpalType
<1>2. \A g \in Nat : tp * g \in Nat
  BY <1>1
<1>3. CASE isStatic
  <2>1. gain \in [Radios -> [Radios -> Nat]]
    BY <1>3 DEF OpalInv, OpalType
  <2>2. power = [r \in radios \ {tx} |-> tp * gain[tx][r]]
    BY <1>3 DEF PowersOf
  <2>3. \A r \in radios \ {tx} : gain[tx][r] \in Nat
    BY <1>1, <2>1
  <2> QED
    BY <1>2, <2>2, <2>3
<1>4. CASE ~isStatic
  <2>1. PICK g \in [radios \ {tx} -> Gains] : power = [r \in radios \ {tx} |-> tp * g[r]]
    BY <1>4 DEF PowersOf
  <2>2. \A r \in radios \ {tx} : g[r] \in Nat
    OBVIOUS
  <2> QED
    BY <1>2, <2>1, <2>2
<1> QED
  BY <1>3, <1>4

\* A frame that every callback could take.
LEMMA FrameKeeps ==
    ASSUME OpalInv, NEW n \in Nat, n = Len(sent), NEW tx \in radios, NEW power \in [radios \ {tx} -> Nat],
           UNCHANGED <<isStatic, gain, radios, left, pendingTransmissions>>,
           Called(Used(tx, power)) \subseteq radios \ {tx},
           sent' = Append(sent, [transmitter |-> tx, power |-> power]),
           transmissions' = Append(transmissions, n + 1),
           callback' \in [Radios -> Callback],
           \A r \in Radios : ~callback'[r].hasReceivedPower,
           reception' = [u \in 1..(n + 1) |-> [r \in Radios |->
                IF u = n + 1
                THEN IF r \in Called(Used(tx, power)) THEN Used(tx, power)[r] ELSE NotComputed
                ELSE reception[u][r]]],
           mapReceptions' =
                IF isStatic
                THEN WithPowers(WithEntry(mapReceptions, tx), tx,
                                [r \in Called(Used(tx, power)) |-> Used(tx, power)[r]])
                ELSE mapReceptions,
           UNCHANGED thrown
    PROVE  OpalInv'
<1> DEFINE Sent == [transmitter : Radios, power : Powers]
           frame == [transmitter |-> tx, power |-> power]
           used == Used(tx, power)
           called == Called(used)
<1>1. /\ radios \subseteq Radios /\ left \subseteq Radios /\ tx \in Radios
      /\ sent \in Seq(Sent) /\ transmissions \in Seq(1..n) /\ n \in Nat
      /\ reception \in Seq([Radios -> Nat \union {NotComputed}]) /\ Len(reception) = n
  BY DEF OpalInv, OpalType
<1>2. frame \in Sent /\ frame.transmitter = tx /\ frame.power = power
  BY <1>1 DEF Powers
<1> HIDE DEF Sent, frame
<1>3. /\ sent' \in Seq(Sent) /\ Len(sent') = n + 1 /\ sent'[n + 1] = frame
      /\ \A u \in 1..n : sent'[u] = sent[u]
      /\ \A u \in 1..(n + 1) : u \in 1..n \/ u = n + 1
      /\ n + 1 \notin 1..n
  BY <1>1, <1>2 DEF frame
<1>4. used \in [DOMAIN used -> Nat] /\ called = {r \in DOMAIN used : used[r] # 0}
  <2>1. CASE isStatic /\ tx \in DOMAIN mapReceptions
    <3>1. used = mapReceptions[tx]
      BY <2>1 DEF Used
    <3> QED
      BY <2>1, <3>1 DEF OpalInv, MapInv, Called
  <2>2. CASE ~(isStatic /\ tx \in DOMAIN mapReceptions)
    <3>1. used = power
      BY <2>2 DEF Used
    <3> QED
      BY <3>1 DEF Called
  <2> QED
    BY <2>1, <2>2
<1> HIDE DEF used, called
<1>5. /\ reception' = [u \in 1..(n + 1) |-> [r \in Radios |->
                         IF u = n + 1 THEN IF r \in called THEN used[r] ELSE NotComputed
                         ELSE reception[u][r]]]
      /\ transmissions' = Append(transmissions, n + 1)
      /\ called \subseteq radios \ {tx}
      /\ mapReceptions' =
            IF isStatic THEN WithPowers(WithEntry(mapReceptions, tx), tx, [r \in called |-> used[r]])
            ELSE mapReceptions
  BY Zenon DEF called, used
<1>6. /\ reception' \in Seq([Radios -> Nat \union {NotComputed}]) /\ Len(reception') = n + 1
      /\ \A u \in 1..n, r \in Radios : reception'[u][r] = reception[u][r]
      /\ \A r \in Radios : reception'[n + 1][r] = IF r \in called THEN used[r] ELSE NotComputed
  <2>1. \A r \in called : used[r] \in Nat
    BY <1>4
  <2>2. \A u \in 1..n : reception[u] \in [Radios -> Nat \union {NotComputed}]
    BY <1>1
  <2>3. \A u \in 1..(n + 1) : reception'[u] \in [Radios -> Nat \union {NotComputed}]
    <3> SUFFICES ASSUME NEW u \in 1..(n + 1)
                 PROVE  reception'[u] \in [Radios -> Nat \union {NotComputed}]
      OBVIOUS
    <3>1. CASE u \in 1..n
      <4>1. u # n + 1
        BY <1>3, <3>1
      <4>2. reception'[u] = [r \in Radios |-> reception[u][r]]
        BY <1>5, <4>1
      <4> QED
        BY <2>2, <3>1, <4>2
    <3>2. CASE u = n + 1
      <4>1. reception'[u] = [r \in Radios |-> IF r \in called THEN used[r] ELSE NotComputed]
        BY <1>5, <3>2
      <4> QED
        BY <2>1, <4>1
    <3> QED
      BY <1>3, <3>1, <3>2
  <2>4. reception' \in [1..(n + 1) -> [Radios -> Nat \union {NotComputed}]]
    BY <1>5, <2>3
  <2>5. n + 1 \in Nat
    BY <1>1
  <2> DEFINE Row == [Radios -> Nat \union {NotComputed}]
  <2> HIDE DEF Row
  <2>6. reception' \in Seq(Row) /\ Len(reception') = n + 1
    <3>1. reception' \in [1..(n + 1) -> Row]
      BY <2>4 DEF Row
    <3> SUFFICES ASSUME NEW f \in [1..(n + 1) -> Row]
                 PROVE  f \in Seq(Row) /\ Len(f) = n + 1
      BY <3>1
    <3> QED
      BY <2>5, FunctionIsSequence, Zenon
  <2> QED
    BY <1>3, <1>5, <2>6 DEF Row
<1>7. OpalType'
  <2>1. transmissions' \in Seq(1..(n + 1))
    <3>1. transmissions \in Seq(1..(n + 1))
      <4>1. 1..n \subseteq 1..(n + 1)
        BY <1>1
      <4> QED
        BY <1>1, <4>1
    <3> QED
      BY <1>1, <1>5, <3>1
  <2> QED
    BY <1>3, <1>6, <2>1 DEF OpalInv, OpalType, Sent
<1>8. NoPowerLeftOver' /\ ThrowsOnlyAfterRemoval'
  BY DEF OpalInv, NoPowerLeftOver, ThrowsOnlyAfterRemoval
<1>9. KnownOrPending'
  <2> SUFFICES ASSUME NEW i \in 1..Len(transmissions')
               PROVE  sent'[transmissions'[i]].transmitter \in radios \/ pendingTransmissions # {}
    BY DEF KnownOrPending
  <2>1. CASE i \in 1..Len(transmissions)
    <3>1. transmissions'[i] = transmissions[i] /\ transmissions[i] \in 1..n
      BY <1>1, <1>5, <2>1
    <3>2. sent'[transmissions'[i]] = sent[transmissions[i]]
      BY <1>3, <3>1
    <3> QED
      BY <2>1, <3>2 DEF OpalInv, KnownOrPending
  <2>2. CASE i \notin 1..Len(transmissions)
    <3>1. transmissions'[i] = n + 1
      BY <1>1, <1>5, <2>2
    <3> QED
      BY <1>2, <1>3, <3>1
  <2> QED
    BY <2>1, <2>2
<1>10. ReachedInv'
  <2> SUFFICES ASSUME NEW t \in 1..(n + 1)
               PROVE  /\ DOMAIN sent'[t].power \subseteq radios \union left
                      /\ sent'[t].transmitter \notin DOMAIN sent'[t].power
    BY <1>3 DEF ReachedInv
  <2>1. CASE t \in 1..n
    BY <1>3, <2>1 DEF OpalInv, ReachedInv
  <2>2. CASE t = n + 1
    BY <1>2, <1>3, <2>2
  <2> QED
    BY <1>3, <2>1, <2>2
\* What the new transmission and the old ones get.
<1>11. /\ \A u \in 1..n : \A r : PowerAt(u, r)' = PowerAt(u, r)
       /\ \A r : PowerAt(n + 1, r)' = IF r \in DOMAIN power THEN power[r] ELSE 0
  BY <1>2, <1>3 DEF PowerAt
<1>12. /\ \A t \in 1..n : FirstOf(t)' = FirstOf(t) /\ FirstOf(t) \in 1..n
       /\ \A v \in 1..n : sent[v].transmitter = tx => FirstOf(n + 1)' = FirstOf(v)
       /\ (\A v \in 1..n : sent[v].transmitter # tx) => FirstOf(n + 1)' = n + 1
  <2>1. /\ \A t : FirstOf(t)' = FirstIn(Append(sent, frame), t)
        /\ \A t : FirstOf(t) = FirstIn(sent, t)
    BY Zenon DEF FirstOf, FirstIn, frame
  <2>2. \A t \in 1..n : FirstIn(sent, t) \in 1..n
    BY <1>1, FirstInIsLeast
  <2>3. /\ \A t \in 1..n : FirstIn(Append(sent, frame), t) = FirstIn(sent, t)
        /\ \A v \in 1..n :
             sent[v].transmitter = frame.transmitter => FirstIn(Append(sent, frame), n + 1) = FirstIn(sent, v)
        /\ (\A v \in 1..n : sent[v].transmitter # frame.transmitter)
           => FirstIn(Append(sent, frame), n + 1) = n + 1
    <3>1. sent \in Seq(Sent) /\ frame \in Sent
      BY <1>1, <1>2
    <3> HIDE DEF Sent
    <3>2. /\ \A t \in 1..Len(sent) : FirstIn(Append(sent, frame), t) = FirstIn(sent, t)
          /\ \A v \in 1..Len(sent) :
               sent[v].transmitter = frame.transmitter
               => FirstIn(Append(sent, frame), Len(sent) + 1) = FirstIn(sent, v)
          /\ (\A v \in 1..Len(sent) : sent[v].transmitter # frame.transmitter)
             => FirstIn(Append(sent, frame), Len(sent) + 1) = Len(sent) + 1
      BY <3>1, FirstAfterAppend, Zenon
    <3> QED
      BY <3>2
  <2> QED
    BY <1>2, <2>1, <2>2, <2>3, Zenon
<1>13. ASSUME NEW t \in 1..n, NEW r
       PROVE  /\ PowerAt(FirstOf(t), r)' = PowerAt(FirstOf(t), r)
              /\ PowerAt(Source(t), r)' = PowerAt(Source(t), r)
  <2>1. FirstOf(t)' = FirstOf(t) /\ FirstOf(t) \in 1..n
    BY <1>12
  <2>2. Source(t)' = Source(t) /\ Source(t) \in 1..n
    BY <2>1, Zenon DEF Source
  <2>3. sent'[FirstOf(t)] = sent[FirstOf(t)] /\ sent'[Source(t)] = sent[Source(t)]
    BY <1>3, <2>1, <2>2
  <2> QED
    BY <2>1, <2>2, <2>3, Zenon DEF PowerAt
\* What is computed of the new transmission is the power of its source.
<1>14. ASSUME NEW r \in Radios
       PROVE  \/ r \in called /\ used[r] = PowerAt(Source(n + 1), r)'
              \/ r \notin called /\ PowerAt(Source(n + 1), r)' = 0
  <2>1. CASE ~(isStatic /\ tx \in DOMAIN mapReceptions)
    <3>1. used = power
      BY <2>1 DEF Used, used
    <3>2. Source(n + 1)' = n + 1
      <4>1. CASE ~isStatic
        BY <4>1, Zenon DEF Source
      <4>2. CASE isStatic
        <5>1. \A v \in 1..n : sent[v].transmitter # tx
          BY <2>1, <4>2 DEF OpalInv, MapInv
        <5> QED
          BY <1>12, <4>2, <5>1, Zenon DEF Source
      <4> QED
        BY <4>1, <4>2
    <3>3. PowerAt(Source(n + 1), r)' = IF r \in DOMAIN power THEN power[r] ELSE 0
      BY <1>2, <1>3, <3>2, Zenon DEF PowerAt
    <3> QED
      BY <1>4, <3>1, <3>3
  <2>2. CASE isStatic /\ tx \in DOMAIN mapReceptions
    <3>1. used = mapReceptions[tx]
      BY <2>2 DEF Used, used
    <3>2. PICK v \in 1..n : sent[v].transmitter = tx
      BY <2>2 DEF OpalInv, MapInv
    <3>3. IF r \in DOMAIN used THEN used[r] = PowerAt(FirstOf(v), r) ELSE PowerAt(FirstOf(v), r) = 0
      BY <2>2, <3>1, <3>2, Zenon DEF OpalInv, MapInv
    <3>4. Source(n + 1)' = FirstOf(v) /\ FirstOf(v) \in 1..n
      BY <1>12, <2>2, <3>2, Zenon DEF Source
    <3>5. sent'[FirstOf(v)] = sent[FirstOf(v)]
      BY <1>3, <3>4
    <3>6. PowerAt(Source(n + 1), r)' = PowerAt(FirstOf(v), r)
      BY <3>4, <3>5, Zenon DEF PowerAt
    <3> QED
      BY <1>4, <3>3, <3>6
  <2> QED
    BY <2>1, <2>2
<1>15. ReceptionInv'
  <2> SUFFICES ASSUME NEW t \in 1..(n + 1), NEW r \in Radios
               PROVE  \/ reception'[t][r] = PowerAt(Source(t), r)'
                      \/ reception'[t][r] = NotComputed /\ PowerAt(Source(t), r)' = 0
    BY <1>3, Zenon DEF ReceptionInv
  <2>1. CASE t \in 1..n
    <3>1. \/ reception[t][r] = PowerAt(Source(t), r)
          \/ reception[t][r] = NotComputed /\ PowerAt(Source(t), r) = 0
      BY <2>1 DEF OpalInv, ReceptionInv
    <3>2. reception'[t][r] = reception[t][r] /\ PowerAt(Source(t), r)' = PowerAt(Source(t), r)
      BY <1>6, <1>13, <2>1
    <3> QED
      BY <3>1, <3>2, Zenon
  <2>2. CASE t = n + 1
    <3>1. reception'[n + 1][r] = IF r \in called THEN used[r] ELSE NotComputed
      BY <1>6
    <3>2. \/ reception'[n + 1][r] = PowerAt(Source(n + 1), r)'
          \/ reception'[n + 1][r] = NotComputed /\ PowerAt(Source(n + 1), r)' = 0
      BY <1>14, <3>1, Zenon
    <3>3. Source(t)' = Source(n + 1)'
      BY <2>2, Zenon
    <3>4. PowerAt(Source(t), r)' = PowerAt(Source(n + 1), r)'
      BY <3>3, Zenon DEF PowerAt
    <3> QED
      BY <2>2, <3>2, <3>4, Zenon
  <2> QED
    BY <1>3, <2>1, <2>2
<1>16. MapInv'
  <2> SUFFICES ASSUME isStatic
               PROVE  MapInv'
    BY DEF MapInv
  <2>1. /\ DOMAIN mapReceptions' = DOMAIN mapReceptions \union {tx}
        /\ \A x \in DOMAIN mapReceptions : x # tx => mapReceptions'[x] = mapReceptions[x]
        /\ mapReceptions'[tx] = IF tx \in DOMAIN mapReceptions THEN mapReceptions[tx]
                                ELSE [r \in called |-> used[r]]
    <3>1. tx \in DOMAIN mapReceptions =>
            mapReceptions[tx] \in [DOMAIN mapReceptions[tx] -> Nat] /\ called \subseteq DOMAIN mapReceptions[tx]
      BY <1>4 DEF OpalInv, MapInv, Used, used
    <3>2. mapReceptions' = WithPowers(WithEntry(mapReceptions, tx), tx, [r \in called |-> used[r]])
      BY <1>5
    <3> DEFINE found == [r \in called |-> used[r]]
    <3>3. DOMAIN found = called
      OBVIOUS
    <3>5. found \in [DOMAIN found -> Nat]
      BY <1>4
    <3>6. isStatic
      OBVIOUS
    <3> HIDE DEF found
    <3>4. /\ DOMAIN WithPowers(WithEntry(mapReceptions, tx), tx, found) = DOMAIN mapReceptions \union {tx}
          /\ \A x \in DOMAIN mapReceptions :
                x # tx => WithPowers(WithEntry(mapReceptions, tx), tx, found)[x] = mapReceptions[x]
          /\ WithPowers(WithEntry(mapReceptions, tx), tx, found)[tx] =
                IF tx \in DOMAIN mapReceptions THEN mapReceptions[tx] ELSE found
      <4> DEFINE entered == WithEntry(mapReceptions, tx)
      <4>1. /\ DOMAIN entered = DOMAIN mapReceptions \union {tx}
            /\ \A x \in DOMAIN mapReceptions : entered[x] = mapReceptions[x]
            /\ tx \notin DOMAIN mapReceptions => entered[tx] = NoPowers
        BY DEF WithEntry, Completed
      <4>2. WithPowers(entered, tx, found) = [entered EXCEPT ![tx] = Completed(entered[tx], found)]
        BY <3>6, <4>1, Zenon DEF WithPowers
      <4> HIDE DEF entered
      <4>3. Completed(entered[tx], found) = IF tx \in DOMAIN mapReceptions THEN mapReceptions[tx] ELSE found
        <5>1. CASE tx \in DOMAIN mapReceptions
          <6>1. /\ entered[tx] = mapReceptions[tx]
                /\ mapReceptions[tx] \in [DOMAIN mapReceptions[tx] -> Nat]
                /\ DOMAIN found \subseteq DOMAIN mapReceptions[tx]
            BY <3>1, <3>3, <4>1, <5>1
          <6>2. Completed(mapReceptions[tx], found) = [r \in DOMAIN mapReceptions[tx] |-> mapReceptions[tx][r]]
            BY <6>1 DEF Completed
          <6> QED
            BY <5>1, <6>1, <6>2
        <5>2. CASE tx \notin DOMAIN mapReceptions
          <6>1. entered[tx] = NoPowers /\ DOMAIN NoPowers = {}
            BY <4>1, <5>2 DEF NoPowers
          <6>2. Completed(NoPowers, found) = [r \in DOMAIN found |-> found[r]]
            BY <6>1 DEF Completed
          <6> QED
            BY <3>5, <5>2, <6>1, <6>2
        <5> QED
          BY <5>1, <5>2
      <4>4. /\ DOMAIN WithPowers(entered, tx, found) = DOMAIN mapReceptions \union {tx}
            /\ \A x \in DOMAIN mapReceptions : x # tx => WithPowers(entered, tx, found)[x] = mapReceptions[x]
            /\ WithPowers(entered, tx, found)[tx] = IF tx \in DOMAIN mapReceptions THEN mapReceptions[tx] ELSE found
        BY <4>1, <4>2, <4>3
      <4> QED
        BY <4>4 DEF entered
    <3> QED
      BY <3>2, <3>4, Zenon DEF found
  <2>2. ASSUME NEW x \in DOMAIN mapReceptions'
        PROVE  /\ x \in Radios
               /\ mapReceptions'[x] \in [DOMAIN mapReceptions'[x] -> Nat]
               /\ DOMAIN mapReceptions'[x] \subseteq radios \union left /\ x \notin DOMAIN mapReceptions'[x]
               /\ \E t \in 1..Len(sent') : sent'[t].transmitter = x
    <3>1. CASE x \in DOMAIN mapReceptions
      <4>1. mapReceptions'[x] = mapReceptions[x]
        BY <2>1, <3>1
      <4>2. PICK t \in 1..n : sent[t].transmitter = x
        BY <3>1 DEF OpalInv, MapInv
      <4>3. t \in 1..Len(sent') /\ sent'[t].transmitter = x
        BY <1>1, <1>3, <4>2
      <4> QED
        BY <3>1, <4>1, <4>3 DEF OpalInv, MapInv
    <3>2. CASE x \notin DOMAIN mapReceptions
      <4>1. x = tx /\ mapReceptions'[x] = [r \in called |-> used[r]]
        BY <2>1, <3>2
      <4>2. n + 1 \in 1..Len(sent') /\ sent'[n + 1].transmitter = x
        BY <1>1, <1>2, <1>3, <4>1
      <4>3. \A r \in called : used[r] \in Nat
        BY <1>4
      <4> QED
        BY <1>1, <1>5, <4>1, <4>2, <4>3
    <3> QED
      BY <3>1, <3>2
  <2>3. ASSUME NEW t \in 1..Len(sent')
        PROVE  sent'[t].transmitter \in DOMAIN mapReceptions'
    BY <1>2, <1>3, <2>1 DEF OpalInv, MapInv
  <2>4. ASSUME NEW t \in 1..Len(sent'), NEW r \in Radios
        PROVE  LET found == mapReceptions'[sent'[t].transmitter] IN
               IF r \in DOMAIN found THEN found[r] = PowerAt(FirstOf(t), r)' ELSE PowerAt(FirstOf(t), r)' = 0
    <3>1. CASE t \in 1..n
      <4>1. sent'[t].transmitter = sent[t].transmitter /\ sent[t].transmitter \in DOMAIN mapReceptions
        BY <1>3, <3>1 DEF OpalInv, MapInv
      <4>2. mapReceptions'[sent'[t].transmitter] = mapReceptions[sent[t].transmitter]
        BY <2>1, <4>1
      <4>3. LET found == mapReceptions[sent[t].transmitter] IN
            IF r \in DOMAIN found THEN found[r] = PowerAt(FirstOf(t), r) ELSE PowerAt(FirstOf(t), r) = 0
        BY <3>1, Zenon DEF OpalInv, MapInv
      <4>4. PowerAt(FirstOf(t), r)' = PowerAt(FirstOf(t), r)
        BY <1>13, <3>1
      <4> QED
        BY <4>2, <4>3, <4>4, Zenon
    <3>2. CASE t = n + 1
      <4>1. Source(n + 1)' = FirstOf(n + 1)' /\ FirstOf(t)' = FirstOf(n + 1)'
        BY <3>2, Zenon DEF Source
      <4>2. PowerAt(FirstOf(t), r)' = PowerAt(Source(n + 1), r)'
        BY <4>1, Zenon DEF PowerAt
      <4>3. sent'[t].transmitter = tx
        BY <1>2, <1>3, <3>2
      <4>4. CASE tx \in DOMAIN mapReceptions
        <5>1. mapReceptions'[tx] = used
          BY <2>1, <4>4 DEF Used, used
        <5>2. IF r \in DOMAIN used THEN used[r] = PowerAt(Source(n + 1), r)' ELSE PowerAt(Source(n + 1), r)' = 0
          BY <1>4, <1>14
        <5> QED
          BY <4>2, <4>3, <5>1, <5>2, Zenon
      <4>5. CASE tx \notin DOMAIN mapReceptions
        <5>1. mapReceptions'[tx] = [x \in called |-> used[x]]
          BY <2>1, <4>5
        <5>2. /\ DOMAIN mapReceptions'[tx] = called
              /\ r \in called => mapReceptions'[tx][r] = used[r]
          BY <5>1
        <5> QED
          BY <1>14, <4>2, <4>3, <5>2, Zenon
      <4> QED
        BY <4>4, <4>5
    <3> QED
      BY <1>3, <3>1, <3>2
  <2>5. radios' = radios /\ left' = left
    BY <1>3
  <2> QED
    BY <2>2, <2>3, <2>4, <2>5, Zenon DEF MapInv
<1> QED
  BY <1>7, <1>8, <1>9, <1>10, <1>15, <1>16 DEF OpalInv

\* A frame is on its way, or a callback names a radio that is gone and the simulation stops.
LEMMA TransmitKeeps ==
    ASSUME radioModeFilter = FALSE, OpalInv, NEW tx \in Radios, Transmit(tx)
    PROVE  OpalInv'
<1>1. PICK tp \in TransmissionPowers : \E power \in PowersOf(tx, tp) :
        TransmitPacket(tx, power, radios \ {tx})
  BY Zenon DEF Transmit
<1>2. PICK power \in PowersOf(tx, tp) : TransmitPacket(tx, power, radios \ {tx})
  BY <1>1
<1>3. tx \in radios /\ UNCHANGED <<isStatic, gain, radios, left, pendingTransmissions>>
  BY DEF Transmit
<1>4. power \in [radios \ {tx} -> Nat]
  BY <1>3, PowersOfTypes
<1>5. CASE /\ ~(Called(Used(tx, power)) \subseteq radios)
           /\ thrown' = TRUE /\ UNCHANGED <<callback, sent, transmissions, reception, mapReceptions>>
  <2>1. isStatic /\ tx \in DOMAIN mapReceptions
    BY <1>4, <1>5 DEF Used, Called
  <2>2. DOMAIN mapReceptions[tx] \subseteq radios \union left
    BY <2>1 DEF OpalInv, MapInv
  <2>3. left # {}
    BY <1>5, <2>1, <2>2 DEF Used, Called
  <2>4. OpalType'
    BY <1>3, <1>5 DEF OpalInv, OpalType
  <2>5. NoPowerLeftOver' /\ KnownOrPending' /\ ThrowsOnlyAfterRemoval'
    BY <1>3, <1>5, <2>1, <2>3 DEF OpalInv, NoPowerLeftOver, KnownOrPending, ThrowsOnlyAfterRemoval
  <2>6. ReachedInv' /\ ReceptionInv' /\ MapInv'
    BY <1>3, <1>5, PowersKept
  <2> QED
    BY <2>4, <2>5, <2>6 DEF OpalInv
<1>6. CASE ~ (/\ ~(Called(Used(tx, power)) \subseteq radios)
              /\ thrown' = TRUE /\ UNCHANGED <<callback, sent, transmissions, reception, mapReceptions>>)
  <2> DEFINE used == Used(tx, power)
  <2>1. /\ Called(used) \subseteq radios \ {tx}
        /\ sent' = Append(sent, [transmitter |-> tx, power |-> power])
        /\ transmissions' = Append(transmissions, Len(sent) + 1)
        /\ callback' \in [Radios -> Callback]
        /\ \A r \in Radios : ~callback'[r].hasReceivedPower
        /\ reception' = [u \in 1..(Len(sent) + 1) |-> [r \in Radios |->
                            IF u = Len(sent) + 1 THEN IF r \in Called(used) THEN used[r] ELSE NotComputed
                            ELSE reception[u][r]]]
        /\ mapReceptions' =
              IF isStatic
              THEN WithPowers(WithEntry(mapReceptions, tx), tx, [r \in Called(used) |-> used[r]])
              ELSE mapReceptions
        /\ UNCHANGED thrown
    BY <1>2, <1>3, <1>4, <1>6, TransmitSteps, Zenon
  <2>2. PICK n \in Nat : n = Len(sent)
    BY DEF OpalInv, OpalType
  <2> QED
    BY <1>3, <1>4, <2>1, <2>2, FrameKeeps, Zenon
<1> QED
  BY <1>5, <1>6

LEMMA OpalStep == ASSUME radioModeFilter = FALSE, OpalInv, [Next]_vars PROVE OpalInv'
<1>1. CASE \E r \in Radios : Transmit(r) \/ AddRadio(r) \/ RemoveRadio(r)
  BY <1>1, TransmitKeeps, AddRadioKeeps, RemoveRadioKeeps
<1>2. CASE \E r \in Radios, t \in DOMAIN sent : GetReception(r, t)
  BY <1>2, GetReceptionKeeps
<1>3. CASE ForgetTransmission
  BY <1>3, ForgetKeeps
<1>4. CASE UNCHANGED vars
  <2>1. UNCHANGED <<isStatic, gain, radios, left, callback, sent, transmissions, reception,
                    mapReceptions, pendingTransmissions, thrown>>
    BY <1>4 DEF vars
  <2>2. OpalType'
    BY <2>1 DEF OpalInv, OpalType
  <2>3. NoPowerLeftOver' /\ KnownOrPending' /\ ThrowsOnlyAfterRemoval'
    BY <2>1 DEF OpalInv, NoPowerLeftOver, KnownOrPending, ThrowsOnlyAfterRemoval
  <2>4. ReachedInv' /\ ReceptionInv' /\ MapInv'
    BY <2>1, PowersKept
  <2> QED
    BY <2>2, <2>3, <2>4 DEF OpalInv
<1> QED
  BY <1>1, <1>2, <1>3, <1>4 DEF Next

-----------------------------------------------------------------------------
(***************************************************************************)
(* If the medium tells every radio of a transmission, opalComputeReception *)
(* and the callbacks throw none of their errors, and no callback of a      *)
(* radio that is gone is called, until a radio has left with a             *)
(* transmission of its own still known, or any radio in static mode.       *)
(***************************************************************************)
THEOREM ThrowsAfterRemovalOnly ==
    ASSUME radioModeFilter = FALSE
    PROVE  Spec => []ThrowsOnlyAfterRemoval
<1>1. OpalInv => ThrowsOnlyAfterRemoval
  BY DEF OpalInv
<1>2. OpalInv /\ [Next]_vars => OpalInv'
  BY OpalStep
<1> QED
  BY OpalInitial, <1>1, <1>2, PTL DEF Spec

(***************************************************************************)
(* Under the same condition createReception stores in every reception the  *)
(* power that Opal computed for its own transmission (in static mode for   *)
(* the first frame of its transmitter) at its own receiver, whoever asked  *)
(* for it first and however many transmissions overlap.                    *)
(***************************************************************************)
THEOREM ReceptionsHaveTheirPower ==
    ASSUME radioModeFilter = FALSE
    PROVE  Spec => []ReceptionHasItsPower
<1>1. OpalInv => ReceptionHasItsPower
  <2> SUFFICES ASSUME OpalInv, NEW t \in DOMAIN sent, NEW r \in Radios, reception[t][r] # NotComputed
               PROVE  LET u == IF isStatic THEN FirstOf(t) ELSE t IN
                      reception[t][r] = IF r \in DOMAIN sent[u].power THEN sent[u].power[r] ELSE 0
    BY Zenon DEF ReceptionHasItsPower
  <2>1. t \in 1..Len(sent)
    BY DEF OpalInv, OpalType
  <2>2. reception[t][r] = PowerAt(Source(t), r)
    BY <2>1 DEF OpalInv, ReceptionInv
  <2> QED
    BY <2>2, Zenon DEF PowerAt, Source
<1>2. OpalInv /\ [Next]_vars => OpalInv'
  BY OpalStep
<1> QED
  BY OpalInitial, <1>1, <1>2, PTL DEF Spec
=============================================================================
