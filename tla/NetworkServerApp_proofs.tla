----------------------- MODULE NetworkServerApp_proofs -----------------------
(***************************************************************************)
(* The network server counts every frame at most once, for any number of   *)
(* nodes, gateways and frames, when the copies of a frame arrive less than *)
(* a waiting window apart.                                                 *)
(***************************************************************************)
EXTENDS NetworkServerApp, FiniteSetTheorems, WellFoundedInduction, TLAPS

USE NumbersAssumption, DelaysAssumption, AdrAssumption

-----------------------------------------------------------------------------
\* A non-empty set of naturals has a least element.
LEMMA LeastNatural ==
    ASSUME NEW S \in SUBSET Nat, S # {}
    PROVE  \E x \in S : \A y \in S : x <= y
<1> DEFINE T == {0..x : x \in S}
<1>1. T \subseteq FiniteSubsetsOf(Nat) /\ T # {}
  <2>1. ASSUME NEW x \in Nat
        PROVE  0..x \in FiniteSubsetsOf(Nat)
    <3>1. IsFiniteSet(0..x) /\ 0..x \in SUBSET Nat
      BY FS_Interval
    <3> QED
      BY <3>1 DEF FiniteSubsetsOf
  <2>2. PICK x \in S : TRUE
    OBVIOUS
  <2>3. 0..x \in T
    OBVIOUS
  <2>4. ASSUME NEW t \in T
        PROVE  t \in FiniteSubsetsOf(Nat)
    <3>1. PICK y \in S : t = 0..y
      OBVIOUS
    <3> QED
      BY <2>1, <3>1
  <2> HIDE DEF T
  <2> QED
    BY <2>3, <2>4
<1>2. PICK least \in T : \A t \in T : ~ (<<t, least>> \in StrictSubsetOrdering(Nat))
  <2>1. IsWellFoundedOn(StrictSubsetOrdering(Nat), FiniteSubsetsOf(Nat))
    BY FS_StrictSubsetOrderingWellFounded
  <2> HIDE DEF T
  <2> QED
    BY <1>1, <2>1, WFMin
<1>3. PICK x \in S : least = 0..x
  OBVIOUS
<1>4. ASSUME NEW y \in S, y < x
      PROVE  FALSE
  <2>1. /\ 0..y \in T
        /\ 0..y \subseteq Nat /\ 0..x \subseteq Nat
        /\ 0..y \subseteq 0..x
        /\ x \in 0..x /\ x \notin 0..y
    BY <1>4
  <2> QED
    BY <1>2, <1>3, <2>1 DEF StrictSubsetOrdering
<1> QED
  BY <1>4

(***************************************************************************)
(* The pick of processScheduledPacket is one of the gateways that heard    *)
(* the frame, and none of them has a better SNIR.                          *)
(***************************************************************************)
LEMMA PickedGatewayIsBest ==
    ASSUME NEW readings \in Seq(Reading), readings # <<>>
    PROVE  /\ PickedGateway(readings) \in Reading
           /\ \E i \in DOMAIN readings : PickedGateway(readings) = readings[i]
           /\ \A i \in DOMAIN readings : readings[i].snir <= PickedGateway(readings).snir
<1> DEFINE Best(i) == \A j \in DOMAIN readings :
                          /\ readings[j].snir <= readings[i].snir
                          /\ j < i => readings[j].snir < readings[i].snir
<1>1. /\ DOMAIN readings \in SUBSET Nat /\ DOMAIN readings # {}
      /\ \A i \in DOMAIN readings : readings[i] \in Reading /\ readings[i].snir \in 0..MaxSNIR
  <2>1. Len(readings) \in Nat /\ Len(readings) # 0 /\ DOMAIN readings = 1..Len(readings)
    OBVIOUS
  <2>2. ASSUME NEW i \in DOMAIN readings
        PROVE  readings[i] \in Reading
    OBVIOUS
  <2>3. \A r \in Reading : r.snir \in 0..MaxSNIR
    BY DEF Reading, SNIRs
  <2> HIDE DEF Best
  <2>4. DOMAIN readings \in SUBSET Nat /\ DOMAIN readings # {}
    <3>1. 1 \in DOMAIN readings
      BY <2>1
    <3>2. \A i \in DOMAIN readings : i \in Nat
      BY <2>1
    <3> QED
      BY <3>1, <3>2
  <2> QED
    BY <2>2, <2>3, <2>4
<1> DEFINE Lack == {MaxSNIR - readings[i].snir : i \in DOMAIN readings}
<1>2. PICK low \in Lack : \A y \in Lack : low <= y
  <2>1. Lack \in SUBSET Nat
    BY <1>1
  <2>2. Lack # {}
    BY <1>1
  <2> HIDE DEF Lack
  <2> QED
    BY <2>1, <2>2, LeastNatural
<1>3. ASSUME NEW i \in DOMAIN readings
      PROVE  readings[i].snir <= MaxSNIR - low
  <2>1. MaxSNIR - readings[i].snir \in Lack
    OBVIOUS
  <2>2. low <= MaxSNIR - readings[i].snir
    BY <1>2, <2>1
  <2>3. low \in Nat
    BY <1>1, <1>2
  <2> QED
    BY <1>1, <2>2, <2>3
<1> DEFINE Tops == {i \in DOMAIN readings : readings[i].snir = MaxSNIR - low}
<1>4. PICK first \in Tops : \A y \in Tops : first <= y
  <2>1. Tops # {}
    <3>1. PICK i \in DOMAIN readings : low = MaxSNIR - readings[i].snir
      BY <1>2
    <3>2. readings[i].snir = MaxSNIR - low
      BY <1>1, <3>1
    <3> QED
      BY <3>2
  <2>2. Tops \in SUBSET Nat
    BY <1>1
  <2> HIDE DEF Tops
  <2> QED
    BY <2>1, <2>2, LeastNatural
<1>5. Best(first)
  <2>1. first \in DOMAIN readings /\ readings[first].snir = MaxSNIR - low
    BY <1>4
  <2>2. ASSUME NEW j \in DOMAIN readings
        PROVE  /\ readings[j].snir <= readings[first].snir
               /\ j < first => readings[j].snir < readings[first].snir
    <3>1. readings[j].snir <= readings[first].snir
      BY <1>3, <2>1
    <3>2. ASSUME j < first
          PROVE  readings[j].snir # readings[first].snir
      <4>1. j \notin Tops
        BY <1>1, <1>4, <3>2
      <4> QED
        BY <2>1, <4>1
    <3>3. readings[j].snir \in Int /\ readings[first].snir \in Int
      BY <1>1, <2>1
    <3> QED
      BY <3>1, <3>2, <3>3
  <2> QED
    BY <2>2
<1>6. \E i \in DOMAIN readings : Best(i)
  <2>1. first \in DOMAIN readings
    BY <1>4
  <2> HIDE DEF Best
  <2> QED
    BY <1>5, <2>1
<1>7. /\ PickedGateway(readings) = readings[CHOOSE i \in DOMAIN readings : Best(i)]
      /\ (CHOOSE i \in DOMAIN readings : Best(i)) \in DOMAIN readings
      /\ Best(CHOOSE i \in DOMAIN readings : Best(i))
  BY <1>6, Zenon DEF PickedGateway
<1> QED
  BY <1>1, <1>7
-----------------------------------------------------------------------------
\* Every step keeps the types.
LEMMA TypeInit == Init => TypeOK
BY DEF Init, TypeOK, SNIRs, Lost

LEMMA SendFrameTypes ==
    ASSUME TypeOK, NEW n \in Nodes, NEW sf \in SFs, NEW adrAckReq \in BOOLEAN,
           NEW emittedSF \in 7..12, SendFrame(n, sf, adrAckReq, emittedSF)
    PROVE  TypeOK'
<1>1. sent' \in [Nodes -> 0..MaxFrames] /\ nextPacket' \in [Nodes -> 0..MinGap]
  <2>1. /\ sent[n] < MaxFrames
        /\ sent' = [sent EXCEPT ![n] = @ + 1] /\ nextPacket' = [nextPacket EXCEPT ![n] = MinGap]
    BY DEF SendFrame
  <2>2. sent \in [Nodes -> 0..MaxFrames] /\ nextPacket \in [Nodes -> 0..MinGap]
    BY DEF TypeOK
  <2>3. sent[n] + 1 \in 0..MaxFrames /\ MinGap \in 0..MinGap
    BY <2>1, <2>2
  <2> QED
    BY <2>1, <2>2, <2>3
<1>2. heardBy' \in [Nodes -> [Gateways -> SNIRs \union {Lost}]] /\ network' \subseteq Copy
  <2> DEFINE frame == [src |-> n, seq |-> sent[n], sf |-> sf, adrAckReq |-> adrAckReq]
  <2>1. PICK snir \in [Gateways -> SNIRs \union {Lost}], airTime \in AirTimes,
             jitter \in [Gateways -> 0..MaxJitter] :
        /\ heardBy' = [heardBy EXCEPT ![n] = snir]
        /\ network' = network \union
               {[frame |-> frame, gateway |-> g, snir |-> snir[g], delay |-> airTime + jitter[g]] :
                    g \in {h \in Gateways : snir[h] # Lost}}
    BY Zenon DEF SendFrame
  <2>2. frame \in Frame
    <3>1. sent[n] \in Nat
      BY DEF TypeOK
    <3> QED
      BY <3>1, Zenon DEF Frame
  <2>3. \A g \in Gateways : airTime + jitter[g] \in Nat
    OBVIOUS
  <2>4. heardBy' \in [Nodes -> [Gateways -> SNIRs \union {Lost}]]
    BY <2>1 DEF TypeOK
  <2>5. network' \subseteq Copy
    <3>1. ASSUME NEW g \in Gateways, snir[g] # Lost
          PROVE  [frame |-> frame, gateway |-> g, snir |-> snir[g], delay |-> airTime + jitter[g]] \in Copy
      <4>1. snir[g] \in SNIRs
        BY <3>1
      <4> HIDE DEF frame
      <4> QED
        BY <2>2, <2>3, <4>1 DEF Copy
    <3>2. network \subseteq Copy
      BY DEF TypeOK
    <3> QED
      BY <2>1, <3>1, <3>2, Zenon
  <2> QED
    BY <2>4, <2>5
<1>3. /\ counterOfSentPacketsFromNodes' \in Nat
      /\ counterOfSentPacketsFromNodesPerSF' \in [7..12 -> Nat]
  <2>1. CountSentPacket(emittedSF)
    BY DEF SendFrame
  <2>2. /\ counterOfSentPacketsFromNodes \in Nat
        /\ counterOfSentPacketsFromNodesPerSF \in [7..12 -> Nat]
    BY DEF TypeOK
  <2>3. CASE Warm
    BY <2>1, <2>2, <2>3 DEF CountSentPacket
  <2>4. CASE ~Warm
    BY <2>1, <2>2, <2>4 DEF CountSentPacket
  <2> QED
    BY <2>3, <2>4
<1>4. UNCHANGED <<warmup, lastSeqNoProcessed, adrVars, receivedPackets, countVars, heard>>
  BY DEF SendFrame
<1> QED
  BY <1>1, <1>2, <1>3, <1>4 DEF adrVars, countVars, TypeOK

LEMMA HandleFrameTypes ==
    ASSUME TypeOK, NEW copy \in network, HandleFrame(copy)
    PROVE  TypeOK'
<1> DEFINE reading == [gateway |-> copy.gateway, snir |-> copy.snir]
<1>1. /\ copy \in Copy /\ copy.frame \in Frame /\ copy.frame.src \in Nodes /\ copy.frame.seq \in Nat
      /\ reading \in Reading
  BY DEF Copy, Frame, Reading, TypeOK
<1>2. network' \subseteq Copy
  BY DEF HandleFrame, TypeOK
<1>3. lastSeqNoProcessed' \in [Nodes -> Nat \union {-1}]
  <2>1. lastSeqNoProcessed' = [lastSeqNoProcessed EXCEPT ![copy.frame.src] =
                                  IF @ < copy.frame.seq THEN copy.frame.seq ELSE @]
    BY DEF HandleFrame
  <2> QED
    BY <1>1, <2>1 DEF TypeOK
<1>4. AddPktToProcessingTable(copy) \subseteq ReceivedPacket
  <2>1. ASSUME NEW p \in receivedPackets
        PROVE  [p EXCEPT !.possibleGateways = Append(@, reading)] \in ReceivedPacket
    <3>1. p \in ReceivedPacket
      BY DEF TypeOK
    <3>2. Append(p.possibleGateways, reading) \in Seq(Reading)
      <4>1. p.possibleGateways \in Seq(Reading)
        BY <3>1 DEF ReceivedPacket
      <4> HIDE DEF reading
      <4> QED
        BY <1>1, <4>1
    <3> HIDE DEF reading
    <3> QED
      BY <3>1, <3>2 DEF ReceivedPacket
  <2>2. [frame |-> copy.frame, possibleGateways |-> <<reading>>, endOfWaiting |-> Window] \in ReceivedPacket
    <3> HIDE DEF reading
    <3>1. <<reading>> \in Seq(Reading)
      BY <1>1
    <3> QED
      BY <1>1, <3>1 DEF ReceivedPacket
  <2>3. receivedPackets \subseteq ReceivedPacket
    BY DEF TypeOK
  <2> QED
    BY <2>1, <2>2, <2>3, Zenon DEF AddPktToProcessingTable
<1>5. receivedPackets' \subseteq ReceivedPacket
  BY <1>4 DEF HandleFrame, TypeOK
<1>6. heard' \subseteq Nodes \X Nat
  <2>1. heard' = heard \union {<<copy.frame.src, copy.frame.seq>>}
    BY Zenon DEF HandleFrame, Name
  <2>2. heard \subseteq Nodes \X Nat
    BY DEF TypeOK
  <2>3. <<copy.frame.src, copy.frame.seq>> \in Nodes \X Nat
    BY <1>1
  <2> QED
    BY <2>1, <2>2, <2>3, Zenon
<1>7. UNCHANGED <<envVars, warmup, adrVars, countVars>>
  BY DEF HandleFrame
<1> QED
  BY <1>2, <1>3, <1>5, <1>6, <1>7 DEF envVars, adrVars, countVars, TypeOK

LEMMA EvaluateADRTypes ==
    ASSUME TypeOK, NEW p \in receivedPackets, p.possibleGateways # <<>>,
           EvaluateADR(p.frame, PickedGateway(p.possibleGateways))
    PROVE  /\ framesFromLastADRCommand' \in [Nodes -> 0..(AdrFrames - 1)]
           /\ numberOfSentADRPackets' \in [Nodes -> Nat]
           /\ adrListSNIR' \in [Nodes -> Seq(SNIRs)]
           /\ commands' \subseteq Command
<1> DEFINE n == p.frame.src
           picked == PickedGateway(p.possibleGateways)
<1>1. /\ n \in Nodes /\ p.frame.seq \in Nat /\ p.frame.sf \in 7..12
      /\ p.possibleGateways \in Seq(Reading)
  <2>1. p \in ReceivedPacket
    BY DEF TypeOK
  <2>2. p.frame \in Frame /\ p.possibleGateways \in Seq(Reading)
    BY <2>1, Zenon DEF ReceivedPacket
  <2>3. p.frame.src \in Nodes /\ p.frame.seq \in Nat /\ p.frame.sf \in SFs
    BY <2>2 DEF Frame
  <2> QED
    BY <2>2, <2>3
<1>2. picked.gateway \in Gateways /\ picked.snir \in SNIRs
  <2>1. picked \in Reading
    BY <1>1, PickedGatewayIsBest
  <2> HIDE DEF picked
  <2> QED
    BY <2>1 DEF Reading
<1>3. framesFromLastADRCommand' \in [Nodes -> 0..(AdrFrames - 1)]
  <2>1. framesFromLastADRCommand' =
            [framesFromLastADRCommand EXCEPT ![n] = IF AdrDue(n) THEN 0 ELSE @ + 1]
    BY Zenon DEF EvaluateADR
  <2>2. framesFromLastADRCommand \in [Nodes -> 0..(AdrFrames - 1)]
    BY DEF TypeOK
  <2> HIDE DEF n
  <2>3. (IF AdrDue(n) THEN 0 ELSE framesFromLastADRCommand[n] + 1) \in 0..(AdrFrames - 1)
    BY <1>1, <2>2 DEF AdrDue
  <2> QED
    BY <1>1, <2>1, <2>2, <2>3
<1>4. adrListSNIR' \in [Nodes -> Seq(SNIRs)]
  <2>1. adrListSNIR' = [adrListSNIR EXCEPT ![n] = Remember(@, picked.snir)]
    BY Zenon DEF EvaluateADR
  <2>2. adrListSNIR \in [Nodes -> Seq(SNIRs)]
    BY DEF TypeOK
  <2> HIDE DEF n, picked
  <2>3. Remember(adrListSNIR[n], picked.snir) \in Seq(SNIRs)
    <3>1. adrListSNIR[n] \in Seq(SNIRs)
      BY <1>1, <2>2
    <3> DEFINE longer == Append(adrListSNIR[n], picked.snir)
    <3>2. longer \in Seq(SNIRs) /\ longer # <<>>
      BY <1>2, <3>1
    <3> HIDE DEF longer
    <3>3. Tail(longer) \in Seq(SNIRs)
      BY <3>2
    <3>4. Remember(adrListSNIR[n], picked.snir) \in {longer, Tail(longer)}
      BY DEF Remember, longer
    <3> QED
      BY <3>2, <3>3, <3>4
  <2> QED
    BY <1>1, <2>1, <2>2, <2>3
<1>5. commands' \subseteq Command
  <2>1. commands \subseteq Command
    BY DEF TypeOK
  <2>2. ASSUME NEW sf \in {-1} \union 7..12
        PROVE  [to |-> n, gateway |-> picked.gateway, seq |-> p.frame.seq, loRaSF |-> sf] \in Command
    <3> HIDE DEF n, picked
    <3> QED
      BY <1>1, <1>2 DEF Command
  <2>3. CASE commands' = commands
    BY <2>1, <2>3
  <2>4. CASE \E sf \in IF AdrDue(n) THEN 7..p.frame.sf ELSE {-1} :
                commands' = commands \union
                    {[to |-> n, gateway |-> picked.gateway, seq |-> p.frame.seq, loRaSF |-> sf]}
    <3>1. (IF AdrDue(n) THEN 7..p.frame.sf ELSE {-1}) \subseteq {-1} \union 7..12
      BY <1>1
    <3>2. PICK sf \in {-1} \union 7..12 : commands' = commands \union
              {[to |-> n, gateway |-> picked.gateway, seq |-> p.frame.seq, loRaSF |-> sf]}
      BY <2>4, <3>1, Zenon
    <3>3. [to |-> n, gateway |-> picked.gateway, seq |-> p.frame.seq, loRaSF |-> sf] \in Command
      BY <2>2
    <3> QED
      BY <2>1, <3>2, <3>3, Zenon
  <2> QED
    BY <2>3, <2>4, Zenon DEF EvaluateADR
<1>6. numberOfSentADRPackets' \in [Nodes -> Nat]
  <2>1. numberOfSentADRPackets \in [Nodes -> Nat]
    BY DEF TypeOK
  <2>2. CASE UNCHANGED numberOfSentADRPackets
    BY <2>1, <2>2
  <2>3. CASE \E m \in Nodes :
                numberOfSentADRPackets' = [numberOfSentADRPackets EXCEPT ![m] = @ + 1]
    BY <2>1, <2>3
  <2>4. \/ UNCHANGED numberOfSentADRPackets
        \/ CountADRPacket(n, AdrDue(n))
    BY Zenon DEF EvaluateADR
  <2> QED
    BY <1>1, <2>2, <2>3, <2>4, Zenon DEF CountADRPacket
<1> QED
  BY <1>3, <1>4, <1>5, <1>6

LEMMA ProcessScheduledPacketTypes ==
    ASSUME TypeOK, NEW p \in receivedPackets, p.possibleGateways # <<>>, ProcessScheduledPacket(p)
    PROVE  TypeOK'
<1>1. p.frame.src \in Nodes /\ p.frame.seq \in Nat /\ p.frame.sf \in 7..12
  <2>1. p \in ReceivedPacket
    BY DEF TypeOK
  <2>2. p.frame \in Frame
    BY <2>1, Zenon DEF ReceivedPacket
  <2>3. p.frame.src \in Nodes /\ p.frame.seq \in Nat /\ p.frame.sf \in SFs
    BY <2>2 DEF Frame
  <2> QED
    BY <2>3
<1>2. receivedPackets' \subseteq ReceivedPacket
  BY DEF ProcessScheduledPacket, TypeOK
<1>3. numReceivedPerNode' \in [Nodes -> Nat]
  <2>1. numReceivedPerNode' = [numReceivedPerNode EXCEPT ![p.frame.src] = @ + 1]
    BY Zenon DEF ProcessScheduledPacket
  <2>2. numReceivedPerNode \in [Nodes -> Nat]
    BY DEF TypeOK
  <2> QED
    BY <1>1, <2>1, <2>2
<1>4. counted' \subseteq Nodes \X Nat
  <2>1. counted' = counted \union {<<p.frame.src, p.frame.seq>>}
    BY Zenon DEF ProcessScheduledPacket, Name
  <2>2. counted \subseteq Nodes \X Nat
    BY DEF TypeOK
  <2>3. <<p.frame.src, p.frame.seq>> \in Nodes \X Nat
    BY <1>1
  <2> QED
    BY <2>1, <2>2, <2>3, Zenon
<1>5. /\ counterUniqueReceivedPackets' \in Nat
      /\ counterUniqueReceivedPacketsPerSF' \in [7..12 -> Nat]
  <2>1. /\ counterUniqueReceivedPackets \in Nat
        /\ counterUniqueReceivedPacketsPerSF \in [7..12 -> Nat]
    BY DEF TypeOK
  <2>2. CASE UNCHANGED <<counterUniqueReceivedPackets, counterUniqueReceivedPacketsPerSF>>
    BY <2>1, <2>2
  <2>3. CASE /\ counterUniqueReceivedPackets' = counterUniqueReceivedPackets + 1
             /\ counterUniqueReceivedPacketsPerSF' =
                    [counterUniqueReceivedPacketsPerSF EXCEPT ![p.frame.sf] = @ + 1]
    <3>1. counterUniqueReceivedPackets' \in Nat
      BY <2>1, <2>3
    <3>2. counterUniqueReceivedPacketsPerSF[p.frame.sf] + 1 \in Nat
      BY <1>1, <2>1
    <3> QED
      BY <2>1, <2>3, <3>1, <3>2, Zenon
  <2> QED
    BY <2>2, <2>3, Zenon DEF ProcessScheduledPacket
<1>6. /\ framesFromLastADRCommand' \in [Nodes -> 0..(AdrFrames - 1)]
      /\ numberOfSentADRPackets' \in [Nodes -> Nat]
      /\ adrListSNIR' \in [Nodes -> Seq(SNIRs)]
      /\ commands' \subseteq Command
  <2>1. CASE EvaluateADR(p.frame, PickedGateway(p.possibleGateways))
    BY <2>1, EvaluateADRTypes, Zenon
  <2>2. CASE UNCHANGED adrVars
    BY <2>2 DEF adrVars, TypeOK
  <2> QED
    BY <2>1, <2>2, Zenon DEF ProcessScheduledPacket
<1>7. UNCHANGED <<envVars, network, warmup, lastSeqNoProcessed, heard>>
  BY DEF ProcessScheduledPacket
<1> QED
  BY <1>2, <1>3, <1>4, <1>5, <1>6, <1>7 DEF envVars, TypeOK

LEMMA TickTypes ==
    ASSUME TypeOK, Tick
    PROVE  TypeOK'
<1>1. /\ nextPacket' \in [Nodes -> 0..MinGap]
      /\ warmup' \in 0..WarmupPeriod
  <2>1. /\ nextPacket' = [n \in Nodes |-> Down(nextPacket[n])]
        /\ warmup' = Down(warmup)
    BY Zenon DEF Tick
  <2>2. nextPacket \in [Nodes -> 0..MinGap] /\ warmup \in 0..WarmupPeriod
    BY DEF TypeOK
  <2>3. \A n \in Nodes : Down(nextPacket[n]) \in 0..MinGap
    BY <2>2 DEF Down
  <2> QED
    BY <2>1, <2>2, <2>3 DEF Down
<1>2. network' \subseteq Copy
  <2>1. ASSUME NEW copy \in network
        PROVE  [copy EXCEPT !.delay = @ - 1] \in Copy
    <3>1. copy \in Copy /\ copy.delay # 0
      BY DEF Tick, TypeOK
    <3>2. copy.delay - 1 \in Nat
      BY <3>1 DEF Copy
    <3> QED
      BY <3>1, <3>2 DEF Copy
  <2>2. network' = {[copy EXCEPT !.delay = @ - 1] : copy \in network}
    BY Zenon DEF Tick
  <2> QED
    BY <2>1, <2>2, Zenon
<1>3. receivedPackets' \subseteq ReceivedPacket
  <2>1. ASSUME NEW p \in receivedPackets
        PROVE  [p EXCEPT !.endOfWaiting = @ - 1] \in ReceivedPacket
    <3>1. p \in ReceivedPacket /\ p.endOfWaiting # 0
      BY DEF Tick, TypeOK
    <3>2. p.endOfWaiting - 1 \in Nat
      BY <3>1 DEF ReceivedPacket
    <3> QED
      BY <3>1, <3>2 DEF ReceivedPacket
  <2>2. receivedPackets' = {[p EXCEPT !.endOfWaiting = @ - 1] : p \in receivedPackets}
    BY Zenon DEF Tick
  <2> QED
    BY <2>1, <2>2, Zenon
<1>4. UNCHANGED <<sent, heardBy, counterOfSentPacketsFromNodes, counterOfSentPacketsFromNodesPerSF,
                  lastSeqNoProcessed, adrVars, countVars, heard>>
  BY DEF Tick
<1> QED
  BY <1>1, <1>2, <1>3, <1>4 DEF adrVars, countVars, TypeOK

-----------------------------------------------------------------------------
\* An open window holds at least the gateway that opened it.
HasReading == \A p \in receivedPackets : p.possibleGateways # <<>>

LEMMA HasReadingNext == ASSUME TypeOK, HasReading, [Next]_vars PROVE HasReading'
<1>1. CASE receivedPackets' = receivedPackets
  BY <1>1 DEF HasReading
<1>2. ASSUME NEW copy \in network, HandleFrame(copy)
      PROVE  HasReading'
  <2>1. CASE receivedPackets' = receivedPackets
    BY <2>1 DEF HasReading
  <2>2. CASE receivedPackets' = AddPktToProcessingTable(copy)
    <3> SUFFICES ASSUME NEW q \in receivedPackets'
                 PROVE  q.possibleGateways # <<>>
      BY DEF HasReading
    <3> DEFINE reading == [gateway |-> copy.gateway, snir |-> copy.snir]
    <3>1. CASE q \in receivedPackets
      BY <3>1 DEF HasReading
    <3>2. CASE \E p \in receivedPackets : q = [p EXCEPT !.possibleGateways = Append(@, reading)]
      <4>1. PICK p \in receivedPackets : q = [p EXCEPT !.possibleGateways = Append(@, reading)]
        BY <3>2
      <4>2. p \in ReceivedPacket
        BY DEF TypeOK
      <4>3. q.possibleGateways = Append(p.possibleGateways, reading)
        BY <4>1, <4>2, Zenon DEF ReceivedPacket
      <4>4. p.possibleGateways \in Seq(Reading)
        BY <4>2, Zenon DEF ReceivedPacket
      <4> HIDE DEF reading
      <4> QED
        BY <4>3, <4>4, SMTT(40)
    <3>3. CASE q = [frame |-> copy.frame, possibleGateways |-> <<reading>>, endOfWaiting |-> Window]
      BY <3>3
    <3> QED
      BY <2>2, <3>1, <3>2, <3>3, Zenon DEF AddPktToProcessingTable
  <2> QED
    BY <1>2, <2>1, <2>2, Zenon DEF HandleFrame
<1>3. ASSUME NEW p \in receivedPackets, ProcessScheduledPacket(p)
      PROVE  HasReading'
  BY <1>3 DEF ProcessScheduledPacket, HasReading
<1>4. CASE Tick
  <2>1. ASSUME NEW p \in receivedPackets
        PROVE  [p EXCEPT !.endOfWaiting = @ - 1].possibleGateways # <<>>
    <3>1. p \in ReceivedPacket /\ p.possibleGateways # <<>>
      BY DEF TypeOK, HasReading
    <3> QED
      BY <3>1, Zenon DEF ReceivedPacket
  <2>2. receivedPackets' = {[p EXCEPT !.endOfWaiting = @ - 1] : p \in receivedPackets}
    BY <1>4, Zenon DEF Tick
  <2> QED
    BY <2>1, <2>2, Zenon DEF HasReading
<1>5. ASSUME NEW n \in Nodes, NEW sf \in SFs, SendFrame(n, sf, FALSE, sf)
      PROVE  receivedPackets' = receivedPackets
  BY <1>5, Zenon DEF SendFrame
<1> QED
  BY <1>1, <1>2, <1>3, <1>4, <1>5, Zenon DEF Next, Send, Receive, EndOfWaiting, vars

LEMMA TypeNext == ASSUME TypeOK, HasReading, [Next]_vars PROVE TypeOK'
<1>1. CASE Send
  <2>1. PICK n \in Nodes, sf \in SFs : SendFrame(n, sf, FALSE, sf)
    BY <1>1 DEF Send
  <2>2. sf \in 7..12
    OBVIOUS
  <2> QED
    BY <2>1, <2>2, SendFrameTypes
<1>2. CASE Receive
  BY <1>2, HandleFrameTypes DEF Receive
<1>3. CASE EndOfWaiting
  BY <1>3, ProcessScheduledPacketTypes DEF EndOfWaiting, HasReading
<1>4. CASE Tick
  BY <1>4, TickTypes
<1>5. CASE UNCHANGED vars
  BY <1>5 DEF vars, envVars, adrVars, countVars, TypeOK
<1> QED
  BY <1>1, <1>2, <1>3, <1>4, <1>5 DEF Next

LEMMA TypeInvariant == Spec => [](TypeOK /\ HasReading)
<1>1. Init => TypeOK /\ HasReading
  BY TypeInit DEF Init, HasReading
<1>2. (TypeOK /\ HasReading) /\ [Next]_vars => (TypeOK /\ HasReading)'
  BY TypeNext, HasReadingNext
<1> QED
  BY <1>1, <1>2, PTL DEF Spec

(***************************************************************************)
(* The variables of the server keep their types for any number of nodes,   *)
(* gateways and frames: in particular the counter of frames since the last *)
(* ADR answer never passes AdrFrames, the constant 20 of evaluateADR.      *)
(***************************************************************************)
THEOREM TypeCorrect == Spec => []TypeOK
BY TypeInvariant, PTL

-----------------------------------------------------------------------------
(***************************************************************************)
(* Why a frame is counted once.  The copies of a frame are close together, *)
(* so the window that the first one opens is still open when the last one  *)
(* arrives, and no copy is on its way when the window closes.              *)
(***************************************************************************)
SameName(f, g) == f.src = g.src /\ f.seq = g.seq

CopiesNew == \A c \in network : c.frame.seq < sent[c.frame.src] /\ Name(c.frame) \notin counted
CopiesTogether ==
    \A c, d \in network : SameName(c.frame, d.frame) => d.delay <= c.delay + MaxJitter
CopiesInWindow ==
    \A c \in network, p \in receivedPackets :
        SameName(c.frame, p.frame) => c.delay < p.endOfWaiting
WindowsNew == \A p \in receivedPackets : Name(p.frame) \in heard \ counted
OneWindow == \A p, q \in receivedPackets : SameName(p.frame, q.frame) => p = q
HistoryInv ==
    /\ counted \subseteq heard
    /\ \A n \in Nodes, s \in Nat : <<n, s>> \in heard => s < sent[n]

CountInv ==
    /\ TypeOK /\ HasReading
    /\ CopiesNew /\ CopiesTogether /\ CopiesInWindow
    /\ WindowsNew /\ OneWindow /\ HistoryInv

LEMMA CopyTypes ==
    ASSUME TypeOK, NEW c \in network
    PROVE  /\ c.frame.src \in Nodes /\ c.frame.seq \in Nat /\ c.frame.sf \in SFs
           /\ c.delay \in Nat /\ c.frame \in Frame /\ c \in Copy
<1>1. c \in Copy
  BY DEF TypeOK
<1>2. c.frame \in Frame /\ c.delay \in Nat
  BY <1>1, Zenon DEF Copy
<1> QED
  BY <1>1, <1>2, Zenon DEF Frame

LEMMA WindowTypes ==
    ASSUME TypeOK, NEW p \in receivedPackets
    PROVE  /\ p.frame.src \in Nodes /\ p.frame.seq \in Nat /\ p.frame.sf \in SFs
           /\ p.endOfWaiting \in Nat /\ p.frame \in Frame /\ p \in ReceivedPacket
<1>1. p \in ReceivedPacket
  BY DEF TypeOK
<1>2. p.frame \in Frame /\ p.endOfWaiting \in Nat
  BY <1>1, Zenon DEF ReceivedPacket
<1> QED
  BY <1>1, <1>2, Zenon DEF Frame

LEMMA SameNames ==
    ASSUME NEW f, NEW g
    PROVE  SameName(f, g) <=> Name(f) = Name(g)
BY DEF SameName, Name

\* A frame just sent is new, and its copies arrive within MaxJitter of each other.
LEMMA SendFrameCount ==
    ASSUME CountInv, NEW n \in Nodes, NEW sf \in SFs, SendFrame(n, sf, FALSE, sf)
    PROVE  CopiesNew' /\ CopiesTogether' /\ CopiesInWindow' /\ WindowsNew' /\ OneWindow' /\ HistoryInv'
<1> DEFINE frame == [src |-> n, seq |-> sent[n], sf |-> sf, adrAckReq |-> FALSE]
<1>1. /\ sent' = [sent EXCEPT ![n] = @ + 1]
      /\ UNCHANGED <<receivedPackets, heard, counted>>
  BY DEF SendFrame, countVars
<1>2. sent \in [Nodes -> Nat] /\ \A m \in Nodes : sent[m] <= sent'[m]
  <2>1. sent \in [Nodes -> 0..MaxFrames]
    BY DEF CountInv, TypeOK
  <2> QED
    BY <1>1, <2>1
<1>3. /\ CopiesNew /\ CopiesTogether /\ CopiesInWindow /\ WindowsNew /\ OneWindow /\ HistoryInv
      /\ TypeOK
  BY DEF CountInv
<1>4. PICK snir \in [Gateways -> SNIRs \union {Lost}], airTime \in AirTimes,
           jitter \in [Gateways -> 0..MaxJitter] :
        /\ heardBy' = [heardBy EXCEPT ![n] = snir]
        /\ network' = network \union
               {[frame |-> frame, gateway |-> g, snir |-> snir[g], delay |-> airTime + jitter[g]] :
                    g \in {h \in Gateways : snir[h] # Lost}}
  BY Zenon DEF SendFrame
<1>5. ASSUME NEW c \in network', c \notin network
      PROVE  /\ c.frame.src = n /\ c.frame.seq = sent[n]
             /\ c.delay \in Nat /\ airTime <= c.delay /\ c.delay <= airTime + MaxJitter
  <2>1. PICK g \in Gateways : c = [frame |-> frame, gateway |-> g, snir |-> snir[g],
                                   delay |-> airTime + jitter[g]]
    BY <1>4, <1>5, Zenon
  <2>2. c.frame = frame /\ c.delay = airTime + jitter[g]
    BY <2>1, Zenon
  <2>3. jitter[g] \in 0..MaxJitter /\ airTime \in Nat
    OBVIOUS
  <2>4. frame.src = n /\ frame.seq = sent[n]
    OBVIOUS
  <2> HIDE DEF frame
  <2> QED
    BY <2>2, <2>3, <2>4
<1> HIDE DEF frame
<1>6. \A s \in Nat : <<n, s>> \in heard => s < sent[n]
  BY <1>3 DEF HistoryInv
<1>7. <<n, sent[n]>> \notin heard
  BY <1>2, <1>6
<1>8. ASSUME NEW c \in network
      PROVE  /\ c.frame.src \in Nodes /\ c.frame.seq \in Nat /\ c.delay \in Nat
             /\ c.frame.seq < sent[c.frame.src] /\ Name(c.frame) \notin counted
  BY <1>3, CopyTypes DEF CopiesNew
<1>9. CopiesNew'
  <2> SUFFICES ASSUME NEW c \in network'
               PROVE  c.frame.seq < sent'[c.frame.src] /\ Name(c.frame) \notin counted'
    BY DEF CopiesNew
  <2>1. CASE c \in network
    BY <1>1, <1>2, <1>8, <2>1
  <2>2. CASE c \notin network
    <3>1. Name(c.frame) = <<n, sent[n]>>
      BY <1>5, <2>2 DEF Name
    <3>2. Name(c.frame) \notin counted'
      BY <1>1, <1>3, <1>7, <3>1, Zenon DEF HistoryInv
    <3>3. sent'[n] = sent[n] + 1 /\ sent[n] \in Nat
      BY <1>1, <1>2
    <3> QED
      BY <1>5, <2>2, <3>2, <3>3
  <2> QED
    BY <2>1, <2>2
<1>10. CopiesTogether'
  <2> SUFFICES ASSUME NEW c \in network', NEW d \in network', SameName(c.frame, d.frame)
               PROVE  d.delay <= c.delay + MaxJitter
    BY DEF CopiesTogether
  <2>1. CASE c \in network /\ d \in network
    BY <1>3, <2>1 DEF CopiesTogether
  <2>2. CASE c \notin network /\ d \notin network
    BY <1>5, <2>2
  <2>3. CASE c \in network /\ d \notin network
    BY <1>2, <1>5, <1>8, <2>3 DEF SameName
  <2>4. CASE c \notin network /\ d \in network
    BY <1>2, <1>5, <1>8, <2>4 DEF SameName
  <2> QED
    BY <2>1, <2>2, <2>3, <2>4
<1>11. CopiesInWindow'
  <2> SUFFICES ASSUME NEW c \in network', NEW p \in receivedPackets, SameName(c.frame, p.frame)
               PROVE  c.delay < p.endOfWaiting
    BY <1>1 DEF CopiesInWindow
  <2>1. CASE c \in network
    BY <1>3, <2>1 DEF CopiesInWindow
  <2>2. CASE c \notin network
    <3>1. Name(p.frame) \in heard
      BY <1>3 DEF WindowsNew
    <3>2. Name(p.frame) = <<n, sent[n]>>
      BY <1>5, <2>2 DEF SameName, Name
    <3> QED
      BY <1>7, <3>1, <3>2
  <2> QED
    BY <2>1, <2>2
<1>12. WindowsNew' /\ OneWindow'
  <2>1. receivedPackets' = receivedPackets /\ heard' = heard /\ counted' = counted
    BY <1>1
  <2> QED
    BY <1>3, <2>1, Zenon DEF WindowsNew, OneWindow
<1>13. HistoryInv'
  <2> SUFFICES ASSUME NEW m \in Nodes, NEW s \in Nat, <<m, s>> \in heard
               PROVE  s < sent'[m]
    BY <1>1, <1>3 DEF HistoryInv
  <2>1. s < sent[m]
    BY <1>3 DEF HistoryInv
  <2>2. sent[m] <= sent'[m] /\ sent[m] \in Nat /\ sent'[m] \in Nat
    BY <1>1, <1>2
  <2> QED
    BY <2>1, <2>2
<1> QED
  BY <1>9, <1>10, <1>11, <1>12, <1>13

\* A copy that joins a window leaves its frame and its end as they are.
Joined(p, copy) ==
    IF Name(p.frame) = Name(copy.frame)
    THEN [p EXCEPT !.possibleGateways = Append(@, [gateway |-> copy.gateway, snir |-> copy.snir])]
    ELSE p

LEMMA JoinedKeeps ==
    ASSUME TypeOK, NEW copy, NEW p \in receivedPackets
    PROVE  Joined(p, copy).frame = p.frame /\ Joined(p, copy).endOfWaiting = p.endOfWaiting
<1>1. p \in ReceivedPacket
  BY DEF TypeOK
<1>2. \A g : LET q == [p EXCEPT !.possibleGateways = g]
             IN q.frame = p.frame /\ q.endOfWaiting = p.endOfWaiting
  BY <1>1, Zenon DEF ReceivedPacket
<1> QED
  BY <1>2 DEF Joined

LEMMA AddedWindow ==
    ASSUME NEW copy, NEW q \in AddPktToProcessingTable(copy)
    PROVE  \/ \E p \in receivedPackets : q = Joined(p, copy)
           \/ /\ \A p \in receivedPackets : ~SameName(p.frame, copy.frame)
              /\ q.frame = copy.frame /\ q.endOfWaiting = Window
<1> DEFINE reading == [gateway |-> copy.gateway, snir |-> copy.snir]
           Same(p) == Name(p.frame) = Name(copy.frame)
<1>1. CASE \E p \in receivedPackets : Same(p)
  <2>1. AddPktToProcessingTable(copy) = {Joined(p, copy) : p \in receivedPackets}
    BY <1>1, Zenon DEF AddPktToProcessingTable, Joined
  <2> QED
    BY <2>1
<1>2. CASE ~ \E p \in receivedPackets : Same(p)
  <2> DEFINE new == [frame |-> copy.frame, possibleGateways |-> <<reading>>, endOfWaiting |-> Window]
  <2>1. AddPktToProcessingTable(copy) = receivedPackets \union {new}
    BY <1>2, Zenon DEF AddPktToProcessingTable
  <2>2. CASE q \in receivedPackets
    <3>1. q = Joined(q, copy)
      BY <1>2, <2>2, Zenon DEF Joined
    <3> QED
      BY <2>2, <3>1
  <2>3. CASE q = new
    <3>1. q.frame = copy.frame /\ q.endOfWaiting = Window
      BY <2>3, Zenon
    <3>2. \A p \in receivedPackets : ~SameName(p.frame, copy.frame)
      BY <1>2, SameNames, Zenon
    <3> QED
      BY <3>1, <3>2, Zenon
  <2> QED
    BY <2>1, <2>2, <2>3, Zenon
<1> QED
  BY <1>1, <1>2

\* A copy that arrives joins the window of its frame or opens the only one.
LEMMA HandleFrameCount ==
    ASSUME CountInv, MaxJitter < Window, NEW copy \in network, HandleFrame(copy)
    PROVE  CopiesNew' /\ CopiesTogether' /\ CopiesInWindow' /\ WindowsNew' /\ OneWindow' /\ HistoryInv'
<1>1. /\ copy.delay = 0 /\ network' = network \ {copy} /\ heard' = heard \union {Name(copy.frame)}
      /\ sent' = sent /\ counted' = counted
  BY Zenon DEF HandleFrame, envVars, countVars
<1>2. /\ CopiesNew /\ CopiesTogether /\ CopiesInWindow /\ WindowsNew /\ OneWindow /\ HistoryInv
      /\ TypeOK
  BY DEF CountInv
<1>3. /\ copy.frame.src \in Nodes /\ copy.frame.seq \in Nat
      /\ copy.frame.seq < sent[copy.frame.src] /\ Name(copy.frame) \notin counted
  BY <1>2, CopyTypes DEF CopiesNew
<1>4. CopiesNew' /\ CopiesTogether'
  BY <1>1, <1>2 DEF CopiesNew, CopiesTogether
<1>5. HistoryInv'
  <2>1. counted' \subseteq heard'
    BY <1>1, <1>2 DEF HistoryInv
  <2>2. ASSUME NEW n \in Nodes, NEW s \in Nat, <<n, s>> \in heard'
        PROVE  s < sent'[n]
    <3>1. CASE <<n, s>> \in heard
      BY <1>1, <1>2, <3>1 DEF HistoryInv
    <3>2. CASE <<n, s>> = Name(copy.frame)
      <4>1. n = copy.frame.src /\ s = copy.frame.seq
        BY <3>2 DEF Name
      <4> QED
        BY <1>1, <1>3, <4>1
    <3> QED
      BY <1>1, <2>2, <3>1, <3>2
  <2> QED
    BY <2>1, <2>2 DEF HistoryInv
<1>6. CASE receivedPackets' = receivedPackets
  <2>1. CopiesInWindow'
    BY <1>1, <1>2, <1>6 DEF CopiesInWindow
  <2>2. WindowsNew' /\ OneWindow'
    BY <1>1, <1>2, <1>6, Zenon DEF WindowsNew, OneWindow
  <2> QED
    BY <1>4, <1>5, <2>1, <2>2
<1>7. CASE receivedPackets' = AddPktToProcessingTable(copy)
  <2>1. ASSUME NEW q \in receivedPackets'
        PROVE  \/ \E p \in receivedPackets : q = Joined(p, copy)
               \/ /\ \A p \in receivedPackets : ~SameName(p.frame, copy.frame)
                  /\ q.frame = copy.frame /\ q.endOfWaiting = Window
    BY <1>7, <2>1, AddedWindow, Zenon
  <2>2. \A p \in receivedPackets :
            Joined(p, copy).frame = p.frame /\ Joined(p, copy).endOfWaiting = p.endOfWaiting
    BY <1>2, JoinedKeeps
  <2>3. WindowsNew'
    <3> SUFFICES ASSUME NEW q \in receivedPackets'
                 PROVE  Name(q.frame) \in heard' \ counted'
      BY DEF WindowsNew
    <3>1. CASE \E p \in receivedPackets : q = Joined(p, copy)
      BY <1>1, <1>2, <2>2, <3>1, Zenon DEF WindowsNew
    <3>2. CASE q.frame = copy.frame
      BY <1>1, <1>3, <3>2, Zenon
    <3> QED
      BY <2>1, <3>1, <3>2
  <2>4. OneWindow'
    <3> SUFFICES ASSUME NEW q \in receivedPackets', NEW r \in receivedPackets',
                        SameName(q.frame, r.frame)
                 PROVE  q = r
      BY DEF OneWindow
    <3>1. CASE \E p \in receivedPackets : q = Joined(p, copy)
      <4>1. PICK p \in receivedPackets : q = Joined(p, copy)
        BY <3>1
      <4>2. CASE \E o \in receivedPackets : r = Joined(o, copy)
        <5>1. PICK o \in receivedPackets : r = Joined(o, copy)
          BY <4>2
        <5>2. SameName(p.frame, o.frame)
          BY <2>2, <4>1, <5>1, Zenon
        <5>3. p = o
          BY <1>2, <5>2, Zenon DEF OneWindow
        <5> QED
          BY <4>1, <5>1, <5>3, Zenon
      <4>3. CASE r.frame = copy.frame /\ \A o \in receivedPackets : ~SameName(o.frame, copy.frame)
        BY <2>2, <4>1, <4>3, Zenon
      <4> QED
        BY <2>1, <4>2, <4>3, Zenon
    <3>2. CASE /\ q.frame = copy.frame /\ q.endOfWaiting = Window
               /\ \A o \in receivedPackets : ~SameName(o.frame, copy.frame)
      <4>1. CASE \E o \in receivedPackets : r = Joined(o, copy)
        <5>1. PICK o \in receivedPackets : r = Joined(o, copy)
          BY <4>1
        <5>2. SameName(o.frame, copy.frame)
          BY <2>2, <3>2, <5>1 DEF SameName
        <5> QED
          BY <3>2, <5>2
      <4>2. CASE ~ \E o \in receivedPackets : r = Joined(o, copy)
        <5>1. /\ ~ \E o \in receivedPackets : q = Joined(o, copy)
              /\ ~ \E o \in receivedPackets : r = Joined(o, copy)
          <6>1. ASSUME NEW o \in receivedPackets, q = Joined(o, copy)
                PROVE  FALSE
            <7>1. q.frame = o.frame
              BY <2>2, <6>1, Zenon
            <7> QED
              BY <3>2, <7>1, Zenon DEF SameName
          <6> QED
            BY <4>2, <6>1
        <5> DEFINE new == [frame |-> copy.frame, endOfWaiting |-> Window,
                           possibleGateways |-> <<[gateway |-> copy.gateway, snir |-> copy.snir]>>]
        <5>2. ASSUME NEW w \in AddPktToProcessingTable(copy),
                     ~ \E o \in receivedPackets : w = Joined(o, copy)
              PROVE  w = new
          <6>1. CASE \E o \in receivedPackets : Name(o.frame) = Name(copy.frame)
            BY <5>2, <6>1, Zenon DEF AddPktToProcessingTable, Joined
          <6>2. CASE ~ \E o \in receivedPackets : Name(o.frame) = Name(copy.frame)
            <7>1. w \in receivedPackets => w = Joined(w, copy)
              BY <6>2, Zenon DEF Joined
            <7>2. w \in receivedPackets \/ w = new
              BY <5>2, <6>2, Zenon DEF AddPktToProcessingTable
            <7> QED
              BY <5>2, <7>1, <7>2
          <6> QED
            BY <6>1, <6>2
        <5> QED
          BY <1>7, <5>1, <5>2, Zenon
      <4> QED
        BY <4>1, <4>2
    <3> QED
      BY <2>1, <3>1, <3>2, Zenon
  <2>5. CopiesInWindow'
    <3> SUFFICES ASSUME NEW c \in network, NEW q \in receivedPackets', SameName(c.frame, q.frame)
                 PROVE  c.delay < q.endOfWaiting
      BY <1>1 DEF CopiesInWindow
    <3>1. CASE \E p \in receivedPackets : q = Joined(p, copy)
      <4>1. PICK p \in receivedPackets : q = Joined(p, copy)
        BY <3>1
      <4>2. q.frame = p.frame /\ q.endOfWaiting = p.endOfWaiting
        BY <2>2, <4>1
      <4> QED
        BY <1>2, <4>2 DEF CopiesInWindow
    <3>2. CASE q.frame = copy.frame /\ q.endOfWaiting = Window
      <4>1. SameName(copy.frame, c.frame)
        BY <3>2 DEF SameName
      <4>2. c.delay <= copy.delay + MaxJitter
        BY <1>2, <4>1 DEF CopiesTogether
      <4>3. c.delay \in Nat
        BY <1>2, CopyTypes
      <4> QED
        BY <1>1, <3>2, <4>2, <4>3
    <3> QED
      BY <2>1, <3>1, <3>2
  <2> QED
    BY <1>4, <1>5, <2>3, <2>4, <2>5
<1> QED
  BY <1>6, <1>7, Zenon DEF HandleFrame

\* No copy of a frame is on its way when the frame's window closes.
LEMMA ProcessScheduledPacketCount ==
    ASSUME CountInv, NEW p \in receivedPackets, ProcessScheduledPacket(p)
    PROVE  CopiesNew' /\ CopiesTogether' /\ CopiesInWindow' /\ WindowsNew' /\ OneWindow' /\ HistoryInv'
<1>1. /\ p.endOfWaiting = 0 /\ receivedPackets' = receivedPackets \ {p}
      /\ counted' = counted \union {Name(p.frame)}
      /\ network' = network /\ heard' = heard /\ sent' = sent
  BY Zenon DEF ProcessScheduledPacket, envVars
<1>2. /\ CopiesNew /\ CopiesTogether /\ CopiesInWindow /\ WindowsNew /\ OneWindow /\ HistoryInv
      /\ TypeOK
  BY DEF CountInv
<1>3. CopiesNew'
  <2> SUFFICES ASSUME NEW c \in network
               PROVE  Name(c.frame) # Name(p.frame)
    BY <1>1, <1>2, Zenon DEF CopiesNew
  <2>1. SameName(c.frame, p.frame) => c.delay < p.endOfWaiting
    BY <1>2 DEF CopiesInWindow
  <2>2. c.delay \in Nat
    BY <1>2, CopyTypes
  <2>3. ~SameName(c.frame, p.frame)
    BY <1>1, <2>1, <2>2
  <2> QED
    BY <2>3, SameNames
<1>4. CopiesTogether' /\ CopiesInWindow'
  BY <1>1, <1>2 DEF CopiesTogether, CopiesInWindow
<1>5. WindowsNew'
  <2> SUFFICES ASSUME NEW q \in receivedPackets, q # p
               PROVE  Name(q.frame) \in heard /\ Name(q.frame) \notin counted \union {Name(p.frame)}
    BY <1>1, Zenon DEF WindowsNew
  <2>1. ~SameName(q.frame, p.frame)
    BY <1>2, Zenon DEF OneWindow
  <2>2. Name(q.frame) # Name(p.frame)
    BY <2>1, SameNames
  <2> QED
    BY <1>2, <2>2, Zenon DEF WindowsNew
<1>6. OneWindow'
  BY <1>1, <1>2, Zenon DEF OneWindow
<1>7. HistoryInv'
  BY <1>1, <1>2, Zenon DEF HistoryInv, WindowsNew
<1> QED
  BY <1>3, <1>4, <1>5, <1>6, <1>7

\* Time brings copies and the ends of windows nearer alike.
LEMMA TickCount ==
    ASSUME CountInv, Tick
    PROVE  CopiesNew' /\ CopiesTogether' /\ CopiesInWindow' /\ WindowsNew' /\ OneWindow' /\ HistoryInv'
<1>1. /\ network' = {[c EXCEPT !.delay = @ - 1] : c \in network}
      /\ receivedPackets' = {[p EXCEPT !.endOfWaiting = @ - 1] : p \in receivedPackets}
      /\ sent' = sent /\ heard' = heard /\ counted' = counted
  BY Zenon DEF Tick, countVars
<1>2. /\ CopiesNew /\ CopiesTogether /\ CopiesInWindow /\ WindowsNew /\ OneWindow /\ HistoryInv
      /\ TypeOK
  BY DEF CountInv
<1>3. ASSUME NEW c \in network'
      PROVE  \E old \in network : c.frame = old.frame /\ c.delay = old.delay - 1
  <2>1. PICK old \in network : c = [old EXCEPT !.delay = @ - 1]
    BY <1>1, Zenon
  <2>2. old \in Copy
    BY <1>2, CopyTypes
  <2> QED
    BY <2>1, <2>2, Zenon DEF Copy
<1>4. ASSUME NEW q \in receivedPackets'
      PROVE  \E old \in receivedPackets : /\ q = [old EXCEPT !.endOfWaiting = @ - 1]
                                          /\ q.frame = old.frame
                                          /\ q.endOfWaiting = old.endOfWaiting - 1
  <2>1. PICK old \in receivedPackets : q = [old EXCEPT !.endOfWaiting = @ - 1]
    BY <1>1, Zenon
  <2>2. old \in ReceivedPacket
    BY <1>2, WindowTypes
  <2> QED
    BY <2>1, <2>2, Zenon DEF ReceivedPacket
<1>5. CopiesNew'
  BY <1>1, <1>2, <1>3, Zenon DEF CopiesNew
<1>6. CopiesTogether'
  <2> SUFFICES ASSUME NEW c \in network', NEW d \in network', SameName(c.frame, d.frame)
               PROVE  d.delay <= c.delay + MaxJitter
    BY DEF CopiesTogether
  <2>1. PICK oldC \in network : c.frame = oldC.frame /\ c.delay = oldC.delay - 1
    BY <1>3
  <2>2. PICK oldD \in network : d.frame = oldD.frame /\ d.delay = oldD.delay - 1
    BY <1>3
  <2>3. oldD.delay <= oldC.delay + MaxJitter /\ oldC.delay \in Nat /\ oldD.delay \in Nat
    BY <1>2, <2>1, <2>2, CopyTypes DEF CopiesTogether
  <2> QED
    BY <2>1, <2>2, <2>3
<1>7. CopiesInWindow'
  <2> SUFFICES ASSUME NEW c \in network', NEW q \in receivedPackets', SameName(c.frame, q.frame)
               PROVE  c.delay < q.endOfWaiting
    BY DEF CopiesInWindow
  <2>1. PICK oldC \in network : c.frame = oldC.frame /\ c.delay = oldC.delay - 1
    BY <1>3
  <2>2. PICK oldQ \in receivedPackets : q.frame = oldQ.frame /\ q.endOfWaiting = oldQ.endOfWaiting - 1
    BY <1>4
  <2>3. oldC.delay < oldQ.endOfWaiting /\ oldC.delay \in Nat /\ oldQ.endOfWaiting \in Nat
    BY <1>2, <2>1, <2>2, CopyTypes, WindowTypes DEF CopiesInWindow
  <2> QED
    BY <2>1, <2>2, <2>3
<1>8. WindowsNew'
  BY <1>1, <1>2, <1>4, Zenon DEF WindowsNew
<1>9. OneWindow'
  <2> SUFFICES ASSUME NEW q \in receivedPackets', NEW r \in receivedPackets', SameName(q.frame, r.frame)
               PROVE  q = r
    BY DEF OneWindow
  <2>1. PICK oldQ \in receivedPackets : q = [oldQ EXCEPT !.endOfWaiting = @ - 1] /\ q.frame = oldQ.frame
    BY <1>4
  <2>2. PICK oldR \in receivedPackets : r = [oldR EXCEPT !.endOfWaiting = @ - 1] /\ r.frame = oldR.frame
    BY <1>4
  <2>3. oldQ = oldR
    BY <1>2, <2>1, <2>2, Zenon DEF OneWindow
  <2> QED
    BY <2>1, <2>2, <2>3, Zenon
<1>10. HistoryInv'
  BY <1>1, <1>2 DEF HistoryInv
<1> QED
  BY <1>5, <1>6, <1>7, <1>8, <1>9, <1>10

LEMMA CountInvariant == ASSUME MaxJitter < Window PROVE Spec => []CountInv
<1>1. Init => CountInv
  BY TypeInit DEF Init, HasReading, CountInv, CopiesNew, CopiesTogether, CopiesInWindow,
                  WindowsNew, OneWindow, HistoryInv
<1>2. CountInv /\ [Next]_vars => CountInv'
  <2> SUFFICES ASSUME CountInv, [Next]_vars
               PROVE  CountInv'
    OBVIOUS
  <2>1. TypeOK' /\ HasReading'
    BY TypeNext, HasReadingNext DEF CountInv
  <2>2. CASE Send
    BY <2>1, <2>2, SendFrameCount DEF Send, CountInv
  <2>3. CASE Receive
    BY <2>1, <2>3, HandleFrameCount DEF Receive, CountInv
  <2>4. CASE EndOfWaiting
    BY <2>1, <2>4, ProcessScheduledPacketCount DEF EndOfWaiting, CountInv
  <2>5. CASE Tick
    BY <2>1, <2>5, TickCount DEF CountInv
  <2>6. CASE UNCHANGED vars
    <3>1. UNCHANGED <<network, receivedPackets, sent, heard, counted>>
      BY <2>6 DEF vars, envVars, countVars
    <3> QED
      BY <2>1, <3>1, Zenon DEF CountInv, CopiesNew, CopiesTogether, CopiesInWindow, WindowsNew,
                        OneWindow, HistoryInv
  <2> QED
    BY <2>2, <2>3, <2>4, <2>5, <2>6 DEF Next
<1> QED
  BY <1>1, <1>2, PTL DEF Spec

-----------------------------------------------------------------------------
\* A step counts a frame that was heard and not counted, once, or hears one, or stutters.
LEMMA ReceiveImplements ==
    ASSUME CountInv, NEW copy \in network, HandleFrame(copy)
    PROVE  Counter!Next \/ UNCHANGED Counter!vars
<1> DEFINE n == copy.frame.src
           s == copy.frame.seq
<1>1. n \in Nodes /\ s \in 0..(MaxFrames - 1)
  <2>1. n \in Nodes /\ s \in Nat /\ s < sent[n]
    BY CopyTypes DEF CountInv, CopiesNew
  <2>2. sent[n] \in 0..MaxFrames
    BY <2>1 DEF CountInv, TypeOK
  <2> QED
    BY <2>1, <2>2
<1>2. heard' = heard \union {<<n, s>>} /\ UNCHANGED <<counted, numReceivedPerNode>>
  BY Zenon DEF HandleFrame, Name, countVars
<1> HIDE DEF n, s
<1>3. CASE <<n, s>> \in heard
  <2>1. heard' = heard
    BY <1>2, <1>3
  <2> QED
    BY <1>2, <2>1 DEF Counter!vars
<1>4. CASE <<n, s>> \notin heard
  <2>1. Counter!Hear(n, s)
    BY <1>2, <1>4 DEF Counter!Hear
  <2> QED
    BY <1>1, <2>1 DEF Counter!Next
<1> QED
  BY <1>3, <1>4

LEMMA EndOfWaitingImplements ==
    ASSUME CountInv, NEW p \in receivedPackets, ProcessScheduledPacket(p)
    PROVE  Counter!Next
<1> DEFINE n == p.frame.src
           s == p.frame.seq
<1>1. <<n, s>> \in heard \ counted
  BY DEF CountInv, WindowsNew, Name
<1>2. n \in Nodes /\ s \in 0..(MaxFrames - 1)
  <2>1. n \in Nodes /\ s \in Nat
    BY WindowTypes DEF CountInv
  <2>2. s < sent[n]
    BY <1>1, <2>1 DEF CountInv, HistoryInv
  <2>3. sent[n] \in 0..MaxFrames
    BY <2>1 DEF CountInv, TypeOK
  <2> QED
    BY <2>1, <2>2, <2>3
<1>3. /\ counted' = counted \union {<<n, s>>}
      /\ numReceivedPerNode' = [numReceivedPerNode EXCEPT ![n] = @ + 1]
      /\ UNCHANGED heard
  BY Zenon DEF ProcessScheduledPacket, Name
<1> HIDE DEF n, s
<1>4. Counter!Count(n, s)
  BY <1>1, <1>3 DEF Counter!Count
<1> QED
  BY <1>2, <1>4 DEF Counter!Next

(***************************************************************************)
(* The server counts every frame at most once, and only frames it heard,   *)
(* for any numbers of nodes, gateways and frames, any air times and any    *)
(* window, when the copies of a frame arrive less than a window apart:     *)
(* isPacketProcessed lets a copy of the latest frame through, so it is the *)
(* window that keeps late copies from being counted again.                 *)
(***************************************************************************)
THEOREM ServerImplementsFrameCounter ==
    ASSUME MaxJitter < Window
    PROVE  Spec => ImplementsFrameCounter
<1>1. Init => Counter!Init
  BY DEF Init, Counter!Init
<1>2. CountInv /\ [Next]_vars => [Counter!Next]_(Counter!vars)
  <2> SUFFICES ASSUME CountInv, [Next]_vars
               PROVE  Counter!Next \/ UNCHANGED Counter!vars
    OBVIOUS
  <2>1. CASE Send
    <3>1. UNCHANGED <<heard, counted, numReceivedPerNode>>
      BY <2>1, Zenon DEF Send, SendFrame, countVars
    <3> QED
      BY <3>1 DEF Counter!vars
  <2>2. CASE Receive
    BY <2>2, ReceiveImplements DEF Receive
  <2>3. CASE EndOfWaiting
    BY <2>3, EndOfWaitingImplements DEF EndOfWaiting
  <2>4. CASE Tick
    <3>1. UNCHANGED <<heard, counted, numReceivedPerNode>>
      BY <2>4, Zenon DEF Tick, countVars
    <3> QED
      BY <3>1 DEF Counter!vars
  <2>5. CASE UNCHANGED vars
    BY <2>5 DEF vars, countVars, Counter!vars
  <2> QED
    BY <2>1, <2>2, <2>3, <2>4, <2>5 DEF Next
<1> QED
  BY <1>1, <1>2, CountInvariant, PTL DEF Spec, ImplementsFrameCounter, Counter!Spec

-----------------------------------------------------------------------------
(***************************************************************************)
(* Both counters of the delivery ratio are the sizes of sets of frames,    *)
(* and the frames counted are among those sent.                            *)
(***************************************************************************)
SentFrames == {e \in Nodes \X Nat : e[2] < sent[e[1]]}

RatioInv ==
    /\ Warm
    /\ IsFiniteSet(SentFrames) /\ counterOfSentPacketsFromNodes = Cardinality(SentFrames)
    /\ IsFiniteSet(counted) /\ counterUniqueReceivedPackets = Cardinality(counted)

LEMMA RatioInit == ASSUME WarmupPeriod = 0, Init PROVE RatioInv
<1>1. SentFrames = {} /\ counted = {}
  BY DEF Init, SentFrames
<1> QED
  BY <1>1, FS_EmptySet DEF Init, RatioInv, Warm

LEMMA RatioNext == ASSUME CountInv, RatioInv, [Next]_vars PROVE RatioInv'
<1>1. ASSUME NEW n \in Nodes, NEW sf \in SFs, SendFrame(n, sf, FALSE, sf)
      PROVE  RatioInv'
  <2>1. /\ sent' = [sent EXCEPT ![n] = @ + 1]
        /\ UNCHANGED <<warmup, counted, counterUniqueReceivedPackets>>
        /\ CountSentPacket(sf)
    BY <1>1, Zenon DEF SendFrame, countVars
  <2>2. counterOfSentPacketsFromNodes' = counterOfSentPacketsFromNodes + 1
    BY <2>1 DEF CountSentPacket, RatioInv
  <2>3. sent \in [Nodes -> Nat]
    BY DEF CountInv, TypeOK
  <2>4. SentFrames' = SentFrames \union {<<n, sent[n]>>} /\ <<n, sent[n]>> \notin SentFrames
    <3>1. ASSUME NEW e \in Nodes \X Nat
          PROVE  e[2] < sent'[e[1]] <=> e[2] < sent[e[1]] \/ e = <<n, sent[n]>>
      <4>1. CASE e[1] = n
        BY <2>1, <2>3, <4>1
      <4>2. CASE e[1] # n
        BY <2>1, <2>3, <4>2
      <4> QED
        BY <4>1, <4>2
    <3>2. <<n, sent[n]>> \in Nodes \X Nat
      BY <2>3
    <3>3. <<n, sent[n]>> \notin SentFrames
      BY <2>3 DEF SentFrames
    <3>4. SentFrames' = {e \in Nodes \X Nat : e[2] < sent'[e[1]]}
      BY DEF SentFrames
    <3> QED
      BY <3>1, <3>2, <3>3, <3>4, Zenon DEF SentFrames
  <2>5. /\ IsFiniteSet(SentFrames \union {<<n, sent[n]>>})
        /\ Cardinality(SentFrames \union {<<n, sent[n]>>}) = Cardinality(SentFrames) + 1
    BY <2>4, FS_AddElement DEF RatioInv
  <2> QED
    BY <2>1, <2>2, <2>4, <2>5 DEF RatioInv, Warm
<1>2. ASSUME NEW p \in receivedPackets, ProcessScheduledPacket(p)
      PROVE  RatioInv'
  <2>1. /\ UNCHANGED <<sent, counterOfSentPacketsFromNodes, warmup>>
        /\ counted' = counted \union {Name(p.frame)}
        /\ Warm => counterUniqueReceivedPackets' = counterUniqueReceivedPackets + 1
    BY <1>2, Zenon DEF ProcessScheduledPacket, envVars
  <2>2. Name(p.frame) \notin counted
    BY DEF CountInv, WindowsNew
  <2>3. IsFiniteSet(counted') /\ Cardinality(counted') = Cardinality(counted) + 1
    BY <2>1, <2>2, FS_AddElement DEF RatioInv
  <2> QED
    BY <2>1, <2>3 DEF RatioInv, Warm, SentFrames
<1>3. CASE UNCHANGED <<sent, counterOfSentPacketsFromNodes, warmup, counted,
                       counterUniqueReceivedPackets>>
  BY <1>3 DEF RatioInv, Warm, SentFrames
<1>4. ASSUME NEW copy \in network, HandleFrame(copy)
      PROVE  RatioInv'
  BY <1>3, <1>4, Zenon DEF HandleFrame, envVars, countVars
<1>5. CASE Tick
  <2>1. warmup' = 0
    BY <1>5 DEF Tick, Down, RatioInv, Warm
  <2> QED
    BY <1>3, <1>5, <2>1, Zenon DEF Tick, countVars, RatioInv, Warm
<1>6. CASE UNCHANGED vars
  BY <1>3, <1>6 DEF vars, envVars, countVars
<1> QED
  BY <1>1, <1>2, <1>4, <1>5, <1>6, Zenon DEF Next, Send, Receive, EndOfWaiting

(***************************************************************************)
(* LoRa_NS_DER is at most one: without a warm-up period, the unique frames *)
(* counted at the ends of windows are no more than those the nodes         *)
(* reported with LoRa_AppPacketSent.                                       *)
(***************************************************************************)
THEOREM DeliveryRatioCorrect ==
    ASSUME MaxJitter < Window, WarmupPeriod = 0
    PROVE  Spec => []DeliveryRatio
<1>1. Init => RatioInv
  BY RatioInit
<1>2. CountInv /\ RatioInv /\ [Next]_vars => RatioInv'
  BY RatioNext
<1>3. CountInv /\ RatioInv => DeliveryRatio
  <2> SUFFICES ASSUME CountInv, RatioInv
               PROVE  DeliveryRatio
    OBVIOUS
  <2>1. counted \subseteq SentFrames
    <3>1. counted \subseteq Nodes \X Nat /\ counted \subseteq heard
      BY DEF CountInv, TypeOK, HistoryInv
    <3>2. ASSUME NEW e \in counted
          PROVE  e[2] < sent[e[1]]
      <4>1. e[1] \in Nodes /\ e[2] \in Nat /\ e = <<e[1], e[2]>>
        BY <3>1
      <4>2. <<e[1], e[2]>> \in heard
        BY <3>1, <4>1
      <4> QED
        BY <4>1, <4>2, Zenon DEF CountInv, HistoryInv
    <3> QED
      BY <3>1, <3>2 DEF SentFrames
  <2>2. Cardinality(counted) <= Cardinality(SentFrames)
    BY <2>1, FS_Subset DEF RatioInv
  <2> QED
    BY <2>2 DEF RatioInv, DeliveryRatio
<1> QED
  BY <1>1, <1>2, <1>3, CountInvariant, PTL DEF Spec
=============================================================================
