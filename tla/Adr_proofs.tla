----------------------------- MODULE Adr_proofs -----------------------------
(***************************************************************************)
(* Adaptive data rate, for any numbers of nodes, gateways and frames, any  *)
(* delays and any limits.                                                  *)
(*                                                                         *)
(* First the server's half, about NetworkServerApp: how often evaluateADR  *)
(* answers a node, how the answers are counted, and through which gateway  *)
(* they go.  Then what the two halves do together, about AdrLoop: the      *)
(* commands of the server, computed from a frame, against the state of the *)
(* node that gets them later.                                              *)
(***************************************************************************)
EXTENDS AdrLoop, NetworkServerApp_proofs

USE NumbersAssumption, DelaysAssumption, AdrAssumption, LoopAssumption

-----------------------------------------------------------------------------
(***************************************************************************)
(* Each command answers a frame of its own, because a frame is counted     *)
(* once; so the number of commands can be counted along with the frames.   *)
(***************************************************************************)
NoRequests ==
    /\ \A c \in network : c.frame.adrAckReq = FALSE
    /\ \A p \in receivedPackets : p.frame.adrAckReq = FALSE
CommandsAnswerCounted == \A c \in commands : <<c.to, c.seq>> \in counted
CommandsTo(n) == {c \in commands : c.to = n}

PaceInv == NoRequests /\ CommandsAnswerCounted /\ IsFiniteSet(commands) /\ AdrPace
PacketsInv ==
    Warm /\ \A n \in Nodes : numberOfSentADRPackets[n] = Cardinality(CommandsTo(n))

LEMMA Distributes == \A a, b \in Nat : a * (b + 1) = a * b + a
OBVIOUS

LEMMA PaceInit == ASSUME Init PROVE PaceInv
<1>1. network = {} /\ receivedPackets = {} /\ commands = {}
  BY DEF Init
<1>2. NoRequests /\ CommandsAnswerCounted /\ IsFiniteSet(commands)
  BY <1>1, FS_EmptySet DEF NoRequests, CommandsAnswerCounted
<1>3. ASSUME NEW n \in Nodes
      PROVE  /\ numReceivedPerNode[n] = 0 /\ framesFromLastADRCommand[n] = 0
             /\ Len(adrListSNIR[n]) = 0 /\ Cardinality({c \in commands : c.to = n}) = 0
  <2>1. {c \in commands : c.to = n} = {}
    BY <1>1
  <2>2. adrListSNIR[n] = <<>> /\ numReceivedPerNode[n] = 0 /\ framesFromLastADRCommand[n] = 0
    BY DEF Init
  <2>3. Len(adrListSNIR[n]) = 0
    BY <2>2
  <2>4. Cardinality({c \in commands : c.to = n}) = 0
    BY <2>1, FS_EmptySet, Zenon
  <2> QED
    BY <2>2, <2>3, <2>4
<1>4. AdrPace
  <2>1. ASSUME NEW n \in Nodes
        PROVE  /\ numReceivedPerNode[n] = framesFromLastADRCommand[n]
                      + AdrFrames * Cardinality({c \in commands : c.to = n})
               /\ Len(adrListSNIR[n]) = IF numReceivedPerNode[n] < AdrFrames
                                        THEN numReceivedPerNode[n] ELSE AdrFrames - 1
    <3>1. AdrFrames * 0 = 0 /\ 0 < AdrFrames
      OBVIOUS
    <3> QED
      BY <1>3, <3>1, SMTT(40)
  <2> QED
    BY <2>1, Zenon DEF AdrPace
<1> QED
  BY <1>2, <1>4 DEF PaceInv

LEMMA PacketsInit == ASSUME Init, WarmupPeriod = 0 PROVE PacketsInv
<1>1. ASSUME NEW n \in Nodes
      PROVE  numberOfSentADRPackets[n] = Cardinality(CommandsTo(n))
  <2>1. CommandsTo(n) = {}
    BY DEF Init, CommandsTo
  <2> QED
    BY <2>1, FS_EmptySet DEF Init
<1> QED
  BY <1>1 DEF Init, PacketsInv, Warm

-----------------------------------------------------------------------------
\* The frames under way and in their windows ask for no answer.
LEMMA NoRequestsNext == ASSUME TypeOK, NoRequests, [Next]_vars PROVE NoRequests'
<1>1. ASSUME NEW n \in Nodes, NEW sf \in SFs, SendFrame(n, sf, FALSE, sf)
      PROVE  NoRequests'
  <2>1. ASSUME NEW c \in network', c \notin network
        PROVE  c.frame.adrAckReq = FALSE
    <3> DEFINE frame == [src |-> n, seq |-> sent[n], sf |-> sf, adrAckReq |-> FALSE]
    <3>1. PICK snir \in [Gateways -> SNIRs \union {Lost}], airTime \in AirTimes,
               jitter \in [Gateways -> 0..MaxJitter] :
            /\ heardBy' = [heardBy EXCEPT ![n] = snir]
            /\ network' = network \union
               {[frame |-> frame, gateway |-> g, snir |-> snir[g], delay |-> airTime + jitter[g]] :
                    g \in {h \in Gateways : snir[h] # Lost}}
      BY <1>1, Zenon DEF SendFrame
    <3>2. PICK g \in Gateways : c = [frame |-> frame, gateway |-> g, snir |-> snir[g],
                                     delay |-> airTime + jitter[g]]
      BY <2>1, <3>1, Zenon
    <3>3. c.frame = frame
      BY <3>2, Zenon
    <3> QED
      BY <3>3
  <2>2. receivedPackets' = receivedPackets
    BY <1>1, Zenon DEF SendFrame
  <2> QED
    BY <2>1, <2>2 DEF NoRequests
<1>2. ASSUME NEW copy \in network, HandleFrame(copy)
      PROVE  NoRequests'
  <2>1. network' = network \ {copy}
    BY <1>2, Zenon DEF HandleFrame
  <2>2. receivedPackets' = receivedPackets \/ receivedPackets' = AddPktToProcessingTable(copy)
    BY <1>2, Zenon DEF HandleFrame
  <2>3. ASSUME NEW q \in AddPktToProcessingTable(copy)
        PROVE  q.frame.adrAckReq = FALSE
    <3>1. \/ \E p \in receivedPackets : q = Joined(p, copy)
          \/ q.frame = copy.frame
      BY AddedWindow, Zenon
    <3>2. \A p \in receivedPackets : Joined(p, copy).frame = p.frame
      BY JoinedKeeps
    <3> QED
      BY <3>1, <3>2, Zenon DEF NoRequests
  <2> QED
    BY <2>1, <2>2, <2>3, Zenon DEF NoRequests
<1>3. ASSUME NEW p \in receivedPackets, ProcessScheduledPacket(p)
      PROVE  NoRequests'
  <2>1. receivedPackets' = receivedPackets \ {p} /\ network' = network
    BY <1>3, Zenon DEF ProcessScheduledPacket
  <2> QED
    BY <2>1 DEF NoRequests
<1>4. CASE Tick
  <2>1. /\ network' = {[c EXCEPT !.delay = @ - 1] : c \in network}
        /\ receivedPackets' = {[p EXCEPT !.endOfWaiting = @ - 1] : p \in receivedPackets}
    BY <1>4, Zenon DEF Tick
  <2>2. ASSUME NEW c \in network
        PROVE  [c EXCEPT !.delay = @ - 1].frame = c.frame
    <3>1. c \in Copy
      BY CopyTypes
    <3> QED
      BY <3>1, Zenon DEF Copy
  <2>3. ASSUME NEW p \in receivedPackets
        PROVE  [p EXCEPT !.endOfWaiting = @ - 1].frame = p.frame
    <3>1. p \in ReceivedPacket
      BY WindowTypes
    <3> QED
      BY <3>1, Zenon DEF ReceivedPacket
  <2>4. ASSUME NEW c \in network'
        PROVE  c.frame.adrAckReq = FALSE
    <3>1. PICK old \in network : c = [old EXCEPT !.delay = @ - 1]
      BY <2>1, Zenon
    <3>2. c.frame = old.frame
      BY <2>2, <3>1, Zenon
    <3> QED
      BY <3>2 DEF NoRequests
  <2>5. ASSUME NEW q \in receivedPackets'
        PROVE  q.frame.adrAckReq = FALSE
    <3>1. PICK old \in receivedPackets : q = [old EXCEPT !.endOfWaiting = @ - 1]
      BY <2>1, Zenon
    <3>2. q.frame = old.frame
      BY <2>3, <3>1, Zenon
    <3> QED
      BY <3>2 DEF NoRequests
  <2> QED
    BY <2>4, <2>5 DEF NoRequests
<1>5. CASE UNCHANGED vars
  BY <1>5 DEF vars, NoRequests
<1> QED
  BY <1>1, <1>2, <1>3, <1>4, <1>5, Zenon DEF Next, Send, Receive, EndOfWaiting

\* The list of SNIRs grows to AdrFrames - 1 values and stays there.
LEMMA RememberedLength ==
    ASSUME NEW list \in Seq(SNIRs), NEW snir \in SNIRs, NEW k \in Nat,
           Len(list) = IF k < AdrFrames THEN k ELSE AdrFrames - 1
    PROVE  Len(Remember(list, snir)) = IF k + 1 < AdrFrames THEN k + 1 ELSE AdrFrames - 1
<1>1. Append(list, snir) \in Seq(SNIRs) /\ Len(Append(list, snir)) = Len(list) + 1
  OBVIOUS
<1>2. Len(list) + 1 = AdrFrames => Len(Tail(Append(list, snir))) = Len(list)
  <2>1. ASSUME NEW s \in Seq(SNIRs), Len(s) = Len(list) + 1
        PROVE  Len(Tail(s)) = Len(list)
    BY <2>1
  <2> QED
    BY <1>1, <2>1
<1>3. CASE Len(list) + 1 = AdrFrames
  <2>1. Len(Remember(list, snir)) = Len(list)
    BY <1>1, <1>2, <1>3, Zenon DEF Remember
  <2> QED
    BY <1>3, <2>1
<1>4. CASE Len(list) + 1 # AdrFrames
  <2>1. Len(Remember(list, snir)) = Len(list) + 1
    BY <1>1, <1>4, Zenon DEF Remember
  <2> QED
    BY <1>4, <2>1
<1> QED
  BY <1>3, <1>4

\* The answer to a frame that is counted now is not among those sent before.
LEMMA AnswerIsNew ==
    ASSUME CountInv, CommandsAnswerCounted, NEW p \in receivedPackets,
           NEW c, c.to = p.frame.src, c.seq = p.frame.seq
    PROVE  c \notin commands
<1>1. <<p.frame.src, p.frame.seq>> \notin counted
  BY DEF CountInv, WindowsNew, Name
<1> QED
  BY <1>1, Zenon DEF CommandsAnswerCounted

\* What evaluateADR does to the commands: one more for the node when it is due, or none.
LEMMA AnswersSent ==
    ASSUME CountInv, PaceInv, NEW p \in receivedPackets,
           EvaluateADR(p.frame, PickedGateway(p.possibleGateways))
    PROVE  \/ /\ ~AdrDue(p.frame.src)
              /\ UNCHANGED <<commands, numberOfSentADRPackets>>
           \/ /\ AdrDue(p.frame.src)
              /\ \E c : /\ c.to = p.frame.src /\ c.seq = p.frame.seq /\ c \notin commands
                        /\ commands' = commands \union {c}
              /\ Warm => numberOfSentADRPackets' =
                             [numberOfSentADRPackets EXCEPT ![p.frame.src] = @ + 1]
<1> DEFINE n == p.frame.src
           due == AdrDue(n)
           picked == PickedGateway(p.possibleGateways)
<1>1. p.frame.adrAckReq = FALSE
  BY DEF PaceInv, NoRequests
<1>2. AnswerDue(p.frame) <=> due
  BY <1>1 DEF AnswerDue
<1>3. CASE ~due
  BY <1>2, <1>3, Zenon DEF EvaluateADR
<1>4. CASE due
  <2>1. \E sf \in 7..p.frame.sf : commands' = commands \union
            {[to |-> n, gateway |-> picked.gateway, seq |-> p.frame.seq, loRaSF |-> sf]}
    BY <1>2, <1>4, Zenon DEF EvaluateADR
  <2>2. PICK sf \in 7..p.frame.sf : commands' = commands \union
            {[to |-> n, gateway |-> picked.gateway, seq |-> p.frame.seq, loRaSF |-> sf]}
    BY <2>1
  <2> DEFINE c == [to |-> n, gateway |-> picked.gateway, seq |-> p.frame.seq, loRaSF |-> sf]
  <2>3. c.to = p.frame.src /\ c.seq = p.frame.seq
    OBVIOUS
  <2> HIDE DEF c
  <2>4. c \notin commands
    BY <2>3, AnswerIsNew DEF PaceInv
  <2>5. Warm => numberOfSentADRPackets' = [numberOfSentADRPackets EXCEPT ![n] = @ + 1]
    BY <1>2, <1>4, Zenon DEF EvaluateADR, CountADRPacket
  <2>6. commands' = commands \union {c}
    BY <2>2 DEF c
  <2> QED
    BY <1>4, <2>3, <2>4, <2>5, <2>6, Zenon
<1> QED
  BY <1>3, <1>4

LEMMA CommandsToAdded ==
    ASSUME IsFiniteSet(commands), NEW c, c \notin commands, commands' = commands \union {c},
           NEW m
    PROVE  /\ IsFiniteSet(commands') /\ Cardinality(CommandsTo(m)) \in Nat
           /\ Cardinality(CommandsTo(m)') =
                  IF m = c.to THEN Cardinality(CommandsTo(m)) + 1 ELSE Cardinality(CommandsTo(m))
<1>1. IsFiniteSet(CommandsTo(m)) /\ Cardinality(CommandsTo(m)) \in Nat
  BY FS_Subset, FS_CardinalityType DEF CommandsTo
<1>2. IsFiniteSet(commands')
  BY FS_AddElement
<1>3. CASE m = c.to
  <2>1. CommandsTo(m)' = CommandsTo(m) \union {c} /\ c \notin CommandsTo(m)
    BY <1>3 DEF CommandsTo
  <2> QED
    BY <1>1, <1>2, <1>3, <2>1, FS_AddElement
<1>4. CASE m # c.to
  <2>1. CommandsTo(m)' = CommandsTo(m)
    BY <1>4 DEF CommandsTo
  <2> QED
    BY <1>1, <1>2, <1>4, <2>1
<1> QED
  BY <1>3, <1>4

-----------------------------------------------------------------------------
\* A frame that is counted adds to the frames since the last answer, or is answered.
LEMMA EvaluateADRPace ==
    ASSUME CountInv, PaceInv, evaluateADRinServer, NEW p \in receivedPackets,
           ProcessScheduledPacket(p)
    PROVE  CommandsAnswerCounted' /\ IsFiniteSet(commands') /\ AdrPace'
<1> DEFINE n == p.frame.src
           picked == PickedGateway(p.possibleGateways)
<1>1. /\ EvaluateADR(p.frame, picked) /\ counted' = counted \union {<<n, p.frame.seq>>}
      /\ numReceivedPerNode' = [numReceivedPerNode EXCEPT ![n] = @ + 1]
  BY Zenon DEF ProcessScheduledPacket, Name
<1>2. /\ adrListSNIR' = [adrListSNIR EXCEPT ![n] = Remember(@, picked.snir)]
      /\ framesFromLastADRCommand' =
             [framesFromLastADRCommand EXCEPT ![n] = IF AdrDue(n) THEN 0 ELSE @ + 1]
  BY <1>1, Zenon DEF EvaluateADR
<1>3. /\ n \in Nodes /\ picked.snir \in SNIRs
      /\ numReceivedPerNode \in [Nodes -> Nat] /\ adrListSNIR \in [Nodes -> Seq(SNIRs)]
      /\ framesFromLastADRCommand \in [Nodes -> 0..(AdrFrames - 1)]
  <2>1. p.possibleGateways \in Seq(Reading) /\ p.possibleGateways # <<>>
    BY WindowTypes, Zenon DEF CountInv, HasReading, ReceivedPacket
  <2>2. picked \in Reading
    BY <2>1, PickedGatewayIsBest
  <2>3. picked.snir \in SNIRs
    BY <2>2, Zenon DEF Reading
  <2> QED
    BY <2>3, WindowTypes DEF CountInv, TypeOK
<1> DEFINE Count(m) == Cardinality(CommandsTo(m))
<1>4. ASSUME NEW m \in Nodes
      PROVE  /\ Count(m) \in Nat
             /\ numReceivedPerNode[m] = framesFromLastADRCommand[m] + AdrFrames * Count(m)
             /\ Len(adrListSNIR[m]) = IF numReceivedPerNode[m] < AdrFrames
                                      THEN numReceivedPerNode[m] ELSE AdrFrames - 1
  <2>1. IsFiniteSet(CommandsTo(m))
    BY FS_Subset DEF PaceInv, CommandsTo
  <2> QED
    BY <2>1, FS_CardinalityType DEF PaceInv, AdrPace, CommandsTo
<1>5. /\ CommandsAnswerCounted' /\ IsFiniteSet(commands')
      /\ \A m \in Nodes : Count(m)' = IF m = n /\ AdrDue(n) THEN Count(m) + 1 ELSE Count(m)
  <2>1. CASE ~AdrDue(n) /\ commands' = commands
    <3>1. \A m : Count(m)' = Count(m)
      BY <2>1 DEF CommandsTo
    <3> QED
      BY <1>1, <2>1, <3>1 DEF PaceInv, CommandsAnswerCounted
  <2>2. CASE /\ AdrDue(n)
             /\ \E c : /\ c.to = n /\ c.seq = p.frame.seq /\ c \notin commands
                       /\ commands' = commands \union {c}
    <3>1. PICK c : /\ c.to = n /\ c.seq = p.frame.seq /\ c \notin commands
                   /\ commands' = commands \union {c}
      BY <2>2
    <3>2. CommandsAnswerCounted'
      BY <1>1, <3>1, Zenon DEF PaceInv, CommandsAnswerCounted
    <3>3. ASSUME NEW m
          PROVE  /\ IsFiniteSet(commands')
                 /\ Count(m)' = IF m = c.to THEN Count(m) + 1 ELSE Count(m)
      BY <3>1, CommandsToAdded DEF PaceInv
    <3> QED
      BY <2>2, <3>1, <3>2, <3>3
  <2> QED
    BY <1>1, <2>1, <2>2, AnswersSent
<1>6. ASSUME NEW m \in Nodes
      PROVE  /\ numReceivedPerNode'[m] = framesFromLastADRCommand'[m] + AdrFrames * Count(m)'
             /\ Len(adrListSNIR'[m]) = IF numReceivedPerNode'[m] < AdrFrames
                                       THEN numReceivedPerNode'[m] ELSE AdrFrames - 1
  <2>1. CASE m = n
    <3>1. Len(adrListSNIR'[m]) = IF numReceivedPerNode[m] + 1 < AdrFrames
                                 THEN numReceivedPerNode[m] + 1 ELSE AdrFrames - 1
      <4>1. adrListSNIR'[m] = Remember(adrListSNIR[m], picked.snir)
        BY <1>2, <1>3, <2>1
      <4>2. adrListSNIR[m] \in Seq(SNIRs) /\ numReceivedPerNode[m] \in Nat
        BY <1>3
      <4>3. Len(Remember(adrListSNIR[m], picked.snir)) =
                IF numReceivedPerNode[m] + 1 < AdrFrames
                THEN numReceivedPerNode[m] + 1 ELSE AdrFrames - 1
        <5>1. Len(adrListSNIR[m]) = IF numReceivedPerNode[m] < AdrFrames
                                    THEN numReceivedPerNode[m] ELSE AdrFrames - 1
          BY <1>4
        <5> HIDE DEF picked
        <5> QED
          BY <1>3, <4>2, <5>1, RememberedLength, Zenon
      <4> QED
        BY <4>1, <4>3, Zenon
    <3>2. numReceivedPerNode'[m] = numReceivedPerNode[m] + 1
      BY <1>1, <1>3, <2>1
    <3>3. CASE AdrDue(n)
      <4>1. framesFromLastADRCommand'[m] = 0 /\ framesFromLastADRCommand[m] + 1 = AdrFrames
        BY <1>2, <1>3, <2>1, <3>3 DEF AdrDue
      <4>2. Count(m)' = Count(m) + 1 /\ Count(m) \in Nat
        BY <1>4, <1>5, <2>1, <3>3
      <4>3. AdrFrames * (Count(m) + 1) = AdrFrames * Count(m) + AdrFrames
        BY <4>2, Distributes
      <4>4. AdrFrames * Count(m) \in Nat
        BY <4>2
      <4> HIDE DEF Count
      <4>5. framesFromLastADRCommand[m] \in Nat
        BY <1>3
      <4>6. numReceivedPerNode[m] = framesFromLastADRCommand[m] + AdrFrames * Count(m)
        BY <1>4
      <4>7. numReceivedPerNode'[m] = AdrFrames * (Count(m) + 1)
        BY <3>2, <4>1, <4>3, <4>4, <4>5, <4>6
      <4>8. AdrFrames * Count(m)' = AdrFrames * (Count(m) + 1)
        BY <4>2
      <4>9. AdrFrames * (Count(m) + 1) \in Nat
        BY <4>2
      <4> QED
        BY <3>1, <3>2, <4>1, <4>7, <4>8, <4>9
    <3>4. CASE ~AdrDue(n)
      <4>1. framesFromLastADRCommand'[m] = framesFromLastADRCommand[m] + 1
        BY <1>2, <1>3, <2>1, <3>4
      <4>2. Count(m)' = Count(m) /\ Count(m) \in Nat
        BY <1>4, <1>5, <3>4
      <4> HIDE DEF Count
      <4>3. framesFromLastADRCommand[m] \in Nat /\ AdrFrames * Count(m) \in Nat
        BY <1>3, <4>2
      <4>4. AdrFrames * Count(m)' = AdrFrames * Count(m)
        BY <4>2
      <4> QED
        BY <1>4, <3>1, <3>2, <4>1, <4>3, <4>4
    <3> QED
      BY <3>3, <3>4
  <2>2. CASE m # n
    <3>1. /\ numReceivedPerNode'[m] = numReceivedPerNode[m] /\ adrListSNIR'[m] = adrListSNIR[m]
          /\ framesFromLastADRCommand'[m] = framesFromLastADRCommand[m]
      BY <1>1, <1>2, <1>3, <2>2
    <3>2. Count(m)' = Count(m)
      BY <1>5, <2>2
    <3> HIDE DEF Count
    <3> QED
      BY <1>4, <3>1, <3>2
  <2> QED
    BY <2>1, <2>2
<1>7. AdrPace'
  BY <1>6, Zenon DEF AdrPace, CommandsTo
<1> QED
  BY <1>5, <1>7

LEMMA PaceNext == ASSUME CountInv, PaceInv, [Next]_vars PROVE PaceInv'
<1>1. NoRequests'
  BY NoRequestsNext DEF CountInv, PaceInv
<1>2. CASE UNCHANGED <<adrVars, numReceivedPerNode, counted>>
  <2>1. /\ UNCHANGED <<commands, framesFromLastADRCommand, adrListSNIR>>
        /\ UNCHANGED <<numReceivedPerNode, counted>>
    BY <1>2 DEF adrVars
  <2>2. AdrPace' /\ CommandsAnswerCounted' /\ IsFiniteSet(commands')
    BY <2>1 DEF PaceInv, AdrPace, CommandsAnswerCounted
  <2> QED
    BY <1>1, <2>2 DEF PaceInv
<1>3. ASSUME NEW p \in receivedPackets, ProcessScheduledPacket(p)
      PROVE  PaceInv'
  <2>1. CASE evaluateADRinServer
    BY <1>1, <1>3, <2>1, EvaluateADRPace DEF PaceInv
  <2>2. CASE ~evaluateADRinServer
    <3>1. commands' = commands /\ counted' = counted \union {Name(p.frame)}
      BY <1>3, <2>2, Zenon DEF ProcessScheduledPacket, adrVars
    <3>2. CommandsAnswerCounted' /\ IsFiniteSet(commands')
      BY <3>1, Zenon DEF PaceInv, CommandsAnswerCounted
    <3> QED
      BY <1>1, <2>2, <3>2 DEF PaceInv, AdrPace
  <2> QED
    BY <2>1, <2>2
<1>4. ASSUME NEW n \in Nodes, NEW sf \in SFs, SendFrame(n, sf, FALSE, sf)
      PROVE  PaceInv'
  BY <1>2, <1>4, Zenon DEF SendFrame, countVars
<1>5. ASSUME NEW copy \in network, HandleFrame(copy)
      PROVE  PaceInv'
  BY <1>2, <1>5, Zenon DEF HandleFrame, countVars
<1>6. CASE Tick
  BY <1>2, <1>6, Zenon DEF Tick, countVars
<1>7. CASE UNCHANGED vars
  BY <1>2, <1>7, Zenon DEF vars, countVars
<1> QED
  BY <1>3, <1>4, <1>5, <1>6, <1>7, Zenon DEF Next, Send, Receive, EndOfWaiting

LEMMA PacketsNext ==
    ASSUME CountInv, PaceInv, PacketsInv, [Next]_vars
    PROVE  PacketsInv'
<1>1. warmup' = 0
  BY Zenon DEF Next, Send, Receive, EndOfWaiting, SendFrame, HandleFrame, ProcessScheduledPacket,
               Tick, Down, vars, PacketsInv, Warm
<1>2. CASE UNCHANGED <<commands, numberOfSentADRPackets>>
  BY <1>1, <1>2 DEF PacketsInv, Warm, CommandsTo
<1>3. ASSUME NEW p \in receivedPackets, ProcessScheduledPacket(p), evaluateADRinServer
      PROVE  PacketsInv'
  <2>1. EvaluateADR(p.frame, PickedGateway(p.possibleGateways))
    BY <1>3, Zenon DEF ProcessScheduledPacket
  <2>2. CASE \E c : /\ c.to = p.frame.src /\ c \notin commands
                    /\ commands' = commands \union {c}
                    /\ numberOfSentADRPackets' =
                           [numberOfSentADRPackets EXCEPT ![p.frame.src] = @ + 1]
    <3>1. PICK c : /\ c.to = p.frame.src /\ c \notin commands
                   /\ commands' = commands \union {c}
                   /\ numberOfSentADRPackets' =
                          [numberOfSentADRPackets EXCEPT ![c.to] = @ + 1]
      BY <2>2
    <3>2. numberOfSentADRPackets \in [Nodes -> Nat] /\ c.to \in Nodes
      BY <3>1, WindowTypes DEF CountInv, TypeOK
    <3>3. ASSUME NEW m \in Nodes
          PROVE  numberOfSentADRPackets'[m] = Cardinality(CommandsTo(m))'
      <4>1. Cardinality(CommandsTo(m))' =
                IF m = c.to THEN Cardinality(CommandsTo(m)) + 1 ELSE Cardinality(CommandsTo(m))
        BY <3>1, CommandsToAdded DEF PaceInv
      <4>2. numberOfSentADRPackets[m] = Cardinality(CommandsTo(m))
        BY DEF PacketsInv
      <4> QED
        BY <3>1, <3>2, <4>1, <4>2
    <3> QED
      BY <1>1, <3>3 DEF PacketsInv, Warm
  <2> QED
    BY <1>2, <2>1, <2>2, AnswersSent DEF PacketsInv
<1>4. ASSUME NEW p \in receivedPackets, ProcessScheduledPacket(p), ~evaluateADRinServer
      PROVE  PacketsInv'
  BY <1>2, <1>4, Zenon DEF ProcessScheduledPacket, adrVars
<1>5. ASSUME NEW n \in Nodes, NEW sf \in SFs, SendFrame(n, sf, FALSE, sf)
      PROVE  PacketsInv'
  BY <1>2, <1>5, Zenon DEF SendFrame, adrVars
<1>6. ASSUME NEW copy \in network, HandleFrame(copy)
      PROVE  PacketsInv'
  BY <1>2, <1>6, Zenon DEF HandleFrame, adrVars
<1>7. CASE Tick
  BY <1>2, <1>7, Zenon DEF Tick, adrVars
<1>8. CASE UNCHANGED vars
  BY <1>2, <1>8, Zenon DEF vars, adrVars
<1> QED
  BY <1>3, <1>4, <1>5, <1>6, <1>7, <1>8, Zenon DEF Next, Send, Receive, EndOfWaiting

LEMMA PaceInvariant == ASSUME MaxJitter < Window PROVE Spec => []PaceInv
<1>1. Init => PaceInv
  BY PaceInit
<1>2. CountInv /\ PaceInv /\ [Next]_vars => PaceInv'
  BY PaceNext
<1> QED
  BY <1>1, <1>2, CountInvariant, PTL DEF Spec

(***************************************************************************)
(* evaluateADR answers a node every AdrFrames frames, neither more nor     *)
(* less often, and looks at the SNIRs of the latest AdrFrames - 1 frames   *)
(* before the one it answers.                                              *)
(***************************************************************************)
THEOREM AnswersKeepPace == ASSUME MaxJitter < Window PROVE Spec => []AdrPace
<1>1. PaceInv => AdrPace
  BY DEF PaceInv
<1> QED
  BY <1>1, PaceInvariant, PTL

(***************************************************************************)
(* "Send ADR for node" is the number of ADR packets sent to the node, if   *)
(* there is no warm-up and no node asks for an answer: then nodeIndex is   *)
(* set whenever it is used.                                                *)
(***************************************************************************)
THEOREM AnswersAreCounted == ASSUME MaxJitter < Window PROVE Spec => []AdrPacketsCounted
<1>1. CASE WarmupPeriod = 0
  <2>1. Init => PacketsInv
    BY <1>1, PacketsInit
  <2>2. CountInv /\ PaceInv /\ PacketsInv /\ [Next]_vars => PacketsInv'
    BY PacketsNext
  <2>3. PacketsInv => AdrPacketsCounted
    BY DEF PacketsInv, AdrPacketsCounted, CommandsTo
  <2> QED
    BY <2>1, <2>2, <2>3, CountInvariant, PaceInvariant, PTL DEF Spec
<1>2. CASE WarmupPeriod # 0
  <2>1. AdrPacketsCounted
    BY <1>2 DEF AdrPacketsCounted
  <2> QED
    BY <2>1, PTL
<1> QED
  BY <1>1, <1>2

-----------------------------------------------------------------------------
(***************************************************************************)
(* Why the best gateway is picked.  heardBy holds the SNIRs of a node's    *)
(* last frame.  Until that frame is counted, each gateway that heard it    *)
(* has its copy on the way or its reading in the window; no copy is on the *)
(* way when the window closes.                                             *)
(***************************************************************************)
IsLast(frame) == frame.seq = sent[frame.src] - 1
IsReading(reading, n) == heardBy[n][reading.gateway] = reading.snir

CopiesAreHeard == \A c \in network : IsLast(c.frame) => IsReading(c, c.frame.src)
ReadingsAreHeard ==
    \A p \in receivedPackets : IsLast(p.frame) =>
        \A i \in DOMAIN p.possibleGateways : IsReading(p.possibleGateways[i], p.frame.src)
CopyUnderway(n, g) ==
    \E c \in network : c.frame.src = n /\ IsLast(c.frame) /\ c.gateway = g
ReadingHeld(n, g) ==
    \E p \in receivedPackets : /\ p.frame.src = n /\ IsLast(p.frame)
                               /\ \E i \in DOMAIN p.possibleGateways :
                                      p.possibleGateways[i].gateway = g
NoneMissing ==
    \A n \in Nodes, g \in Gateways :
        sent[n] # 0 /\ <<n, sent[n] - 1>> \notin counted /\ heardBy[n][g] # Lost =>
            CopyUnderway(n, g) \/ ReadingHeld(n, g)
LastIsCurrent == \A n \in Nodes : lastSeqNoProcessed[n] < sent[n]

BestInv ==
    /\ CopiesAreHeard /\ ReadingsAreHeard /\ NoneMissing /\ LastIsCurrent
    /\ CommandsAnswerCounted /\ BestGateway

LEMMA BestInit == ASSUME Init PROVE BestInv
<1>1. CopiesAreHeard /\ ReadingsAreHeard /\ CommandsAnswerCounted /\ BestGateway
  BY DEF Init, CopiesAreHeard, ReadingsAreHeard, CommandsAnswerCounted, BestGateway
<1>2. NoneMissing
  BY DEF Init, NoneMissing
<1>3. LastIsCurrent
  BY DEF Init, LastIsCurrent
<1> QED
  BY <1>1, <1>2, <1>3 DEF BestInv

\* The frames of a node that were heard, counted or answered are older than the one it sends now.
LEMMA SendFrameBest ==
    ASSUME CountInv, BestInv, NEW n \in Nodes, NEW sf \in SFs, SendFrame(n, sf, FALSE, sf)
    PROVE  BestInv'
<1> DEFINE frame == [src |-> n, seq |-> sent[n], sf |-> sf, adrAckReq |-> FALSE]
<1>1. /\ sent' = [sent EXCEPT ![n] = @ + 1]
      /\ UNCHANGED <<receivedPackets, counted, heard, commands, lastSeqNoProcessed>>
  BY Zenon DEF SendFrame, countVars, adrVars
<1>2. PICK snir \in [Gateways -> SNIRs \union {Lost}], airTime \in AirTimes,
           jitter \in [Gateways -> 0..MaxJitter] :
        /\ heardBy' = [heardBy EXCEPT ![n] = snir]
        /\ network' = network \union
               {[frame |-> frame, gateway |-> g, snir |-> snir[g], delay |-> airTime + jitter[g]] :
                    g \in {h \in Gateways : snir[h] # Lost}}
  BY Zenon DEF SendFrame
<1>3. /\ sent \in [Nodes -> Nat] /\ lastSeqNoProcessed \in [Nodes -> Nat \union {-1}]
      /\ heardBy \in [Nodes -> [Gateways -> SNIRs \union {Lost}]]
  <2>1. sent \in [Nodes -> 0..MaxFrames]
    BY DEF CountInv, TypeOK
  <2>2. /\ lastSeqNoProcessed \in [Nodes -> Nat \union {-1}]
        /\ heardBy \in [Nodes -> [Gateways -> SNIRs \union {Lost}]]
    BY Zenon DEF CountInv, TypeOK
  <2>3. sent \in [Nodes -> Nat]
    BY <2>1
  <2> QED
    BY <2>2, <2>3
<1>4. ASSUME NEW m \in Nodes
      PROVE  sent'[m] = (IF m = n THEN sent[n] + 1 ELSE sent[m])
             /\ heardBy'[m] = (IF m = n THEN snir ELSE heardBy[m])
             /\ sent[m] \in Nat
  BY <1>1, <1>2, <1>3
<1>5. ASSUME NEW c \in network', c \notin network
      PROVE  c.frame.src = n /\ c.frame.seq = sent[n] /\ c.snir = snir[c.gateway]
  <2>1. PICK g \in Gateways : c = [frame |-> frame, gateway |-> g, snir |-> snir[g],
                                   delay |-> airTime + jitter[g]]
    BY <1>2, <1>5, Zenon
  <2>2. c.frame = frame /\ c.gateway = g /\ c.snir = snir[g]
    BY <2>1, Zenon
  <2> QED
    BY <2>2
<1>6. \A g \in Gateways : snir[g] # Lost =>
          \E c \in network' : c.frame.src = n /\ c.frame.seq = sent[n] /\ c.gateway = g
  <2> SUFFICES ASSUME NEW g \in Gateways, snir[g] # Lost
               PROVE  \E c \in network' : c.frame.src = n /\ c.frame.seq = sent[n] /\ c.gateway = g
    OBVIOUS
  <2> DEFINE c == [frame |-> frame, gateway |-> g, snir |-> snir[g], delay |-> airTime + jitter[g]]
  <2>1. c \in network'
    BY <1>2, Zenon
  <2>2. c.frame.src = n /\ c.frame.seq = sent[n] /\ c.gateway = g
    OBVIOUS
  <2> HIDE DEF c
  <2> QED
    BY <2>1, <2>2
<1>7. \A s \in Nat : <<n, s>> \in heard => s < sent[n]
  BY DEF CountInv, HistoryInv
<1> HIDE DEF frame
\* A frame sent before is the last one of its node only if the node is another one.
<1>8. ASSUME NEW m \in Nodes, NEW s \in Nat, s < sent[m], s = sent'[m] - 1
      PROVE  m # n /\ s = sent[m] - 1 /\ heardBy'[m] = heardBy[m]
  BY <1>4, <1>8
<1>9. CopiesAreHeard'
  <2> SUFFICES ASSUME NEW c \in network', c.frame.seq = sent'[c.frame.src] - 1
               PROVE  heardBy'[c.frame.src][c.gateway] = c.snir
    BY Zenon DEF CopiesAreHeard, IsLast, IsReading
  <2>1. CASE c \in network
    <3>1. c.frame.src \in Nodes /\ c.frame.seq \in Nat /\ c.frame.seq < sent[c.frame.src]
      BY <2>1, CopyTypes DEF CountInv, CopiesNew
    <3>2. IsLast(c.frame) /\ heardBy'[c.frame.src] = heardBy[c.frame.src]
      BY <1>8, <3>1 DEF IsLast
    <3> QED
      BY <2>1, <3>2 DEF BestInv, CopiesAreHeard, IsReading
  <2>2. CASE c \notin network
    BY <1>4, <1>5, <2>2
  <2> QED
    BY <2>1, <2>2
<1>10. ReadingsAreHeard'
  <2> SUFFICES ASSUME NEW p \in receivedPackets, p.frame.seq = sent'[p.frame.src] - 1,
                      NEW i \in DOMAIN p.possibleGateways
               PROVE  heardBy'[p.frame.src][p.possibleGateways[i].gateway] =
                          p.possibleGateways[i].snir
    BY <1>1, Zenon DEF ReadingsAreHeard, IsLast, IsReading
  <2>1. p.frame.src \in Nodes /\ p.frame.seq \in Nat /\ Name(p.frame) \in heard
    BY WindowTypes DEF CountInv, WindowsNew
  <2>2. p.frame.seq < sent[p.frame.src]
    BY <2>1, Zenon DEF Name, CountInv, HistoryInv
  <2>3. IsLast(p.frame) /\ heardBy'[p.frame.src] = heardBy[p.frame.src]
    BY <1>8, <2>1, <2>2 DEF IsLast
  <2> QED
    BY <2>3 DEF BestInv, ReadingsAreHeard, IsReading
<1>11. NoneMissing'
  <2> SUFFICES ASSUME NEW m \in Nodes, NEW g \in Gateways, sent'[m] # 0,
                      <<m, sent'[m] - 1>> \notin counted, heardBy'[m][g] # Lost
               PROVE  CopyUnderway(m, g)' \/ ReadingHeld(m, g)'
    BY <1>1 DEF NoneMissing
  <2>1. CASE m = n
    <3>1. snir[g] # Lost /\ sent'[n] - 1 = sent[n]
      BY <1>4, <2>1
    <3>2. PICK c \in network' : c.frame.src = n /\ c.frame.seq = sent[n] /\ c.gateway = g
      BY <1>6, <3>1
    <3>3. c.frame.seq = sent'[c.frame.src] - 1
      BY <3>1, <3>2
    <3> QED
      BY <2>1, <3>2, <3>3 DEF CopyUnderway, IsLast
  <2>2. CASE m # n
    <3>1. sent'[m] = sent[m] /\ heardBy'[m] = heardBy[m]
      BY <1>4, <2>2
    <3>2. CopyUnderway(m, g) \/ ReadingHeld(m, g)
      BY <3>1 DEF BestInv, NoneMissing
    <3>3. network \subseteq network' /\ receivedPackets' = receivedPackets
      BY <1>1, <1>2, Zenon
    <3> QED
      BY <3>1, <3>2, <3>3, Zenon DEF CopyUnderway, ReadingHeld, IsLast
  <2> QED
    BY <2>1, <2>2
<1>12. LastIsCurrent'
  BY <1>1, <1>3, <1>4 DEF BestInv, LastIsCurrent
<1>13. CommandsAnswerCounted'
  BY <1>1 DEF BestInv, CommandsAnswerCounted
<1>14. BestGateway'
  <2> SUFFICES ASSUME NEW c \in commands, c.seq = sent'[c.to] - 1
               PROVE  /\ heardBy'[c.to][c.gateway] # Lost
                      /\ \A g \in Gateways : heardBy'[c.to][g] # Lost =>
                             heardBy'[c.to][g] <= heardBy'[c.to][c.gateway]
    BY <1>1 DEF BestGateway
  <2>1. c \in Command
    BY DEF CountInv, TypeOK
  <2>2. c.to \in Nodes /\ c.seq \in Nat
    BY <2>1, Zenon DEF Command
  <2>3. <<c.to, c.seq>> \in heard
    BY Zenon DEF BestInv, CommandsAnswerCounted, CountInv, HistoryInv
  <2>4. c.seq < sent[c.to]
    BY <2>2, <2>3 DEF CountInv, HistoryInv
  <2>5. c.seq = sent[c.to] - 1 /\ heardBy'[c.to] = heardBy[c.to]
    BY <1>8, <2>2, <2>4
  <2> QED
    BY <2>5 DEF BestInv, BestGateway
<1> QED
  BY <1>9, <1>10, <1>11, <1>12, <1>13, <1>14 DEF BestInv

-----------------------------------------------------------------------------
\* The readings of the windows after a copy was added: those before and that of the copy.
ReadingOf(copy) == [gateway |-> copy.gateway, snir |-> copy.snir]

LEMMA JoinedReadings ==
    ASSUME TypeOK, NEW copy \in network, NEW p \in receivedPackets
    PROVE  /\ Joined(p, copy).frame = p.frame
           /\ \A i \in DOMAIN p.possibleGateways :
                  /\ i \in DOMAIN Joined(p, copy).possibleGateways
                  /\ Joined(p, copy).possibleGateways[i] = p.possibleGateways[i]
           /\ \A i \in DOMAIN Joined(p, copy).possibleGateways :
                  \/ /\ i \in DOMAIN p.possibleGateways
                     /\ Joined(p, copy).possibleGateways[i] = p.possibleGateways[i]
                  \/ /\ SameName(p.frame, copy.frame)
                     /\ Joined(p, copy).possibleGateways[i] = ReadingOf(copy)
           /\ SameName(p.frame, copy.frame) =>
                  \E i \in DOMAIN Joined(p, copy).possibleGateways :
                      Joined(p, copy).possibleGateways[i] = ReadingOf(copy)
<1>1. Joined(p, copy).frame = p.frame
  BY JoinedKeeps
<1>2. p \in ReceivedPacket /\ p.possibleGateways \in Seq(Reading)
  <2>1. p \in ReceivedPacket
    BY WindowTypes
  <2> QED
    BY <2>1, Zenon DEF ReceivedPacket
<1>3. CASE ~SameName(p.frame, copy.frame)
  <2>1. Joined(p, copy) = p
    BY <1>3, SameNames, Zenon DEF Joined
  <2> QED
    BY <1>1, <1>3, <2>1
<1>4. CASE SameName(p.frame, copy.frame)
  <2>1. Joined(p, copy).possibleGateways = Append(p.possibleGateways, ReadingOf(copy))
    <3>1. Name(p.frame) = Name(copy.frame)
      BY <1>4, SameNames
    <3>2. Joined(p, copy) = [p EXCEPT !.possibleGateways = Append(@, ReadingOf(copy))]
      BY <3>1, Zenon DEF Joined, ReadingOf
    <3> QED
      BY <1>2, <3>2, Zenon DEF ReceivedPacket
  <2>2. ASSUME NEW s \in Seq(Reading), NEW e
        PROVE  /\ \A i \in DOMAIN s : i \in DOMAIN Append(s, e) /\ Append(s, e)[i] = s[i]
               /\ \A i \in DOMAIN Append(s, e) :
                      (i \in DOMAIN s /\ Append(s, e)[i] = s[i]) \/ Append(s, e)[i] = e
               /\ \E i \in DOMAIN Append(s, e) : Append(s, e)[i] = e
    <3>1. /\ DOMAIN s = 1..Len(s) /\ DOMAIN Append(s, e) = 1..(Len(s) + 1) /\ Len(s) \in Nat
          /\ \A i \in 1..Len(s) : Append(s, e)[i] = s[i]
          /\ Append(s, e)[Len(s) + 1] = e
      OBVIOUS
    <3>2. Len(s) + 1 \in 1..(Len(s) + 1)
      BY <3>1
    <3>3. \A i \in 1..(Len(s) + 1) : i \in 1..Len(s) \/ i = Len(s) + 1
      BY <3>1
    <3>4. \A i \in 1..Len(s) : i \in 1..(Len(s) + 1)
      BY <3>1
    <3> QED
      BY <3>1, <3>2, <3>3, <3>4, Zenon
  <2> DEFINE s == p.possibleGateways
             longer == Append(s, ReadingOf(copy))
  <2>3. /\ \A i \in DOMAIN s : i \in DOMAIN longer /\ longer[i] = s[i]
        /\ \A i \in DOMAIN longer :
               (i \in DOMAIN s /\ longer[i] = s[i]) \/ longer[i] = ReadingOf(copy)
        /\ \E i \in DOMAIN longer : longer[i] = ReadingOf(copy)
    BY <1>2, <2>2
  <2>4. Joined(p, copy).possibleGateways = longer
    BY <2>1
  <2> HIDE DEF longer
  <2> QED
    BY <1>1, <1>4, <2>3, <2>4
<1> QED
  BY <1>3, <1>4

LEMMA AddedReadings ==
    ASSUME TypeOK, NEW copy \in network
    PROVE  /\ \A q \in AddPktToProcessingTable(copy) : \A i \in DOMAIN q.possibleGateways :
                  \/ \E p \in receivedPackets :
                         p.frame = q.frame /\ \E j \in DOMAIN p.possibleGateways :
                             p.possibleGateways[j] = q.possibleGateways[i]
                  \/ /\ SameName(q.frame, copy.frame)
                     /\ q.possibleGateways[i] = ReadingOf(copy)
           /\ \A p \in receivedPackets : \E q \in AddPktToProcessingTable(copy) :
                  q.frame = p.frame /\ \A i \in DOMAIN p.possibleGateways :
                      i \in DOMAIN q.possibleGateways /\ q.possibleGateways[i] = p.possibleGateways[i]
           /\ \E q \in AddPktToProcessingTable(copy) :
                  SameName(q.frame, copy.frame) /\ \E i \in DOMAIN q.possibleGateways :
                      q.possibleGateways[i] = ReadingOf(copy)
<1>1. CASE \E p \in receivedPackets : Name(p.frame) = Name(copy.frame)
  <2>1. AddPktToProcessingTable(copy) = {Joined(p, copy) : p \in receivedPackets}
    BY <1>1, Zenon DEF AddPktToProcessingTable, Joined
  <2>2. ASSUME NEW q \in AddPktToProcessingTable(copy), NEW i \in DOMAIN q.possibleGateways
        PROVE  \/ \E p \in receivedPackets :
                      p.frame = q.frame /\ \E j \in DOMAIN p.possibleGateways :
                          p.possibleGateways[j] = q.possibleGateways[i]
               \/ /\ SameName(q.frame, copy.frame)
                  /\ q.possibleGateways[i] = ReadingOf(copy)
    <3>1. PICK p \in receivedPackets : q = Joined(p, copy)
      BY <2>1
    <3> QED
      BY <3>1, JoinedReadings, Zenon
  <2>3. ASSUME NEW p \in receivedPackets
        PROVE  \E q \in AddPktToProcessingTable(copy) :
                  q.frame = p.frame /\ \A i \in DOMAIN p.possibleGateways :
                      i \in DOMAIN q.possibleGateways /\ q.possibleGateways[i] = p.possibleGateways[i]
    <3>1. Joined(p, copy) \in AddPktToProcessingTable(copy)
      BY <2>1
    <3> QED
      BY <3>1, JoinedReadings, Zenon
  <2>4. PICK p \in receivedPackets : SameName(p.frame, copy.frame)
    BY <1>1, SameNames
  <2>5. /\ Joined(p, copy) \in AddPktToProcessingTable(copy)
        /\ Joined(p, copy).frame = p.frame
        /\ \E i \in DOMAIN Joined(p, copy).possibleGateways :
               Joined(p, copy).possibleGateways[i] = ReadingOf(copy)
    BY <2>1, <2>4, JoinedReadings, Zenon
  <2> QED
    BY <2>2, <2>3, <2>4, <2>5, Zenon
<1>2. CASE ~ \E p \in receivedPackets : Name(p.frame) = Name(copy.frame)
  <2> DEFINE new == [frame |-> copy.frame, possibleGateways |-> <<ReadingOf(copy)>>,
                     endOfWaiting |-> Window]
  <2>1. AddPktToProcessingTable(copy) = receivedPackets \union {new}
    BY <1>2, Zenon DEF AddPktToProcessingTable, ReadingOf
  <2>2. new.frame = copy.frame /\ new.possibleGateways = <<ReadingOf(copy)>>
    OBVIOUS
  <2>3. DOMAIN new.possibleGateways = {1} /\ new.possibleGateways[1] = ReadingOf(copy)
    BY <2>2
  <2> HIDE DEF new
  <2>4. SameName(new.frame, copy.frame)
    BY <2>2 DEF SameName
  <2>5. ASSUME NEW q \in AddPktToProcessingTable(copy), NEW i \in DOMAIN q.possibleGateways
        PROVE  \/ \E p \in receivedPackets :
                      p.frame = q.frame /\ \E j \in DOMAIN p.possibleGateways :
                          p.possibleGateways[j] = q.possibleGateways[i]
               \/ /\ SameName(q.frame, copy.frame)
                  /\ q.possibleGateways[i] = ReadingOf(copy)
    BY <2>1, <2>3, <2>4, Zenon
  <2>6. \A p \in receivedPackets : p \in AddPktToProcessingTable(copy)
    BY <2>1
  <2>7. new \in AddPktToProcessingTable(copy) /\ 1 \in DOMAIN new.possibleGateways
    BY <2>1, <2>3
  <2> QED
    BY <2>3, <2>4, <2>5, <2>6, <2>7, Zenon
<1> QED
  BY <1>1, <1>2

\* A copy of a node's last frame is not discarded: its reading is in the window now.
LEMMA HandleFrameBest ==
    ASSUME CountInv, BestInv, NEW copy \in network, HandleFrame(copy)
    PROVE  BestInv'
<1>1. /\ network' = network \ {copy}
      /\ lastSeqNoProcessed' = [lastSeqNoProcessed EXCEPT ![copy.frame.src] =
             IF @ < copy.frame.seq THEN copy.frame.seq ELSE @]
      /\ receivedPackets' =
             IF IsPacketProcessed(lastSeqNoProcessed'[copy.frame.src], copy.frame)
             THEN receivedPackets ELSE AddPktToProcessingTable(copy)
      /\ UNCHANGED <<sent, heardBy, commands, counted>>
  BY Zenon DEF HandleFrame, envVars, adrVars, countVars
<1>2. /\ TypeOK
      /\ CopiesAreHeard /\ ReadingsAreHeard /\ NoneMissing /\ LastIsCurrent
      /\ CommandsAnswerCounted /\ BestGateway
  BY DEF CountInv, BestInv
<1>3. /\ copy.frame.src \in Nodes /\ copy.frame.seq \in Nat
      /\ copy.frame.seq < sent[copy.frame.src]
  BY <1>2, CopyTypes DEF CountInv, CopiesNew
<1>4. /\ sent \in [Nodes -> 0..MaxFrames] /\ lastSeqNoProcessed \in [Nodes -> Nat \union {-1}]
  BY <1>2, Zenon DEF TypeOK
<1>5. CopiesAreHeard'
  BY <1>1, <1>2, Zenon DEF CopiesAreHeard, IsLast, IsReading
<1>6. LastIsCurrent'
  BY <1>1, <1>2, <1>3, <1>4 DEF LastIsCurrent
<1>7. CommandsAnswerCounted' /\ BestGateway'
  BY <1>1, <1>2 DEF CommandsAnswerCounted, BestGateway
<1>8. ReadingsAreHeard'
  <2>1. CASE receivedPackets' = receivedPackets
    BY <1>1, <1>2, <2>1 DEF ReadingsAreHeard, IsLast, IsReading
  <2>2. CASE receivedPackets' = AddPktToProcessingTable(copy)
    <3> SUFFICES ASSUME NEW q \in AddPktToProcessingTable(copy), IsLast(q.frame),
                        NEW i \in DOMAIN q.possibleGateways
                 PROVE  IsReading(q.possibleGateways[i], q.frame.src)
      BY <1>1, <2>2, Zenon DEF ReadingsAreHeard, IsLast, IsReading
    <3>1. CASE \E p \in receivedPackets :
                   p.frame = q.frame /\ \E j \in DOMAIN p.possibleGateways :
                       p.possibleGateways[j] = q.possibleGateways[i]
      BY <1>2, <3>1, Zenon DEF ReadingsAreHeard
    <3>2. CASE SameName(q.frame, copy.frame) /\ q.possibleGateways[i] = ReadingOf(copy)
      <4>1. IsReading(copy, copy.frame.src) /\ q.frame.src = copy.frame.src
        BY <1>2, <3>2 DEF SameName, CopiesAreHeard, IsLast
      <4> QED
        BY <3>2, <4>1 DEF IsReading, ReadingOf
    <3> QED
      BY <1>2, <3>1, <3>2, AddedReadings, Zenon
  <2> QED
    BY <1>1, <2>1, <2>2
<1>9. NoneMissing'
  <2> SUFFICES ASSUME NEW n \in Nodes, NEW g \in Gateways, sent[n] # 0,
                      <<n, sent[n] - 1>> \notin counted, heardBy[n][g] # Lost
               PROVE  CopyUnderway(n, g)' \/ ReadingHeld(n, g)'
    BY <1>1 DEF NoneMissing
  <2>1. CASE ReadingHeld(n, g)
    <3>1. PICK p \in receivedPackets : /\ p.frame.src = n /\ IsLast(p.frame)
                                       /\ \E i \in DOMAIN p.possibleGateways :
                                              p.possibleGateways[i].gateway = g
      BY <2>1 DEF ReadingHeld
    <3>2. \E q \in receivedPackets' : q.frame = p.frame /\ \A i \in DOMAIN p.possibleGateways :
              i \in DOMAIN q.possibleGateways /\ q.possibleGateways[i] = p.possibleGateways[i]
      BY <1>1, <1>2, AddedReadings, Zenon
    <3>3. PICK q \in receivedPackets' : /\ q.frame = p.frame
                                        /\ \A i \in DOMAIN p.possibleGateways :
                                               /\ i \in DOMAIN q.possibleGateways
                                               /\ q.possibleGateways[i] = p.possibleGateways[i]
      BY <3>2, Zenon
    <3>4. \E i \in DOMAIN q.possibleGateways : q.possibleGateways[i].gateway = g
      BY <3>1, <3>3, Zenon
    <3>5. q.frame.src = n /\ IsLast(q.frame)'
      BY <1>1, <3>1, <3>3 DEF IsLast
    <3> QED
      BY <3>4, <3>5, Zenon DEF ReadingHeld
  <2>2. CASE CopyUnderway(n, g)
    <3>1. PICK c \in network : c.frame.src = n /\ IsLast(c.frame) /\ c.gateway = g
      BY <2>2 DEF CopyUnderway
    <3>2. CASE c # copy
      BY <1>1, <3>1, <3>2 DEF CopyUnderway, IsLast
    <3>3. CASE c = copy
      <4>1. lastSeqNoProcessed'[n] <= copy.frame.seq
        BY <1>1, <1>2, <1>3, <1>4, <3>1, <3>3 DEF LastIsCurrent, IsLast
      <4>2. lastSeqNoProcessed'[n] \in Int /\ copy.frame.src = n
        BY <1>1, <1>3, <1>4, <3>1, <3>3
      <4>3. ~IsPacketProcessed(lastSeqNoProcessed'[copy.frame.src], copy.frame)
        BY <1>3, <4>1, <4>2 DEF IsPacketProcessed
      <4>4. receivedPackets' = AddPktToProcessingTable(copy)
        BY <1>1, <4>3
      <4>5. PICK q \in AddPktToProcessingTable(copy) :
                SameName(q.frame, copy.frame) /\ \E i \in DOMAIN q.possibleGateways :
                    q.possibleGateways[i] = ReadingOf(copy)
        BY <1>2, AddedReadings, Zenon
      <4>6. ReadingOf(copy).gateway = g
        BY <3>1, <3>3 DEF ReadingOf
      <4>7. q.frame.src = n /\ q.frame.seq = sent[q.frame.src] - 1
        BY <3>1, <3>3, <4>5 DEF SameName, IsLast
      <4> QED
        BY <1>1, <4>4, <4>5, <4>6, <4>7, Zenon DEF ReadingHeld, IsLast
    <3> QED
      BY <3>2, <3>3
  <2> QED
    BY <1>2, <2>1, <2>2 DEF NoneMissing
<1> QED
  BY <1>5, <1>6, <1>7, <1>8, <1>9 DEF BestInv

\* When the window of a node's last frame closes, it holds every gateway that heard the frame.
LEMMA ClosingWindowIsComplete ==
    ASSUME CountInv, BestInv, NEW p \in receivedPackets, p.endOfWaiting = 0, IsLast(p.frame),
           NEW g \in Gateways, heardBy[p.frame.src][g] # Lost
    PROVE  \E i \in DOMAIN p.possibleGateways :
               /\ p.possibleGateways[i].gateway = g
               /\ p.possibleGateways[i].snir = heardBy[p.frame.src][g]
<1> DEFINE n == p.frame.src
<1>1. /\ n \in Nodes /\ p.frame.seq \in Nat /\ p.frame.seq = sent[n] - 1
      /\ <<n, p.frame.seq>> \notin counted
  BY WindowTypes DEF CountInv, WindowsNew, Name, IsLast
<1>2. sent[n] # 0 /\ <<n, sent[n] - 1>> \notin counted
  BY <1>1
<1>3. CopyUnderway(n, g) \/ ReadingHeld(n, g)
  BY <1>1, <1>2 DEF BestInv, NoneMissing
<1>4. ~CopyUnderway(n, g)
  <2> SUFFICES ASSUME NEW c \in network, c.frame.src = n, IsLast(c.frame)
               PROVE  FALSE
    BY DEF CopyUnderway
  <2>1. SameName(c.frame, p.frame)
    BY <1>1 DEF SameName, IsLast
  <2>2. c.delay < 0 /\ c.delay \in Nat
    BY <2>1, CopyTypes DEF CountInv, CopiesInWindow
  <2> QED
    BY <2>2
<1>5. PICK q \in receivedPackets : /\ q.frame.src = n /\ IsLast(q.frame)
                                   /\ \E i \in DOMAIN q.possibleGateways :
                                          q.possibleGateways[i].gateway = g
  BY <1>3, <1>4 DEF ReadingHeld
<1>6. SameName(q.frame, p.frame)
  BY <1>1, <1>5 DEF SameName, IsLast
<1>7. q = p
  BY <1>6 DEF CountInv, OneWindow
<1>8. PICK i \in DOMAIN p.possibleGateways : p.possibleGateways[i].gateway = g
  BY <1>5, <1>7
<1>9. p.possibleGateways[i].snir = heardBy[n][g]
  BY <1>8 DEF BestInv, ReadingsAreHeard, IsReading
<1> QED
  BY <1>8, <1>9

LEMMA ProcessScheduledPacketBest ==
    ASSUME CountInv, BestInv, NEW p \in receivedPackets, ProcessScheduledPacket(p)
    PROVE  BestInv'
<1> DEFINE n == p.frame.src
           picked == PickedGateway(p.possibleGateways)
<1>1. /\ p.endOfWaiting = 0 /\ receivedPackets' = receivedPackets \ {p}
      /\ counted' = counted \union {Name(p.frame)}
      /\ UNCHANGED <<network, sent, heardBy, lastSeqNoProcessed>>
  BY Zenon DEF ProcessScheduledPacket, envVars
<1>2. /\ CopiesAreHeard /\ ReadingsAreHeard /\ NoneMissing /\ LastIsCurrent
      /\ CommandsAnswerCounted /\ BestGateway
  BY DEF BestInv
<1>3. CopiesAreHeard' /\ ReadingsAreHeard' /\ LastIsCurrent'
  <2>1. CopiesAreHeard' /\ LastIsCurrent'
    BY <1>1, <1>2, Zenon DEF CopiesAreHeard, LastIsCurrent, IsLast, IsReading
  <2>2. ReadingsAreHeard'
    BY <1>1, <1>2, Zenon DEF ReadingsAreHeard, IsLast, IsReading
  <2> QED
    BY <2>1, <2>2
<1>4. NoneMissing'
  <2> SUFFICES ASSUME NEW m \in Nodes, NEW g \in Gateways, sent[m] # 0,
                      <<m, sent[m] - 1>> \notin counted', heardBy[m][g] # Lost
               PROVE  CopyUnderway(m, g)' \/ ReadingHeld(m, g)'
    BY <1>1 DEF NoneMissing
  <2>1. CASE CopyUnderway(m, g)
    BY <1>1, <2>1, Zenon DEF CopyUnderway, IsLast
  <2>2. CASE ReadingHeld(m, g)
    <3>1. PICK q \in receivedPackets : /\ q.frame.src = m /\ IsLast(q.frame)
                                       /\ \E i \in DOMAIN q.possibleGateways :
                                              q.possibleGateways[i].gateway = g
      BY <2>2 DEF ReadingHeld
    <3>2. Name(q.frame) = <<m, sent[m] - 1>>
      BY <3>1 DEF Name, IsLast
    <3>3. q # p
      BY <1>1, <3>2
    <3> QED
      BY <1>1, <3>1, <3>3, Zenon DEF ReadingHeld, IsLast
  <2>3. <<m, sent[m] - 1>> \notin counted
    BY <1>1
  <2> QED
    BY <1>2, <2>1, <2>2, <2>3 DEF NoneMissing
<1>5. ASSUME NEW c \in commands', c \notin commands
      PROVE  c.to = n /\ c.seq = p.frame.seq /\ c.gateway = picked.gateway
  <2>1. commands' = commands
        \/ \E sf \in 7..p.frame.sf \union {-1} : commands' = commands \union
               {[to |-> n, gateway |-> picked.gateway, seq |-> p.frame.seq, loRaSF |-> sf]}
    <3>1. CASE evaluateADRinServer
      <4>1. EvaluateADR(p.frame, picked)
        BY <3>1, Zenon DEF ProcessScheduledPacket
      <4>2. CASE AnswerDue(p.frame)
        <5>1. \E sf \in IF AdrDue(n) THEN 7..p.frame.sf ELSE {-1} :
                  commands' = commands \union
                      {[to |-> n, gateway |-> picked.gateway, seq |-> p.frame.seq, loRaSF |-> sf]}
          BY <4>1, <4>2, Zenon DEF EvaluateADR
        <5> QED
          BY <5>1
      <4>3. CASE ~AnswerDue(p.frame)
        BY <4>1, <4>3, Zenon DEF EvaluateADR
      <4> QED
        BY <4>2, <4>3
    <3>2. CASE ~evaluateADRinServer
      BY <3>2, Zenon DEF ProcessScheduledPacket, adrVars
    <3> QED
      BY <3>1, <3>2
  <2>2. PICK sf : c = [to |-> n, gateway |-> picked.gateway, seq |-> p.frame.seq, loRaSF |-> sf]
    BY <1>5, <2>1
  <2> QED
    BY <2>2
<1>6. CommandsAnswerCounted'
  <2> SUFFICES ASSUME NEW c \in commands'
               PROVE  <<c.to, c.seq>> \in counted'
    BY DEF CommandsAnswerCounted
  <2> QED
    BY <1>1, <1>2, <1>5 DEF CommandsAnswerCounted, Name
<1>7. BestGateway'
  <2> SUFFICES ASSUME NEW c \in commands', c.seq = sent[c.to] - 1
               PROVE  /\ heardBy[c.to][c.gateway] # Lost
                      /\ \A g \in Gateways : heardBy[c.to][g] # Lost =>
                             heardBy[c.to][g] <= heardBy[c.to][c.gateway]
    BY <1>1 DEF BestGateway
  <2>1. CASE c \in commands
    BY <1>2, <2>1 DEF BestGateway
  <2>2. CASE c \notin commands
    <3>1. c.to = n /\ c.gateway = picked.gateway /\ IsLast(p.frame)
      BY <1>5, <2>2 DEF IsLast
    <3>2. p.possibleGateways \in Seq(Reading) /\ p.possibleGateways # <<>>
      BY WindowTypes, Zenon DEF CountInv, HasReading, ReceivedPacket
    <3>3. /\ picked \in Reading
          /\ \E i \in DOMAIN p.possibleGateways : picked = p.possibleGateways[i]
          /\ \A i \in DOMAIN p.possibleGateways : p.possibleGateways[i].snir <= picked.snir
      BY <3>2, PickedGatewayIsBest
    <3>4. heardBy[n][picked.gateway] = picked.snir
      BY <1>2, <3>1, <3>3, Zenon DEF ReadingsAreHeard, IsReading
    <3>5. picked.snir \in SNIRs
      BY <3>3, Zenon DEF Reading
    <3>6. picked.snir # Lost
      BY <3>5 DEF SNIRs, Lost
    <3>7. ASSUME NEW g \in Gateways, heardBy[n][g] # Lost
          PROVE  heardBy[n][g] <= picked.snir
      <4>1. \E i \in DOMAIN p.possibleGateways : p.possibleGateways[i].snir = heardBy[n][g]
        BY <1>1, <3>1, <3>7, ClosingWindowIsComplete
      <4> QED
        BY <3>3, <4>1, Zenon
    <3> HIDE DEF picked
    <3> QED
      BY <3>1, <3>4, <3>6, <3>7
  <2> QED
    BY <2>1, <2>2
<1> QED
  BY <1>3, <1>4, <1>6, <1>7 DEF BestInv

LEMMA TickBest == ASSUME CountInv, BestInv, Tick PROVE BestInv'
<1>1. /\ network' = {[c EXCEPT !.delay = @ - 1] : c \in network}
      /\ receivedPackets' = {[p EXCEPT !.endOfWaiting = @ - 1] : p \in receivedPackets}
      /\ UNCHANGED <<sent, heardBy, lastSeqNoProcessed, counted, commands>>
  BY Zenon DEF Tick, adrVars, countVars
<1>2. /\ CopiesAreHeard /\ ReadingsAreHeard /\ NoneMissing /\ LastIsCurrent
      /\ CommandsAnswerCounted /\ BestGateway
  BY DEF BestInv
<1>3. ASSUME NEW c \in network
      PROVE  /\ [c EXCEPT !.delay = @ - 1].frame = c.frame
             /\ [c EXCEPT !.delay = @ - 1].gateway = c.gateway
             /\ [c EXCEPT !.delay = @ - 1].snir = c.snir
  <2>1. c \in Copy
    BY CopyTypes DEF CountInv
  <2> QED
    BY <2>1, Zenon DEF Copy
<1>4. ASSUME NEW p \in receivedPackets
      PROVE  /\ [p EXCEPT !.endOfWaiting = @ - 1].frame = p.frame
             /\ [p EXCEPT !.endOfWaiting = @ - 1].possibleGateways = p.possibleGateways
  <2>1. p \in ReceivedPacket
    BY WindowTypes DEF CountInv
  <2> QED
    BY <2>1, Zenon DEF ReceivedPacket
<1>5. CopiesAreHeard'
  <2> SUFFICES ASSUME NEW c \in network', IsLast(c.frame)
               PROVE  IsReading(c, c.frame.src)
    BY <1>1, Zenon DEF CopiesAreHeard, IsLast, IsReading
  <2>1. PICK old \in network : c = [old EXCEPT !.delay = @ - 1]
    BY <1>1, Zenon
  <2>2. c.frame = old.frame /\ c.gateway = old.gateway /\ c.snir = old.snir
    BY <1>3, <2>1, Zenon
  <2> QED
    BY <1>2, <2>2 DEF CopiesAreHeard, IsReading
<1>6. ReadingsAreHeard'
  <2> SUFFICES ASSUME NEW q \in receivedPackets', IsLast(q.frame),
                      NEW i \in DOMAIN q.possibleGateways
               PROVE  IsReading(q.possibleGateways[i], q.frame.src)
    BY <1>1, Zenon DEF ReadingsAreHeard, IsLast, IsReading
  <2>1. PICK old \in receivedPackets : q = [old EXCEPT !.endOfWaiting = @ - 1]
    BY <1>1, Zenon
  <2>2. q.frame = old.frame /\ q.possibleGateways = old.possibleGateways
    BY <1>4, <2>1, Zenon
  <2> QED
    BY <1>2, <2>2 DEF ReadingsAreHeard
<1>7. ASSUME NEW n, NEW g
      PROVE  CopyUnderway(n, g) \/ ReadingHeld(n, g) => CopyUnderway(n, g)' \/ ReadingHeld(n, g)'
  <2>1. ASSUME CopyUnderway(n, g)
        PROVE  CopyUnderway(n, g)'
    <3>1. PICK c \in network : c.frame.src = n /\ IsLast(c.frame) /\ c.gateway = g
      BY <2>1 DEF CopyUnderway
    <3>2. [c EXCEPT !.delay = @ - 1] \in network'
      BY <1>1, Zenon
    <3> QED
      BY <1>1, <1>3, <3>1, <3>2, Zenon DEF CopyUnderway, IsLast
  <2>2. ASSUME ReadingHeld(n, g)
        PROVE  ReadingHeld(n, g)'
    <3>1. PICK p \in receivedPackets : /\ p.frame.src = n /\ IsLast(p.frame)
                                       /\ \E i \in DOMAIN p.possibleGateways :
                                              p.possibleGateways[i].gateway = g
      BY <2>2 DEF ReadingHeld
    <3>2. [p EXCEPT !.endOfWaiting = @ - 1] \in receivedPackets'
      BY <1>1, Zenon
    <3> QED
      BY <1>1, <1>4, <3>1, <3>2, Zenon DEF ReadingHeld, IsLast
  <2> QED
    BY <2>1, <2>2
<1>8. NoneMissing'
  BY <1>1, <1>2, <1>7 DEF NoneMissing
<1>9. LastIsCurrent' /\ CommandsAnswerCounted' /\ BestGateway'
  BY <1>1, <1>2 DEF LastIsCurrent, CommandsAnswerCounted, BestGateway
<1> QED
  BY <1>5, <1>6, <1>8, <1>9 DEF BestInv

(***************************************************************************)
(* The answer to a node's last frame leaves through a gateway that heard   *)
(* the frame, and none heard it better: the first copy opens the window,   *)
(* the others arrive before it closes, and none is taken for an old one.   *)
(***************************************************************************)
THEOREM AnswersThroughBestGateway ==
    ASSUME MaxJitter < Window
    PROVE  Spec => []BestGateway
<1>1. Init => BestInv
  BY BestInit
<1>2. CountInv /\ BestInv /\ [Next]_vars => BestInv'
  <2> SUFFICES ASSUME CountInv, BestInv, [Next]_vars
               PROVE  BestInv'
    OBVIOUS
  <2>1. CASE UNCHANGED vars
    <3>1. UNCHANGED <<network, receivedPackets, sent, heardBy, lastSeqNoProcessed, counted, commands>>
      BY <2>1, Zenon DEF vars, envVars, adrVars, countVars
    <3>2. CopiesAreHeard' /\ ReadingsAreHeard'
      BY <3>1, Zenon DEF BestInv, CopiesAreHeard, ReadingsAreHeard, IsLast, IsReading
    <3>3. ASSUME NEW n, NEW g
          PROVE  (CopyUnderway(n, g) => CopyUnderway(n, g)') /\ (ReadingHeld(n, g) => ReadingHeld(n, g)')
      BY <3>1, Zenon DEF CopyUnderway, ReadingHeld, IsLast
    <3>4. NoneMissing'
      BY <3>1, <3>3 DEF BestInv, NoneMissing
    <3>5. LastIsCurrent' /\ CommandsAnswerCounted' /\ BestGateway'
      BY <3>1 DEF BestInv, LastIsCurrent, CommandsAnswerCounted, BestGateway
    <3> QED
      BY <3>2, <3>4, <3>5 DEF BestInv
  <2> QED
    BY <2>1, SendFrameBest, HandleFrameBest, ProcessScheduledPacketBest, TickBest
       DEF Next, Send, Receive, EndOfWaiting
<1>3. BestInv => BestGateway
  BY DEF BestInv
<1> QED
  BY <1>1, <1>2, <1>3, CountInvariant, PTL DEF Spec

-----------------------------------------------------------------------------
(***************************************************************************)
(* The frames of a spreading factor that were sent pay for those counted   *)
(* and those that can still be: on their way or in an open window.         *)
(***************************************************************************)
Pending(sf) ==
    {Name(c.frame) : c \in {d \in network : d.frame.sf = sf}} \union
    {Name(p.frame) : p \in {q \in receivedPackets : q.frame.sf = sf}}
Paid(sf) ==
    /\ IsFiniteSet(Pending(sf))
    /\ counterUniqueReceivedPacketsPerSF[sf] + Cardinality(Pending(sf))
           <= counterOfSentPacketsFromNodesPerSF[sf]
PerSFInv == Warm /\ \A sf \in 7..12 : Paid(sf)

LEMMA CountersPerSF ==
    ASSUME TypeOK
    PROVE  /\ counterUniqueReceivedPacketsPerSF \in [7..12 -> Nat]
           /\ counterOfSentPacketsFromNodesPerSF \in [7..12 -> Nat]
BY Zenon DEF TypeOK

\* Fewer frames pending cost no more.
LEMMA FewerPending ==
    ASSUME TypeOK, NEW sf \in 7..12, Paid(sf), Pending(sf)' \subseteq Pending(sf),
           UNCHANGED <<counterUniqueReceivedPacketsPerSF, counterOfSentPacketsFromNodesPerSF>>
    PROVE  Paid(sf)'
<1>1. /\ IsFiniteSet(Pending(sf)') /\ Cardinality(Pending(sf)') <= Cardinality(Pending(sf))
      /\ Cardinality(Pending(sf)) \in Nat /\ Cardinality(Pending(sf)') \in Nat
  BY FS_Subset, FS_CardinalityType DEF Paid
<1>2. /\ counterUniqueReceivedPacketsPerSF[sf] \in Nat
      /\ counterOfSentPacketsFromNodesPerSF[sf] \in Nat
  BY CountersPerSF
<1> QED
  BY <1>1, <1>2 DEF Paid

\* The frame sent is one more of its SF.
LEMMA SendFramePerSF ==
    ASSUME TypeOK, PerSFInv, NEW n \in Nodes, NEW sf \in SFs, SendFrame(n, sf, FALSE, sf),
           NEW k \in 7..12
    PROVE  Paid(k)'
<1> DEFINE frame == [src |-> n, seq |-> sent[n], sf |-> sf, adrAckReq |-> FALSE]
<1>1. PICK snir \in [Gateways -> SNIRs \union {Lost}], airTime \in AirTimes,
           jitter \in [Gateways -> 0..MaxJitter] :
        /\ heardBy' = [heardBy EXCEPT ![n] = snir]
        /\ network' = network \union
               {[frame |-> frame, gateway |-> g, snir |-> snir[g], delay |-> airTime + jitter[g]] :
                    g \in {h \in Gateways : snir[h] # Lost}}
  BY Zenon DEF SendFrame
<1>2. /\ UNCHANGED <<receivedPackets, counterUniqueReceivedPacketsPerSF>>
      /\ CountSentPacket(sf)
  BY Zenon DEF SendFrame, countVars
<1>3. /\ sf \in 7..12
      /\ counterOfSentPacketsFromNodesPerSF' =
             [counterOfSentPacketsFromNodesPerSF EXCEPT ![sf] = @ + 1]
  BY <1>2, Zenon DEF CountSentPacket, PerSFInv
<1>4. ASSUME NEW c \in network', c \notin network
      PROVE  c.frame.sf = sf /\ Name(c.frame) = <<n, sent[n]>>
  <2>1. PICK g \in Gateways : c = [frame |-> frame, gateway |-> g, snir |-> snir[g],
                                   delay |-> airTime + jitter[g]]
    BY <1>1, <1>4, Zenon
  <2>2. c.frame = frame
    BY <2>1, Zenon
  <2> QED
    BY <2>2 DEF Name
<1> HIDE DEF frame
<1>5. Paid(k)
  BY DEF PerSFInv
<1>6. CASE k # sf
  <2>1. Pending(k)' \subseteq Pending(k)
    BY <1>2, <1>4, <1>6 DEF Pending
  <2>2. counterOfSentPacketsFromNodesPerSF'[k] = counterOfSentPacketsFromNodesPerSF[k]
    BY <1>3, <1>6, CountersPerSF
  <2>3. /\ IsFiniteSet(Pending(k)') /\ Cardinality(Pending(k)') <= Cardinality(Pending(k))
        /\ Cardinality(Pending(k)) \in Nat /\ Cardinality(Pending(k)') \in Nat
    BY <1>5, <2>1, FS_Subset, FS_CardinalityType DEF Paid
  <2>4. /\ counterUniqueReceivedPacketsPerSF[k] \in Nat
        /\ counterOfSentPacketsFromNodesPerSF[k] \in Nat
    BY CountersPerSF
  <2> QED
    BY <1>2, <1>5, <2>2, <2>3, <2>4 DEF Paid
<1>7. CASE k = sf
  <2> DEFINE more == Pending(k) \union {<<n, sent[n]>>}
  <2>1. Pending(k)' \subseteq more
    BY <1>2, <1>4, <1>7 DEF Pending
  <2>2. /\ IsFiniteSet(more) /\ Cardinality(Pending(k)) \in Nat
        /\ Cardinality(more) \in Nat /\ Cardinality(more) <= Cardinality(Pending(k)) + 1
    <3>1. IsFiniteSet(Pending(k)) /\ Cardinality(Pending(k)) \in Nat
      BY <1>5, FS_CardinalityType DEF Paid
    <3>2. /\ IsFiniteSet(more)
          /\ Cardinality(more) = Cardinality(Pending(k))
             \/ Cardinality(more) = Cardinality(Pending(k)) + 1
      BY <3>1, FS_AddElement
    <3> HIDE DEF more
    <3> QED
      BY <3>1, <3>2
  <2> HIDE DEF more
  <2>3. /\ IsFiniteSet(Pending(k)') /\ Cardinality(Pending(k)') <= Cardinality(more)
        /\ Cardinality(Pending(k)') \in Nat
    BY <2>1, <2>2, FS_Subset, FS_CardinalityType
  <2>4. counterOfSentPacketsFromNodesPerSF'[k] = counterOfSentPacketsFromNodesPerSF[k] + 1
    BY <1>3, <1>7, CountersPerSF
  <2>5. /\ counterUniqueReceivedPacketsPerSF[k] \in Nat
        /\ counterOfSentPacketsFromNodesPerSF[k] \in Nat
    BY CountersPerSF
  <2> QED
    BY <1>2, <1>5, <2>2, <2>3, <2>4, <2>5 DEF Paid
<1> QED
  BY <1>6, <1>7

\* A copy that arrives leaves its frame in a window, if it is kept.
LEMMA HandleFramePerSF ==
    ASSUME TypeOK, NEW copy \in network, HandleFrame(copy), NEW k
    PROVE  Pending(k)' \subseteq Pending(k)
<1>1. network' = network \ {copy}
  BY Zenon DEF HandleFrame
<1>2. receivedPackets' = receivedPackets \/ receivedPackets' = AddPktToProcessingTable(copy)
  BY Zenon DEF HandleFrame
<1>3. ASSUME NEW q \in receivedPackets'
      PROVE  q.frame = copy.frame \/ \E p \in receivedPackets : q.frame = p.frame
  <2>1. CASE receivedPackets' = receivedPackets
    BY <2>1
  <2>2. CASE receivedPackets' = AddPktToProcessingTable(copy)
    <3>1. q.frame = copy.frame \/ \E p \in receivedPackets : q = Joined(p, copy)
      BY <2>2, AddedWindow, Zenon
    <3> QED
      BY <3>1, JoinedKeeps, Zenon
  <2> QED
    BY <1>2, <2>1, <2>2
<1> QED
  BY <1>1, <1>3 DEF Pending

\* The end of a window turns one pending frame into a counted one.
LEMMA ProcessScheduledPacketPerSF ==
    ASSUME CountInv, PerSFInv, NEW p \in receivedPackets, ProcessScheduledPacket(p), NEW k \in 7..12
    PROVE  Paid(k)'
<1>1. /\ p.endOfWaiting = 0 /\ receivedPackets' = receivedPackets \ {p} /\ network' = network
      /\ counterUniqueReceivedPacketsPerSF' =
             [counterUniqueReceivedPacketsPerSF EXCEPT ![p.frame.sf] = @ + 1]
      /\ UNCHANGED counterOfSentPacketsFromNodesPerSF
  BY Zenon DEF ProcessScheduledPacket, envVars, PerSFInv
<1>2. /\ TypeOK /\ Paid(k) /\ p.frame.sf \in 7..12
  BY WindowTypes DEF CountInv, PerSFInv
<1>3. Pending(k)' \subseteq Pending(k)
  BY <1>1, Zenon DEF Pending
<1>4. /\ IsFiniteSet(Pending(k)) /\ Cardinality(Pending(k)) \in Nat
  BY <1>2, FS_CardinalityType DEF Paid
<1>5. CASE k # p.frame.sf
  <2>1. counterUniqueReceivedPacketsPerSF'[k] = counterUniqueReceivedPacketsPerSF[k]
    BY <1>1, <1>2, <1>5, CountersPerSF
  <2>2. /\ IsFiniteSet(Pending(k)') /\ Cardinality(Pending(k)') <= Cardinality(Pending(k))
        /\ Cardinality(Pending(k)') \in Nat
    BY <1>3, <1>4, FS_Subset, FS_CardinalityType
  <2>3. /\ counterUniqueReceivedPacketsPerSF[k] \in Nat
        /\ counterOfSentPacketsFromNodesPerSF[k] \in Nat
    BY <1>2, CountersPerSF
  <2> QED
    BY <1>1, <1>2, <1>4, <2>1, <2>2, <2>3 DEF Paid
<1>6. CASE k = p.frame.sf
  <2>1. Name(p.frame) \in Pending(k)
    BY <1>6 DEF Pending
  <2>2. Name(p.frame) \notin Pending(k)'
    <3>1. ASSUME NEW c \in network
          PROVE  Name(c.frame) # Name(p.frame)
      <4>1. SameName(c.frame, p.frame) => c.delay < p.endOfWaiting
        BY DEF CountInv, CopiesInWindow
      <4>2. c.delay \in Nat
        BY <1>2, CopyTypes
      <4>3. ~SameName(c.frame, p.frame)
        BY <1>1, <4>1, <4>2
      <4> QED
        BY <4>3, SameNames
    <3>2. ASSUME NEW q \in receivedPackets, q # p
          PROVE  Name(q.frame) # Name(p.frame)
      <4>1. ~SameName(q.frame, p.frame)
        BY <3>2, Zenon DEF CountInv, OneWindow
      <4> QED
        BY <4>1, SameNames
    <3> QED
      BY <1>1, <3>1, <3>2 DEF Pending
  <2>3. Pending(k)' \subseteq Pending(k) \ {Name(p.frame)}
    BY <1>3, <2>2
  <2>4. /\ IsFiniteSet(Pending(k) \ {Name(p.frame)})
        /\ Cardinality(Pending(k) \ {Name(p.frame)}) = Cardinality(Pending(k)) - 1
    BY <1>4, <2>1, FS_RemoveElement
  <2>5. /\ IsFiniteSet(Pending(k)') /\ Cardinality(Pending(k)') <= Cardinality(Pending(k)) - 1
        /\ Cardinality(Pending(k)') \in Nat
    BY <2>3, <2>4, FS_Subset, FS_CardinalityType
  <2>6. counterUniqueReceivedPacketsPerSF'[k] = counterUniqueReceivedPacketsPerSF[k] + 1
    BY <1>1, <1>2, <1>6, CountersPerSF
  <2>7. /\ counterUniqueReceivedPacketsPerSF[k] \in Nat
        /\ counterOfSentPacketsFromNodesPerSF[k] \in Nat
    BY <1>2, CountersPerSF
  <2> QED
    BY <1>1, <1>2, <1>4, <2>5, <2>6, <2>7 DEF Paid
<1> QED
  BY <1>5, <1>6

LEMMA TickPerSF == ASSUME TypeOK, Tick, NEW k PROVE Pending(k)' \subseteq Pending(k)
<1>1. /\ network' = {[c EXCEPT !.delay = @ - 1] : c \in network}
      /\ receivedPackets' = {[p EXCEPT !.endOfWaiting = @ - 1] : p \in receivedPackets}
  BY Zenon DEF Tick
<1>2. ASSUME NEW c \in network'
      PROVE  \E old \in network : c.frame = old.frame
  <2>1. PICK old \in network : c = [old EXCEPT !.delay = @ - 1]
    BY <1>1, Zenon
  <2>2. old \in Copy
    BY CopyTypes
  <2> QED
    BY <2>1, <2>2, Zenon DEF Copy
<1>3. ASSUME NEW q \in receivedPackets'
      PROVE  \E old \in receivedPackets : q.frame = old.frame
  <2>1. PICK old \in receivedPackets : q = [old EXCEPT !.endOfWaiting = @ - 1]
    BY <1>1, Zenon
  <2>2. old \in ReceivedPacket
    BY WindowTypes
  <2> QED
    BY <2>1, <2>2, Zenon DEF ReceivedPacket
<1> QED
  BY <1>2, <1>3 DEF Pending

LEMMA PerSFNext == ASSUME CountInv, PerSFInv, [Next]_vars PROVE PerSFInv'
<1>1. TypeOK /\ warmup = 0 /\ \A k \in 7..12 : Paid(k)
  BY DEF CountInv, PerSFInv, Warm
<1>2. warmup' = 0
  BY <1>1, Zenon DEF Next, Send, Receive, EndOfWaiting, SendFrame, HandleFrame,
                     ProcessScheduledPacket, Tick, Down, vars
<1> SUFFICES ASSUME NEW k \in 7..12
             PROVE  Paid(k)'
  BY <1>2 DEF PerSFInv, Warm
<1>3. CASE Send
  BY <1>1, <1>3, SendFramePerSF DEF Send
<1>4. ASSUME NEW copy \in network, HandleFrame(copy)
      PROVE  Paid(k)'
  <2>1. UNCHANGED <<counterUniqueReceivedPacketsPerSF, counterOfSentPacketsFromNodesPerSF>>
    BY <1>4, Zenon DEF HandleFrame, envVars, countVars
  <2> QED
    BY <1>1, <1>4, <2>1, HandleFramePerSF, FewerPending
<1>5. CASE EndOfWaiting
  BY <1>5, ProcessScheduledPacketPerSF DEF EndOfWaiting
<1>6. CASE Tick
  <2>1. UNCHANGED <<counterUniqueReceivedPacketsPerSF, counterOfSentPacketsFromNodesPerSF>>
    BY <1>6, Zenon DEF Tick, countVars
  <2> QED
    BY <1>1, <1>6, <2>1, TickPerSF, FewerPending
<1>7. CASE UNCHANGED vars
  <2>1. UNCHANGED <<network, receivedPackets, counterUniqueReceivedPacketsPerSF,
                    counterOfSentPacketsFromNodesPerSF>>
    BY <1>7 DEF vars, envVars, countVars
  <2>2. Pending(k)' = Pending(k)
    BY <2>1 DEF Pending
  <2> QED
    BY <1>1, <2>1, <2>2, FewerPending
<1> QED
  BY <1>3, <1>4, <1>5, <1>6, <1>7 DEF Next, Receive

(***************************************************************************)
(* The DER of each spreading factor is at most one, if the nodes report    *)
(* the SF they used: no frame is counted for an SF without one reported as *)
(* sent in it.                                                             *)
(***************************************************************************)
THEOREM DeliveryRatioPerSFCorrect ==
    ASSUME MaxJitter < Window, WarmupPeriod = 0
    PROVE  Spec => []DeliveryRatioPerSF
<1>1. Init => PerSFInv
  <2> SUFFICES ASSUME Init
               PROVE  PerSFInv
    OBVIOUS
  <2>1. ASSUME NEW k \in 7..12
        PROVE  Paid(k)
    <3>1. Pending(k) = {}
      BY DEF Init, Pending
    <3>2. counterUniqueReceivedPacketsPerSF[k] = 0 /\ counterOfSentPacketsFromNodesPerSF[k] = 0
      BY DEF Init
    <3> QED
      BY <3>1, <3>2, FS_EmptySet DEF Paid
  <2> QED
    BY <2>1 DEF Init, PerSFInv, Warm
<1>2. CountInv /\ PerSFInv /\ [Next]_vars => PerSFInv'
  BY PerSFNext
<1>3. CountInv /\ PerSFInv => DeliveryRatioPerSF
  <2> SUFFICES ASSUME CountInv, PerSFInv, NEW k \in 7..12
               PROVE  counterUniqueReceivedPacketsPerSF[k] <= counterOfSentPacketsFromNodesPerSF[k]
    BY DEF DeliveryRatioPerSF
  <2>1. Paid(k) /\ TypeOK
    BY DEF PerSFInv, CountInv
  <2>2. Cardinality(Pending(k)) \in Nat
    BY <2>1, FS_CardinalityType DEF Paid
  <2>3. /\ counterUniqueReceivedPacketsPerSF[k] \in Nat
        /\ counterOfSentPacketsFromNodesPerSF[k] \in Nat
    BY <2>1, CountersPerSF
  <2> QED
    BY <2>1, <2>2, <2>3 DEF Paid
<1> QED
  BY <1>1, <1>2, <1>3, CountInvariant, PTL DEF Spec

-----------------------------------------------------------------------------
(***************************************************************************)
(* What is known of a node's last frame wherever the server has it: its SF *)
(* and its request are those the node remembers.  A command that answers   *)
(* it asks for no higher SF.                                               *)
(***************************************************************************)
FrameOfNode(f) ==
    /\ f.seq < sent[f.src]
    /\ f.seq = sent[f.src] - 1 =>
           f.sf = lastFrame[f.src].sf /\ f.adrAckReq = lastFrame[f.src].adrAckReq
CommandForNode(c) ==
    /\ c.seq < sent[c.to]
    /\ c.seq = sent[c.to] - 1 => c.loRaSF <= lastFrame[c.to].sf

NodeTypes ==
    /\ loRaSF \in [Nodes -> 7..12]
    /\ ADR_ACK_CNT \in [Nodes -> 0..(ADR_ACK_LIMIT + ADR_ACK_DELAY - 1)]
    /\ lastFrame \in [Nodes -> [sf : 7..12, adrAckReq : BOOLEAN, emittedSF : 7..12]]
FramesOfNodes ==
    /\ \A c \in network : FrameOfNode(c.frame)
    /\ \A p \in receivedPackets : FrameOfNode(p.frame)
CommandsForNodes == \A c \in commands : CommandForNode(c)
CountedAreSent == \A n \in Nodes, s \in Nat : <<n, s>> \in counted => s < sent[n]
\* A node that raised its SF keeps it until its next frame: it does not hear the answer.
RaiseKept == \A n \in Nodes : lastFrame[n].emittedSF # lastFrame[n].sf => loRaSF[n] = lastFrame[n].emittedSF

LoopInv ==
    /\ TypeOK /\ HasReading /\ NodeTypes
    /\ FramesOfNodes /\ CommandsForNodes /\ CountedAreSent /\ RaiseKept /\ RequestsAnswered

LEMMA LoopInitial == LoopInit => LoopInv
<1> SUFFICES ASSUME LoopInit
             PROVE  LoopInv
  OBVIOUS
<1>1. Init /\ App!Init
  BY DEF LoopInit
<1>2. TypeOK /\ HasReading
  BY <1>1, TypeInit DEF Init, HasReading
<1>3. loRaSF \in [Nodes -> 7..12]
  BY <1>1 DEF App!Init
<1>4. lastFrame = [n \in Nodes |-> [sf |-> loRaSF[n], adrAckReq |-> FALSE, emittedSF |-> loRaSF[n]]]
  BY <1>1 DEF App!Init
<1>5. NodeTypes
  <2>1. 0 \in 0..(ADR_ACK_LIMIT + ADR_ACK_DELAY - 1)
    OBVIOUS
  <2>2. ADR_ACK_CNT = [n \in Nodes |-> 0]
    BY <1>1 DEF App!Init
  <2> QED
    BY <1>3, <1>4, <2>1, <2>2 DEF NodeTypes
<1>6. FramesOfNodes /\ CommandsForNodes /\ CountedAreSent
  BY <1>1 DEF Init, FramesOfNodes, CommandsForNodes, CountedAreSent
<1>7. RaiseKept /\ RequestsAnswered
  BY <1>3, <1>4 DEF RaiseKept, RequestsAnswered
<1> QED
  BY <1>2, <1>5, <1>6, <1>7 DEF LoopInv

-----------------------------------------------------------------------------
\* The node that sends, and the others.
LEMMA UplinkOfNode ==
    ASSUME LoopInv, NEW n \in Nodes, Uplink(n)
    PROVE  /\ NodeTypes'
           /\ \A m \in Nodes : m # n => loRaSF'[m] = loRaSF[m] /\ lastFrame'[m] = lastFrame[m]
           /\ lastFrame'[n].sf = loRaSF[n] /\ lastFrame'[n].emittedSF = loRaSF'[n]
           /\ loRaSF'[n] # loRaSF[n] =>
                  loRaSF'[n] = loRaSF[n] + 1 /\ ADR_ACK_CNT[n] + 1 = ADR_ACK_LIMIT + ADR_ACK_DELAY
<1> DEFINE request == evaluateADRinNode /\ sendNextPacketWithADRACKReq[n]
           count   == ADR_ACK_CNT[n] + 1
           raise   == evaluateADRinNode /\ App!RaiseDue(count)
<1>1. /\ loRaSF' = [loRaSF EXCEPT ![n] = IF raise THEN App!IncreaseSFIfPossible(@) ELSE @]
      /\ ADR_ACK_CNT' = [ADR_ACK_CNT EXCEPT ![n] =
             IF ~evaluateADRinNode THEN @ ELSE IF raise THEN 0 ELSE count]
      /\ lastFrame' = [lastFrame EXCEPT ![n] =
             [sf |-> loRaSF[n], adrAckReq |-> request, emittedSF |-> loRaSF'[n]]]
  BY Zenon DEF Uplink, App!SendJoinRequest
<1>2. /\ loRaSF \in [Nodes -> 7..12]
      /\ ADR_ACK_CNT \in [Nodes -> 0..(ADR_ACK_LIMIT + ADR_ACK_DELAY - 1)]
      /\ lastFrame \in [Nodes -> [sf : 7..12, adrAckReq : BOOLEAN, emittedSF : 7..12]]
  BY DEF LoopInv, NodeTypes
<1>3. raise => count = ADR_ACK_LIMIT + ADR_ACK_DELAY
  BY <1>2 DEF App!RaiseDue
<1>4. ~raise /\ evaluateADRinNode => count \in 0..(ADR_ACK_LIMIT + ADR_ACK_DELAY - 1)
  BY <1>2 DEF App!RaiseDue
<1>5. request \in BOOLEAN /\ raise \in BOOLEAN
  OBVIOUS
<1> HIDE DEF request, raise
<1>6. ASSUME NEW sf \in 7..12
      PROVE  /\ App!IncreaseSFIfPossible(sf) \in 7..12
             /\ App!IncreaseSFIfPossible(sf) = sf \/ App!IncreaseSFIfPossible(sf) = sf + 1
  BY DEF App!IncreaseSFIfPossible
<1>7. loRaSF'[n] = IF raise THEN App!IncreaseSFIfPossible(loRaSF[n]) ELSE loRaSF[n]
  BY <1>1, <1>2
<1>8. loRaSF[n] \in 7..12 /\ loRaSF'[n] \in 7..12
  BY <1>2, <1>6, <1>7
<1>9. loRaSF' \in [Nodes -> 7..12]
  BY <1>1, <1>2, <1>8
<1>10. ADR_ACK_CNT' \in [Nodes -> 0..(ADR_ACK_LIMIT + ADR_ACK_DELAY - 1)]
  <2>1. ADR_ACK_CNT[n] \in 0..(ADR_ACK_LIMIT + ADR_ACK_DELAY - 1)
        /\ 0 \in 0..(ADR_ACK_LIMIT + ADR_ACK_DELAY - 1)
    BY <1>2
  <2> HIDE DEF count
  <2> QED
    BY <1>1, <1>2, <1>4, <2>1
<1>11. lastFrame' \in [Nodes -> [sf : 7..12, adrAckReq : BOOLEAN, emittedSF : 7..12]]
  BY <1>1, <1>2, <1>5, <1>8
<1>12. lastFrame'[n] = [sf |-> loRaSF[n], adrAckReq |-> request, emittedSF |-> loRaSF'[n]]
  BY <1>1, <1>2
<1>13. lastFrame'[n].sf = loRaSF[n] /\ lastFrame'[n].emittedSF = loRaSF'[n]
  BY <1>12
<1>14. \A m \in Nodes : m # n => loRaSF'[m] = loRaSF[m] /\ lastFrame'[m] = lastFrame[m]
  BY <1>1, <1>2
<1>15. loRaSF'[n] # loRaSF[n] =>
           loRaSF'[n] = loRaSF[n] + 1 /\ ADR_ACK_CNT[n] + 1 = ADR_ACK_LIMIT + ADR_ACK_DELAY
  BY <1>3, <1>6, <1>7, <1>8
<1> QED
  BY <1>9, <1>10, <1>11, <1>13, <1>14, <1>15 DEF NodeTypes

LEMMA UplinkKeeps ==
    ASSUME LoopInv, NEW n \in Nodes, Uplink(n)
    PROVE  LoopInv'
<1> DEFINE sf == lastFrame'[n].sf
           ack == lastFrame'[n].adrAckReq
           emitted == lastFrame'[n].emittedSF
           frame == [src |-> n, seq |-> sent[n], sf |-> sf, adrAckReq |-> ack]
<1>1. SendFrame(n, sf, ack, emitted)
  BY DEF Uplink
<1>2. /\ NodeTypes' /\ sf = loRaSF[n] /\ emitted = loRaSF'[n]
      /\ \A m \in Nodes : m # n => loRaSF'[m] = loRaSF[m] /\ lastFrame'[m] = lastFrame[m]
  BY UplinkOfNode
<1>3. sf \in SFs /\ ack \in BOOLEAN /\ emitted \in 7..12
  <2>1. lastFrame'[n] \in [sf : 7..12, adrAckReq : BOOLEAN, emittedSF : 7..12]
    BY <1>2 DEF NodeTypes
  <2> QED
    BY <2>1
<1> HIDE DEF sf, ack, emitted
<1>4. TypeOK'
  BY <1>1, <1>3, SendFrameTypes DEF LoopInv
<1>5. /\ sent' = [sent EXCEPT ![n] = @ + 1]
      /\ UNCHANGED <<receivedPackets, counted, commands>>
  BY <1>1, Zenon DEF SendFrame, countVars, adrVars
<1>6. HasReading'
  BY <1>5 DEF LoopInv, HasReading
<1>7. sent \in [Nodes -> Nat]
  <2>1. sent \in [Nodes -> 0..MaxFrames]
    BY DEF LoopInv, TypeOK
  <2> QED
    BY <2>1
<1>8. \A m \in Nodes : /\ sent[m] \in Nat
                       /\ sent'[m] = IF m = n THEN sent[m] + 1 ELSE sent[m]
  BY <1>5, <1>7
\* What was sent before is no longer the last frame of n.
<1>9. ASSUME NEW m \in Nodes, NEW s \in Nat, s < sent[m]
      PROVE  /\ s < sent'[m]
             /\ s = sent'[m] - 1 => m # n /\ s = sent[m] - 1
  BY <1>8, <1>9
<1>10. ASSUME NEW f, f.src \in Nodes, f.seq \in Nat, FrameOfNode(f)
       PROVE  FrameOfNode(f)'
  <2>1. f.seq < sent[f.src]
    BY <1>10 DEF FrameOfNode
  <2>2. /\ f.seq < sent'[f.src]
        /\ f.seq = sent'[f.src] - 1 => f.src # n /\ f.seq = sent[f.src] - 1
    BY <1>9, <1>10, <2>1
  <2>3. f.src # n => lastFrame'[f.src] = lastFrame[f.src]
    BY <1>2, <1>10
  <2> QED
    BY <1>10, <2>2, <2>3 DEF FrameOfNode
<1>11. FramesOfNodes'
  <2>1. ASSUME NEW c \in network'
        PROVE  FrameOfNode(c.frame)'
    <3>1. CASE c \in network
      <4>1. c.frame.src \in Nodes /\ c.frame.seq \in Nat
        BY <3>1, CopyTypes DEF LoopInv
      <4> QED
        BY <1>10, <3>1, <4>1 DEF LoopInv, FramesOfNodes
    <3>2. CASE c \notin network
      <4>1. PICK snir \in [Gateways -> SNIRs \union {Lost}], airTime \in AirTimes,
                 jitter \in [Gateways -> 0..MaxJitter] :
              /\ heardBy' = [heardBy EXCEPT ![n] = snir]
              /\ network' = network \union
                     {[frame |-> frame, gateway |-> g, snir |-> snir[g],
                       delay |-> airTime + jitter[g]] : g \in {h \in Gateways : snir[h] # Lost}}
        BY <1>1, Zenon DEF SendFrame
      <4>2. PICK g \in Gateways : c = [frame |-> frame, gateway |-> g, snir |-> snir[g],
                                       delay |-> airTime + jitter[g]]
        BY <3>2, <4>1, Zenon
      <4>3. c.frame = frame
        BY <4>2, Zenon
      <4>4. /\ c.frame.src = n /\ c.frame.seq = sent[n]
            /\ c.frame.sf = sf /\ c.frame.adrAckReq = ack
        BY <4>3
      <4> HIDE DEF frame
      <4>5. c.frame.seq < sent'[n]
        BY <1>8, <4>4
      <4>6. c.frame.sf = lastFrame'[n].sf /\ c.frame.adrAckReq = lastFrame'[n].adrAckReq
        BY <4>4 DEF sf, ack
      <4> QED
        BY <4>4, <4>5, <4>6 DEF FrameOfNode
    <3> QED
      BY <3>1, <3>2
  <2>2. ASSUME NEW p \in receivedPackets
        PROVE  FrameOfNode(p.frame)'
    <3>1. p.frame.src \in Nodes /\ p.frame.seq \in Nat
      BY WindowTypes DEF LoopInv
    <3> QED
      BY <1>10, <3>1 DEF LoopInv, FramesOfNodes
  <2> QED
    BY <1>5, <2>1, <2>2 DEF FramesOfNodes
<1>12. CommandsForNodes'
  <2> SUFFICES ASSUME NEW c \in commands
               PROVE  CommandForNode(c)'
    BY <1>5 DEF CommandsForNodes
  <2>1. c \in Command
    BY DEF LoopInv, TypeOK
  <2>2. c.to \in Nodes /\ c.seq \in Nat /\ CommandForNode(c)
    BY <2>1, Zenon DEF Command, LoopInv, CommandsForNodes
  <2>3. c.seq < sent[c.to]
    BY <2>2 DEF CommandForNode
  <2>4. /\ c.seq < sent'[c.to]
        /\ c.seq = sent'[c.to] - 1 => c.to # n /\ c.seq = sent[c.to] - 1
    BY <1>9, <2>2, <2>3
  <2>5. c.to # n => lastFrame'[c.to] = lastFrame[c.to]
    BY <1>2, <2>2
  <2> QED
    BY <2>2, <2>4, <2>5 DEF CommandForNode
<1>13. CountedAreSent'
  <2> SUFFICES ASSUME NEW m \in Nodes, NEW s \in Nat, <<m, s>> \in counted
               PROVE  s < sent'[m]
    BY <1>5 DEF CountedAreSent
  <2>1. s < sent[m]
    BY DEF LoopInv, CountedAreSent
  <2> QED
    BY <1>9, <2>1
<1>14. RaiseKept'
  <2> SUFFICES ASSUME NEW m \in Nodes, lastFrame'[m].emittedSF # lastFrame'[m].sf
               PROVE  loRaSF'[m] = lastFrame'[m].emittedSF
    BY DEF RaiseKept
  <2>1. CASE m = n
    BY <1>2, <2>1 DEF emitted
  <2>2. CASE m # n
    BY <1>2, <2>2 DEF LoopInv, RaiseKept
  <2> QED
    BY <2>1, <2>2
<1>15. RequestsAnswered'
  <2> SUFFICES ASSUME NEW m \in Nodes, lastFrame'[m].adrAckReq, evaluateADRinServer,
                      <<m, sent'[m] - 1>> \in counted
               PROVE  \E c \in commands : c.to = m /\ c.seq = sent'[m] - 1
    BY <1>5 DEF RequestsAnswered
  <2>1. CASE m = n
    <3>1. sent'[m] - 1 = sent[n] /\ sent[n] \in Nat
      BY <1>8, <2>1
    <3>2. <<n, sent[n]>> \in counted
      BY <2>1, <3>1
    <3>3. sent[n] < sent[n]
      BY <3>1, <3>2 DEF LoopInv, CountedAreSent
    <3> QED
      BY <3>1, <3>3
  <2>2. CASE m # n
    <3>1. sent'[m] = sent[m] /\ lastFrame'[m] = lastFrame[m]
      BY <1>2, <1>8, <2>2
    <3> QED
      BY <3>1 DEF LoopInv, RequestsAnswered
  <2> QED
    BY <2>1, <2>2
<1> QED
  BY <1>2, <1>4, <1>6, <1>11, <1>12, <1>13, <1>14, <1>15 DEF LoopInv

\* A command that gets to its node answers the node's last frame, and the node has its SF yet.
LEMMA DownlinkOfNode ==
    ASSUME LoopInv, NEW c \in commands, Downlink(c)
    PROVE  /\ c.to \in Nodes /\ NodeTypes' /\ UNCHANGED <<vars, lastFrame>>
           /\ \A m \in Nodes : m # c.to => loRaSF'[m] = loRaSF[m]
           /\ loRaSF[c.to] = lastFrame[c.to].sf /\ loRaSF'[c.to] <= loRaSF[c.to]
<1> DEFINE n == c.to
           takes == evaluateADRinNode /\ c.loRaSF # -1
<1>1. c \in Command
  BY DEF LoopInv, TypeOK
<1>2. n \in Nodes /\ c.loRaSF \in {-1} \union 7..12
  BY <1>1, Zenon DEF Command
<1>3. /\ ADR_ACK_CNT' = [ADR_ACK_CNT EXCEPT ![n] = IF evaluateADRinNode THEN 0 ELSE @]
      /\ loRaSF' = [loRaSF EXCEPT ![n] = IF takes THEN c.loRaSF ELSE @]
      /\ UNCHANGED lastFrame /\ UNCHANGED vars
      /\ c.seq = sent[n] - 1 /\ loRaSF[n] = lastFrame[n].sf
  BY Zenon DEF Downlink, App!HandleDownlink, Listens
<1>4. /\ loRaSF \in [Nodes -> 7..12]
      /\ ADR_ACK_CNT \in [Nodes -> 0..(ADR_ACK_LIMIT + ADR_ACK_DELAY - 1)]
      /\ lastFrame \in [Nodes -> [sf : 7..12, adrAckReq : BOOLEAN, emittedSF : 7..12]]
  BY DEF LoopInv, NodeTypes
<1>5. takes => c.loRaSF \in 7..12
  BY <1>2
<1>6. c.loRaSF <= loRaSF[n]
  BY <1>3 DEF LoopInv, CommandsForNodes, CommandForNode
<1> HIDE DEF takes
<1>7. loRaSF' \in [Nodes -> 7..12]
  BY <1>2, <1>3, <1>4, <1>5
<1>8. ADR_ACK_CNT' \in [Nodes -> 0..(ADR_ACK_LIMIT + ADR_ACK_DELAY - 1)]
  <2>1. 0 \in 0..(ADR_ACK_LIMIT + ADR_ACK_DELAY - 1)
    OBVIOUS
  <2> QED
    BY <1>2, <1>3, <1>4, <2>1
<1>9. loRaSF'[n] <= loRaSF[n]
  <2>1. loRaSF'[n] = (IF takes THEN c.loRaSF ELSE loRaSF[n]) /\ loRaSF[n] \in 7..12
    BY <1>2, <1>3, <1>4
  <2> QED
    BY <1>6, <2>1
<1>10. \A m \in Nodes : m # n => loRaSF'[m] = loRaSF[m]
  BY <1>3, <1>4
<1> QED
  BY <1>2, <1>3, <1>4, <1>7, <1>8, <1>9, <1>10 DEF NodeTypes

\* What the server's variables say of the nodes does not change if neither changes.
LEMMA ServerKept ==
    ASSUME UNCHANGED <<vars, lastFrame>>, LoopInv
    PROVE  /\ TypeOK' /\ HasReading' /\ FramesOfNodes' /\ CommandsForNodes' /\ CountedAreSent'
           /\ RequestsAnswered'
<1>1. UNCHANGED <<network, receivedPackets, sent, counted, commands, lastFrame>>
  BY DEF vars, envVars, adrVars, countVars
<1>2. TypeOK' /\ HasReading'
  BY TypeNext, HasReadingNext DEF LoopInv
<1>3. FramesOfNodes' /\ CommandsForNodes'
  BY <1>1, Zenon DEF LoopInv, FramesOfNodes, CommandsForNodes, FrameOfNode, CommandForNode
<1>4. CountedAreSent' /\ RequestsAnswered'
  BY <1>1 DEF LoopInv, CountedAreSent, RequestsAnswered
<1> QED
  BY <1>2, <1>3, <1>4

LEMMA DownlinkKeeps ==
    ASSUME LoopInv, NEW c \in commands, Downlink(c)
    PROVE  LoopInv'
<1>1. /\ c.to \in Nodes /\ NodeTypes' /\ UNCHANGED <<vars, lastFrame>>
      /\ \A m \in Nodes : m # c.to => loRaSF'[m] = loRaSF[m]
      /\ loRaSF[c.to] = lastFrame[c.to].sf
  BY DownlinkOfNode
<1>2. RaiseKept'
  <2> SUFFICES ASSUME NEW m \in Nodes, lastFrame[m].emittedSF # lastFrame[m].sf
               PROVE  loRaSF'[m] = lastFrame[m].emittedSF
    BY <1>1 DEF RaiseKept
  <2>1. loRaSF[m] = lastFrame[m].emittedSF
    BY DEF LoopInv, RaiseKept
  <2>2. m # c.to
    BY <1>1, <2>1
  <2> QED
    BY <1>1, <2>1, <2>2
<1> QED
  BY <1>1, <1>2, ServerKept DEF LoopInv

-----------------------------------------------------------------------------
\* The answer to a frame asks for no higher SF, and comes if the frame asked for one.
LEMMA AnswersGiven ==
    ASSUME TypeOK, NEW p \in receivedPackets, ProcessScheduledPacket(p)
    PROVE  /\ commands \subseteq commands'
           /\ \A c \in commands' : c \in commands \/
                  (c.to = p.frame.src /\ c.seq = p.frame.seq /\ c.loRaSF <= p.frame.sf)
           /\ evaluateADRinServer /\ p.frame.adrAckReq =>
                  \E c \in commands' : c.to = p.frame.src /\ c.seq = p.frame.seq
<1> DEFINE n == p.frame.src
           picked == PickedGateway(p.possibleGateways)
<1>1. p.frame.sf \in 7..12
  BY WindowTypes
<1>2. CASE evaluateADRinServer /\ AnswerDue(p.frame)
  <2>1. EvaluateADR(p.frame, picked)
    BY <1>2, Zenon DEF ProcessScheduledPacket
  <2>2. PICK sf \in IF AdrDue(n) THEN 7..p.frame.sf ELSE {-1} :
            commands' = commands \union
                {[to |-> n, gateway |-> picked.gateway, seq |-> p.frame.seq, loRaSF |-> sf]}
    BY <1>2, <2>1, Zenon DEF EvaluateADR
  <2>3. sf <= p.frame.sf
    BY <1>1, <2>2
  <2> DEFINE c == [to |-> n, gateway |-> picked.gateway, seq |-> p.frame.seq, loRaSF |-> sf]
  <2>4. c.to = n /\ c.seq = p.frame.seq /\ c.loRaSF = sf
    OBVIOUS
  <2>5. commands' = commands \union {c}
    BY <2>2
  <2> HIDE DEF c
  <2> QED
    BY <2>3, <2>4, <2>5
<1>3. CASE evaluateADRinServer /\ ~AnswerDue(p.frame)
  <2>1. EvaluateADR(p.frame, picked)
    BY <1>3, Zenon DEF ProcessScheduledPacket
  <2>2. commands' = commands /\ ~p.frame.adrAckReq
    BY <1>3, <2>1, Zenon DEF EvaluateADR, AnswerDue
  <2> QED
    BY <2>2
<1>4. CASE ~evaluateADRinServer
  <2>1. commands' = commands
    BY <1>4, Zenon DEF ProcessScheduledPacket, adrVars
  <2> QED
    BY <1>4, <2>1
<1> QED
  BY <1>2, <1>3, <1>4

LEMMA EndOfWaitingKeeps ==
    ASSUME LoopInv, NEW p \in receivedPackets, ProcessScheduledPacket(p), UNCHANGED nodeVars
    PROVE  FramesOfNodes' /\ CommandsForNodes' /\ CountedAreSent' /\ RequestsAnswered'
<1>1. /\ receivedPackets' = receivedPackets \ {p} /\ counted' = counted \union {Name(p.frame)}
      /\ UNCHANGED <<network, sent, lastFrame>>
  BY Zenon DEF ProcessScheduledPacket, envVars, nodeVars
<1>2. /\ p.frame.src \in Nodes /\ p.frame.seq \in Nat /\ p.frame.sf \in 7..12
      /\ FrameOfNode(p.frame)
  BY WindowTypes DEF LoopInv, FramesOfNodes
<1>3. FramesOfNodes'
  BY <1>1, Zenon DEF LoopInv, FramesOfNodes, FrameOfNode
<1>4. CommandsForNodes'
  <2> SUFFICES ASSUME NEW c \in commands'
               PROVE  CommandForNode(c)
    BY <1>1, Zenon DEF CommandsForNodes, CommandForNode
  <2>1. CASE c \in commands
    BY <2>1 DEF LoopInv, CommandsForNodes
  <2>2. CASE c.to = p.frame.src /\ c.seq = p.frame.seq /\ c.loRaSF <= p.frame.sf
    BY <1>2, <2>2 DEF CommandForNode, FrameOfNode
  <2> QED
    BY <2>1, <2>2, AnswersGiven DEF LoopInv
<1>5. CountedAreSent'
  <2> SUFFICES ASSUME NEW m \in Nodes, NEW s \in Nat, <<m, s>> \in counted'
               PROVE  s < sent[m]
    BY <1>1 DEF CountedAreSent
  <2>1. CASE <<m, s>> \in counted
    BY <2>1 DEF LoopInv, CountedAreSent
  <2>2. CASE <<m, s>> = Name(p.frame)
    <3>1. m = p.frame.src /\ s = p.frame.seq
      BY <2>2 DEF Name
    <3> QED
      BY <1>2, <3>1 DEF FrameOfNode
  <2> QED
    BY <1>1, <2>1, <2>2
<1>6. RequestsAnswered'
  <2> SUFFICES ASSUME NEW m \in Nodes, lastFrame[m].adrAckReq, evaluateADRinServer,
                      <<m, sent[m] - 1>> \in counted'
               PROVE  \E c \in commands' : c.to = m /\ c.seq = sent[m] - 1
    BY <1>1 DEF RequestsAnswered
  <2>1. CASE <<m, sent[m] - 1>> \in counted
    <3>1. PICK c \in commands : c.to = m /\ c.seq = sent[m] - 1
      BY <2>1 DEF LoopInv, RequestsAnswered
    <3>2. c \in commands'
      BY AnswersGiven DEF LoopInv
    <3> QED
      BY <3>1, <3>2
  <2>2. CASE <<m, sent[m] - 1>> = Name(p.frame)
    <3>1. p.frame.src = m /\ p.frame.seq = sent[m] - 1
      BY <2>2 DEF Name
    <3>2. p.frame.adrAckReq = lastFrame[m].adrAckReq
      BY <1>2, <3>1 DEF FrameOfNode
    <3>3. p.frame.adrAckReq
      BY <3>2
    <3>4. \E c \in commands' : c.to = p.frame.src /\ c.seq = p.frame.seq
      BY <3>3, AnswersGiven DEF LoopInv
    <3> QED
      BY <3>1, <3>4
  <2> QED
    BY <1>1, <2>1, <2>2
<1> QED
  BY <1>3, <1>4, <1>5, <1>6

\* The frames on their way and in windows are those from before, whatever became of them.
LEMMA FramesKept ==
    ASSUME LoopInv, UNCHANGED <<sent, lastFrame, counted, commands>>,
           \A c \in network' : \E d \in network : c.frame = d.frame,
           \A q \in receivedPackets' : \/ \E p \in receivedPackets : q.frame = p.frame
                                       \/ \E d \in network : q.frame = d.frame
    PROVE  FramesOfNodes' /\ CommandsForNodes' /\ CountedAreSent' /\ RequestsAnswered'
<1>1. FramesOfNodes'
  <2>1. \A c \in network : FrameOfNode(c.frame)
    BY DEF LoopInv, FramesOfNodes
  <2>2. \A p \in receivedPackets : FrameOfNode(p.frame)
    BY DEF LoopInv, FramesOfNodes
  <2>3. ASSUME NEW f, FrameOfNode(f)
        PROVE  FrameOfNode(f)'
    BY <2>3, Zenon DEF FrameOfNode
  <2>4. ASSUME NEW c \in network'
        PROVE  FrameOfNode(c.frame)'
    <3>1. PICK d \in network : c.frame = d.frame
      OBVIOUS
    <3>2. FrameOfNode(d.frame)'
      BY <2>1, <2>3
    <3> QED
      BY <3>1, <3>2, Zenon DEF FrameOfNode
  <2>5. ASSUME NEW q \in receivedPackets'
        PROVE  FrameOfNode(q.frame)'
    <3>1. CASE \E p \in receivedPackets : q.frame = p.frame
      <4>1. PICK p \in receivedPackets : q.frame = p.frame
        BY <3>1
      <4>2. FrameOfNode(p.frame)'
        BY <2>2, <2>3
      <4> QED
        BY <4>1, <4>2, Zenon DEF FrameOfNode
    <3>2. CASE \E d \in network : q.frame = d.frame
      <4>1. PICK d \in network : q.frame = d.frame
        BY <3>2
      <4>2. FrameOfNode(d.frame)'
        BY <2>1, <2>3
      <4> QED
        BY <4>1, <4>2, Zenon DEF FrameOfNode
    <3> QED
      BY <3>1, <3>2, Zenon
  <2> QED
    BY <2>4, <2>5 DEF FramesOfNodes
<1>2. CommandsForNodes'
  BY Zenon DEF LoopInv, CommandsForNodes, CommandForNode
<1>3. CountedAreSent' /\ RequestsAnswered'
  BY DEF LoopInv, CountedAreSent, RequestsAnswered
<1> QED
  BY <1>1, <1>2, <1>3

LEMMA ServerKeeps == ASSUME LoopInv, Server PROVE LoopInv'
<1>1. UNCHANGED <<loRaSF, ADR_ACK_CNT, lastFrame>>
  BY DEF Server, nodeVars
<1>2. TypeOK' /\ HasReading'
  BY TypeNext, HasReadingNext DEF LoopInv, Server, Next
<1>3. NodeTypes' /\ RaiseKept'
  BY <1>1 DEF LoopInv, NodeTypes, RaiseKept
<1>4. ASSUME NEW copy \in network, HandleFrame(copy)
      PROVE  FramesOfNodes' /\ CommandsForNodes' /\ CountedAreSent' /\ RequestsAnswered'
  <2>1. /\ network' = network \ {copy} /\ UNCHANGED <<sent, counted, commands>>
        /\ receivedPackets' = receivedPackets \/ receivedPackets' = AddPktToProcessingTable(copy)
    BY <1>4, Zenon DEF HandleFrame, envVars, adrVars, countVars
  <2>2. ASSUME NEW q \in AddPktToProcessingTable(copy)
        PROVE  q.frame = copy.frame \/ \E p \in receivedPackets : q.frame = p.frame
    <3>1. q.frame = copy.frame \/ \E p \in receivedPackets : q = Joined(p, copy)
      BY AddedWindow, Zenon
    <3>2. \A p \in receivedPackets : Joined(p, copy).frame = p.frame
      BY JoinedKeeps DEF LoopInv
    <3> QED
      BY <3>1, <3>2, Zenon
  <2>3. \A q \in receivedPackets' : \/ \E p \in receivedPackets : q.frame = p.frame
                                    \/ \E d \in network : q.frame = d.frame
    BY <2>1, <2>2
  <2>4. \A c \in network' : \E d \in network : c.frame = d.frame
    BY <2>1
  <2> QED
    BY <1>1, <2>1, <2>3, <2>4, FramesKept
<1>5. ASSUME NEW p \in receivedPackets, ProcessScheduledPacket(p)
      PROVE  FramesOfNodes' /\ CommandsForNodes' /\ CountedAreSent' /\ RequestsAnswered'
  BY <1>5, EndOfWaitingKeeps DEF Server
<1>6. CASE Tick
  <2>1. /\ network' = {[c EXCEPT !.delay = @ - 1] : c \in network}
        /\ receivedPackets' = {[p EXCEPT !.endOfWaiting = @ - 1] : p \in receivedPackets}
        /\ UNCHANGED <<sent, counted, commands>>
    BY <1>6, Zenon DEF Tick, adrVars, countVars
  <2>2. ASSUME NEW c \in network'
        PROVE  \E d \in network : c.frame = d.frame
    <3>1. PICK d \in network : c = [d EXCEPT !.delay = @ - 1]
      BY <2>1, Zenon
    <3>2. d \in Copy
      BY CopyTypes DEF LoopInv
    <3> QED
      BY <3>1, <3>2, Zenon DEF Copy
  <2>3. ASSUME NEW q \in receivedPackets'
        PROVE  \E p \in receivedPackets : q.frame = p.frame
    <3>1. PICK p \in receivedPackets : q = [p EXCEPT !.endOfWaiting = @ - 1]
      BY <2>1, Zenon
    <3>2. p \in ReceivedPacket
      BY WindowTypes DEF LoopInv
    <3> QED
      BY <3>1, <3>2, Zenon DEF ReceivedPacket
  <2>4. FramesOfNodes' /\ CommandsForNodes' /\ CountedAreSent' /\ RequestsAnswered'
    BY <1>1, <2>1, <2>2, <2>3, FramesKept
  <2> QED
    BY <1>2, <1>3, <2>4 DEF LoopInv
<1> QED
  BY <1>2, <1>3, <1>4, <1>5, <1>6 DEF Server, Receive, EndOfWaiting, LoopInv

LEMMA LoopStep == LoopInv /\ [LoopNext]_loopVars => LoopInv'
<1> SUFFICES ASSUME LoopInv, [LoopNext]_loopVars
             PROVE  LoopInv'
  OBVIOUS
<1>1. CASE UNCHANGED loopVars
  <2>1. UNCHANGED <<vars, loRaSF, ADR_ACK_CNT, lastFrame>>
    BY <1>1 DEF loopVars, nodeVars
  <2>2. NodeTypes' /\ RaiseKept'
    BY <2>1 DEF LoopInv, NodeTypes, RaiseKept
  <2> QED
    BY <2>1, <2>2, ServerKept DEF LoopInv
<1> QED
  BY <1>1, UplinkKeeps, DownlinkKeeps, ServerKeeps DEF LoopNext

LEMMA LoopInvariant == LoopSpec => []LoopInv
BY LoopInitial, LoopStep, PTL DEF LoopSpec

-----------------------------------------------------------------------------
(***************************************************************************)
(* A node that asked for an answer gets one sent as soon as its frame is   *)
(* counted: evaluateADR reads the request of the node's last frame,        *)
(* whichever copy opened the window.                                       *)
(***************************************************************************)
THEOREM EveryRequestAnswered == LoopSpec => []RequestsAnswered
<1>1. LoopInv => RequestsAnswered
  BY DEF LoopInv
<1> QED
  BY <1>1, LoopInvariant, PTL

\* The SF of a node before and after a step.
LEMMA SFSteps ==
    ASSUME LoopInv, [LoopNext]_loopVars, NEW n \in Nodes, loRaSF'[n] # loRaSF[n]
    PROVE  \/ /\ Uplink(n)
              /\ loRaSF'[n] = loRaSF[n] + 1 /\ ADR_ACK_CNT[n] + 1 = ADR_ACK_LIMIT + ADR_ACK_DELAY
           \/ loRaSF'[n] <= loRaSF[n] /\ loRaSF[n] = lastFrame[n].sf
<1>1. ASSUME NEW m \in Nodes, Uplink(m)
      PROVE  /\ Uplink(n)
             /\ loRaSF'[n] = loRaSF[n] + 1 /\ ADR_ACK_CNT[n] + 1 = ADR_ACK_LIMIT + ADR_ACK_DELAY
  <2>1. m = n
    BY <1>1, UplinkOfNode
  <2> QED
    BY <1>1, <2>1, UplinkOfNode
<1>2. ASSUME NEW c \in commands, Downlink(c)
      PROVE  loRaSF'[n] <= loRaSF[n] /\ loRaSF[n] = lastFrame[n].sf
  <2>1. c.to = n
    BY <1>2, DownlinkOfNode
  <2> QED
    BY <1>2, <2>1, DownlinkOfNode
<1>3. CASE Server
  BY <1>3 DEF Server, nodeVars
<1>4. CASE UNCHANGED loopVars
  BY <1>4 DEF loopVars, nodeVars
<1> QED
  BY <1>1, <1>2, <1>3, <1>4 DEF LoopNext

(***************************************************************************)
(* The server's commands never raise a node's SF, though it computes them  *)
(* from frames of the past: the SF rises by the node's own decision only,  *)
(* after ADR_ACK_LIMIT + ADR_ACK_DELAY frames without an answer.           *)
(***************************************************************************)
THEOREM OnlyNodesRaise == LoopSpec => CommandsOnlyLowerSF
<1>1. LoopInv /\ [LoopNext]_loopVars => [RaiseIsUnanswered]_loopVars
  <2> SUFFICES ASSUME LoopInv, [LoopNext]_loopVars, NEW n \in Nodes, loRaSF'[n] > loRaSF[n]
               PROVE  sent'[n] = sent[n] + 1 /\ ADR_ACK_CNT[n] + 1 = ADR_ACK_LIMIT + ADR_ACK_DELAY
    BY DEF RaiseIsUnanswered
  <2>1. loRaSF[n] \in 7..12
    BY DEF LoopInv, NodeTypes
  <2>2. loRaSF'[n] # loRaSF[n]
    BY <2>1
  <2>3. Uplink(n) /\ ADR_ACK_CNT[n] + 1 = ADR_ACK_LIMIT + ADR_ACK_DELAY
    <3>1. LoopInv'
      BY LoopStep
    <3>2. loRaSF'[n] \in 7..12
      BY <3>1 DEF LoopInv, NodeTypes
    <3> QED
      BY <2>1, <2>2, <3>2, SFSteps
  <2>4. sent' = [sent EXCEPT ![n] = @ + 1]
    BY <2>3, Zenon DEF Uplink, SendFrame
  <2>5. sent \in [Nodes -> 0..MaxFrames]
    BY DEF LoopInv, TypeOK
  <2> QED
    BY <2>3, <2>4, <2>5
<1> QED
  BY <1>1, LoopInvariant, PTL DEF LoopSpec, CommandsOnlyLowerSF

(***************************************************************************)
(* No command undoes the raise of the frame it answers: LoRaReceiver       *)
(* listens in the new SF already, and the answer comes in the old one.     *)
(***************************************************************************)
THEOREM RaisesStand == LoopSpec => RaiseNotUndone
<1>1. LoopInv /\ [LoopNext]_loopVars => [RaiseStands]_loopVars
  <2> SUFFICES ASSUME LoopInv, [LoopNext]_loopVars, NEW n \in Nodes, loRaSF'[n] < loRaSF[n]
               PROVE  lastFrame[n].emittedSF = lastFrame[n].sf
    BY DEF RaiseStands
  <2>1. loRaSF[n] \in 7..12
    BY DEF LoopInv, NodeTypes
  <2>2. loRaSF[n] = lastFrame[n].sf
    BY <2>1, SFSteps
  <2> QED
    BY <2>2 DEF LoopInv, RaiseKept
<1> QED
  BY <1>1, LoopInvariant, PTL DEF LoopSpec, RaiseNotUndone
=============================================================================
