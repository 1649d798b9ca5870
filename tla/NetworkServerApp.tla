-------------------------- MODULE NetworkServerApp --------------------------
(***************************************************************************)
(* LoRa/NetworkServerApp.cc: the network server.  Every gateway that hears *)
(* an uplink frame forwards a copy over the IP network.  The first copy    *)
(* opens a window of 1.2 s, the copies of the other gateways join it, and  *)
(* when it closes the frame is counted, the gateway with the best SNIR is  *)
(* picked and the ADR algorithm decides whether to answer through it.      *)
(*                                                                         *)
(* The nodes, the gateways and the IP network are the environment: a frame *)
(* is heard by any set of gateways, and all copies of it arrive within     *)
(* MaxJitter of each other.  A frame is lost at a gateway or in the        *)
(* network by not being heard.  Time is a set of countdowns lowered by     *)
(* Tick.  The nodes of this module run without ADR; AdrLoop composes it    *)
(* with SimpleLoRaApp.                                                     *)
(***************************************************************************)
EXTENDS Integers, Sequences, FiniteSets

CONSTANTS
    Nodes, Gateways,
    MaxSNIR,             \* signal qualities are 0..MaxSNIR, ordered as numbers
    SFs,                 \* spreading factors in use, between 7 and 12
    MaxFrames,           \* bound on the frames a node sends
    MinGap,              \* shortest time between two frames of a node
    AirTimes, MaxJitter, \* time to the server: air time plus 0..MaxJitter
    Window,              \* endOfWaiting, 1.2 s
    AdrFrames,           \* the constant 20 of evaluateADR
    WarmupPeriod,
    evaluateADRinServer

ASSUME NumbersAssumption ==
    /\ MaxSNIR \in Nat /\ SFs \subseteq 7..12
    /\ MaxFrames \in Nat /\ AdrFrames \in Nat \ {0, 1} /\ WarmupPeriod \in Nat
ASSUME DelaysAssumption ==
    /\ MinGap \in Nat /\ AirTimes \subseteq Nat /\ MaxJitter \in Nat /\ Window \in Nat
ASSUME AdrAssumption == evaluateADRinServer \in BOOLEAN

VARIABLES
    sent,                \* per node: frames sent, the next sequence number
    nextPacket,          \* per node: time until it may send again
    heardBy,             \* per node: gateway -> SNIR or Lost, for its last frame
    network,             \* copies on their way to the server
    warmup,              \* time until the end of the warm-up period
    lastSeqNoProcessed,  \* knownNodes: -1 for a node that is not known yet
    framesFromLastADRCommand, numberOfSentADRPackets, adrListSNIR,   \* knownNodes
    receivedPackets,     \* frames in their waiting window
    numReceivedPerNode,
    counterOfSentPacketsFromNodes, counterOfSentPacketsFromNodesPerSF,
    counterUniqueReceivedPackets, counterUniqueReceivedPacketsPerSF,
    commands,            \* ADR packets sent: node, gateway, frame answered, SF option
    heard, counted       \* history: frames that reached the server, that were counted

envVars  == <<sent, nextPacket, heardBy, counterOfSentPacketsFromNodes,
              counterOfSentPacketsFromNodesPerSF>>
adrVars  == <<framesFromLastADRCommand, numberOfSentADRPackets, adrListSNIR, commands>>
countVars == <<numReceivedPerNode, counterUniqueReceivedPackets,
               counterUniqueReceivedPacketsPerSF, counted>>
vars == <<envVars, network, warmup, lastSeqNoProcessed, adrVars, receivedPackets,
          countVars, heard>>

SNIRs == 0..MaxSNIR
Lost == -1      \* at a gateway that did not hear the frame

Frame == [src : Nodes, seq : Nat, sf : SFs, adrAckReq : BOOLEAN]
Reading == [gateway : Gateways, snir : SNIRs]
Copy == [frame : Frame, gateway : Gateways, snir : SNIRs, delay : Nat]
Command == [to : Nodes, gateway : Gateways, seq : Nat, loRaSF : {-1} \union 7..12]
ReceivedPacket == [frame : Frame, possibleGateways : Seq(Reading), endOfWaiting : Nat]

Name(frame) == <<frame.src, frame.seq>>
Warm == warmup = 0

-----------------------------------------------------------------------------
Init ==
    /\ sent = [n \in Nodes |-> 0]
    /\ nextPacket = [n \in Nodes |-> 0]
    /\ heardBy = [n \in Nodes |-> [g \in Gateways |-> Lost]]
    /\ network = {}
    /\ warmup = WarmupPeriod
    /\ lastSeqNoProcessed = [n \in Nodes |-> -1]
    /\ framesFromLastADRCommand = [n \in Nodes |-> 0]
    /\ numberOfSentADRPackets = [n \in Nodes |-> 0]
    /\ adrListSNIR = [n \in Nodes |-> <<>>]
    /\ receivedPackets = {}
    /\ numReceivedPerNode = [n \in Nodes |-> 0]
    /\ counterOfSentPacketsFromNodes = 0
    /\ counterOfSentPacketsFromNodesPerSF = [sf \in 7..12 |-> 0]
    /\ counterUniqueReceivedPackets = 0
    /\ counterUniqueReceivedPacketsPerSF = [sf \in 7..12 |-> 0]
    /\ commands = {}
    /\ heard = {} /\ counted = {}

\* receiveSignal for LoRa_AppPacketSent, whose value is a spreading factor.
CountSentPacketOneBelow(value) ==
    /\ counterOfSentPacketsFromNodes' = counterOfSentPacketsFromNodes + 1
    /\ counterOfSentPacketsFromNodesPerSF' =
           [counterOfSentPacketsFromNodesPerSF EXCEPT ![value - 1] = @ + 1]
CountSentPacket(value) ==
    IF Warm
    THEN /\ counterOfSentPacketsFromNodes' = counterOfSentPacketsFromNodes + 1
         /\ counterOfSentPacketsFromNodesPerSF' =
                [counterOfSentPacketsFromNodesPerSF EXCEPT ![value] = @ + 1]
    ELSE UNCHANGED <<counterOfSentPacketsFromNodes, counterOfSentPacketsFromNodesPerSF>>

(***************************************************************************)
(* A node sends a frame with spreading factor sf, and its application      *)
(* emits LoRa_AppPacketSent with the value emittedSF.  The gateways that   *)
(* hear the frame forward a copy each.                                     *)
(***************************************************************************)
SendFrame(n, sf, adrAckReq, emittedSF) ==
    /\ nextPacket[n] = 0 /\ sent[n] < MaxFrames
    /\ \E snir \in [Gateways -> SNIRs \union {Lost}],
          airTime \in AirTimes, jitter \in [Gateways -> 0..MaxJitter] :
        LET frame == [src |-> n, seq |-> sent[n], sf |-> sf, adrAckReq |-> adrAckReq] IN
        /\ heardBy' = [heardBy EXCEPT ![n] = snir]
        /\ network' = network \union
               {[frame |-> frame, gateway |-> g, snir |-> snir[g], delay |-> airTime + jitter[g]] :
                    g \in {h \in Gateways : snir[h] # Lost}}
    /\ CountSentPacket(emittedSF)
    /\ sent' = [sent EXCEPT ![n] = @ + 1]
    /\ nextPacket' = [nextPacket EXCEPT ![n] = MinGap]
    /\ UNCHANGED <<warmup, lastSeqNoProcessed, adrVars, receivedPackets, countVars, heard>>

(***************************************************************************)
(* addPktToProcessingTable: a copy of a frame whose window is open adds    *)
(* its gateway, any other copy opens a window.                             *)
(***************************************************************************)
OpenAnotherWindow(copy) ==
    receivedPackets \union {[frame |-> copy.frame, endOfWaiting |-> Window,
        possibleGateways |-> <<[gateway |-> copy.gateway, snir |-> copy.snir]>>]}
AddPktToProcessingTable(copy) ==
    LET reading == [gateway |-> copy.gateway, snir |-> copy.snir]
        Same(p) == Name(p.frame) = Name(copy.frame)
    IN IF \E p \in receivedPackets : Same(p)
       THEN {IF Same(p) THEN [p EXCEPT !.possibleGateways = Append(@, reading)] ELSE p :
                 p \in receivedPackets}
       ELSE receivedPackets \union
                {[frame |-> copy.frame, possibleGateways |-> <<reading>>, endOfWaiting |-> Window]}

\* isPacketProcessed, after updateKnownNodes: a later frame of the node was seen.
IsPacketProcessedOrSeen(last, frame) == last >= frame.seq
IsPacketProcessed(last, frame) == last > frame.seq

\* handleMessage for a message of udpIn: updateKnownNodes, processLoraMACPacket.
HandleFrame(copy) ==
    LET n == copy.frame.src IN
    /\ copy.delay = 0
    /\ network' = network \ {copy}
    /\ lastSeqNoProcessed' =
           [lastSeqNoProcessed EXCEPT ![n] = IF @ < copy.frame.seq THEN copy.frame.seq ELSE @]
    /\ receivedPackets' = IF IsPacketProcessed(lastSeqNoProcessed'[n], copy.frame)
                          THEN receivedPackets ELSE AddPktToProcessingTable(copy)
    /\ heard' = heard \union {Name(copy.frame)}
    /\ UNCHANGED <<envVars, warmup, adrVars, countVars>>

-----------------------------------------------------------------------------
\* processScheduledPacket: the first of the gateways with the best SNIR.
LastGateway(readings) == readings[Len(readings)]
PickedGateway(readings) ==
    LET best == CHOOSE i \in DOMAIN readings :
                    \A j \in DOMAIN readings :
                        /\ readings[j].snir <= readings[i].snir
                        /\ j < i => readings[j].snir < readings[i].snir
    IN readings[best]

\* The list of the last SNIRs: push_back, then pop_front when it holds AdrFrames values.
RememberAll(list, snir) == Append(list, snir)
Remember(list, snir) ==
    LET longer == Append(list, snir)
    IN IF Len(longer) = AdrFrames THEN Tail(longer) ELSE longer

(***************************************************************************)
(* evaluateADR.  An answer is due every AdrFrames frames, and when the     *)
(* frame asked for one.  nodeIndex is set only in the first case; in the   *)
(* second the counter of any node, or memory outside the table, is         *)
(* incremented.  A due answer sets the SF, by margin, to the one of the    *)
(* frame or a lower one; any other leaves the option at its default, -1.   *)
(***************************************************************************)
AdrDueOneLate(n) == framesFromLastADRCommand[n] = AdrFrames
AdrDue(n) == framesFromLastADRCommand[n] + 1 = AdrFrames

AnswerOnlyDue(frame) == AdrDue(frame.src)
AnswerDue(frame) == AdrDue(frame.src) \/ frame.adrAckReq

CountNoADRPacket(n, known) == UNCHANGED numberOfSentADRPackets
CountADRPacket(n, known) ==
    IF known
    THEN numberOfSentADRPackets' = [numberOfSentADRPackets EXCEPT ![n] = @ + 1]
    ELSE \/ UNCHANGED numberOfSentADRPackets
         \/ \E victim \in {m \in Nodes : lastSeqNoProcessed[m] # -1} :
                numberOfSentADRPackets' = [numberOfSentADRPackets EXCEPT ![victim] = @ + 1]

EvaluateADR(frame, picked) ==
    LET n == frame.src IN
    /\ adrListSNIR' = [adrListSNIR EXCEPT ![n] = Remember(@, picked.snir)]
    /\ framesFromLastADRCommand' =
           [framesFromLastADRCommand EXCEPT ![n] = IF AdrDue(n) THEN 0 ELSE @ + 1]
    /\ IF AnswerDue(frame)
       THEN /\ \E sf \in IF AdrDue(n) THEN 7..frame.sf ELSE {-1} :
                   commands' = commands \union
                       {[to |-> n, gateway |-> picked.gateway, seq |-> frame.seq, loRaSF |-> sf]}
            /\ IF Warm THEN CountADRPacket(n, AdrDue(n)) ELSE UNCHANGED numberOfSentADRPackets
       ELSE UNCHANGED <<commands, numberOfSentADRPackets>>

\* processScheduledPacket: the waiting window of a frame ends.
ProcessScheduledPacket(p) ==
    /\ p.endOfWaiting = 0
    /\ receivedPackets' = receivedPackets \ {p}
    /\ numReceivedPerNode' = [numReceivedPerNode EXCEPT ![p.frame.src] = @ + 1]
    /\ counted' = counted \union {Name(p.frame)}
    /\ IF Warm
       THEN /\ counterUniqueReceivedPackets' = counterUniqueReceivedPackets + 1
            /\ counterUniqueReceivedPacketsPerSF' =
                   [counterUniqueReceivedPacketsPerSF EXCEPT ![p.frame.sf] = @ + 1]
       ELSE UNCHANGED <<counterUniqueReceivedPackets, counterUniqueReceivedPacketsPerSF>>
    /\ IF evaluateADRinServer
       THEN EvaluateADR(p.frame, PickedGateway(p.possibleGateways))
       ELSE UNCHANGED adrVars
    /\ UNCHANGED <<envVars, network, warmup, lastSeqNoProcessed, heard>>

-----------------------------------------------------------------------------
Down(timer) == IF timer = 0 THEN 0 ELSE timer - 1

\* The clock advances when no copy and no window is due.
Tick ==
    /\ \A copy \in network : copy.delay # 0
    /\ \A p \in receivedPackets : p.endOfWaiting # 0
    /\ nextPacket' = [n \in Nodes |-> Down(nextPacket[n])]
    /\ warmup' = Down(warmup)
    /\ network' = {[copy EXCEPT !.delay = @ - 1] : copy \in network}
    /\ receivedPackets' = {[p EXCEPT !.endOfWaiting = @ - 1] : p \in receivedPackets}
    /\ UNCHANGED <<sent, heardBy, counterOfSentPacketsFromNodes, counterOfSentPacketsFromNodesPerSF,
                   lastSeqNoProcessed, adrVars, countVars, heard>>

\* Applications without ADR: they ask for no answer and report the SF they used.
Send == \E n \in Nodes, sf \in SFs : SendFrame(n, sf, FALSE, sf)
Receive == \E copy \in network : HandleFrame(copy)
EndOfWaiting == \E p \in receivedPackets : ProcessScheduledPacket(p)

Next == Send \/ Receive \/ EndOfWaiting \/ Tick

Spec == Init /\ [][Next]_vars

(***************************************************************************)
(* The event loop handles every message that is due and then advances the  *)
(* clock.  No node has to send.                                            *)
(***************************************************************************)
FairSpec == Spec /\ WF_vars(Receive) /\ WF_vars(EndOfWaiting) /\ WF_vars(Tick)

-----------------------------------------------------------------------------
\* Types of all variables.
TypeOK ==
    /\ sent \in [Nodes -> 0..MaxFrames]
    /\ nextPacket \in [Nodes -> 0..MinGap]
    /\ heardBy \in [Nodes -> [Gateways -> SNIRs \union {Lost}]]
    /\ network \subseteq Copy
    /\ warmup \in 0..WarmupPeriod
    /\ lastSeqNoProcessed \in [Nodes -> Nat \union {-1}]
    /\ framesFromLastADRCommand \in [Nodes -> 0..(AdrFrames - 1)]
    /\ numberOfSentADRPackets \in [Nodes -> Nat]
    /\ adrListSNIR \in [Nodes -> Seq(SNIRs)]
    /\ receivedPackets \subseteq ReceivedPacket
    /\ numReceivedPerNode \in [Nodes -> Nat]
    /\ counterOfSentPacketsFromNodes \in Nat
    /\ counterOfSentPacketsFromNodesPerSF \in [7..12 -> Nat]
    /\ counterUniqueReceivedPackets \in Nat
    /\ counterUniqueReceivedPacketsPerSF \in [7..12 -> Nat]
    /\ commands \subseteq Command
    /\ heard \subseteq Nodes \X Nat /\ counted \subseteq Nodes \X Nat

(***************************************************************************)
(* The server is a frame counter: the copies of a frame that several       *)
(* gateways heard share one window, and a frame is not counted again after *)
(* its window closed.  Needs Window > MaxJitter: isPacketProcessed lets a  *)
(* copy of the latest frame through, whether it was counted or not.        *)
(***************************************************************************)
Counter == INSTANCE FrameCounter WITH
    SequenceNumbers <- 0..(MaxFrames - 1), counter <- numReceivedPerNode
ImplementsFrameCounter == Counter!Spec

(***************************************************************************)
(* LoRa_NS_DER and the DER of each spreading factor are ratios of at most  *)
(* one: no more unique frames are counted than the nodes reported sent.    *)
(***************************************************************************)
DeliveryRatio == counterUniqueReceivedPackets <= counterOfSentPacketsFromNodes
DeliveryRatioPerSF ==
    \A sf \in 7..12 : counterUniqueReceivedPacketsPerSF[sf] <= counterOfSentPacketsFromNodesPerSF[sf]

(***************************************************************************)
(* A node is answered through a gateway that heard the frame answered, and *)
(* no other gateway heard it better.  All copies have to arrive in the     *)
(* window, and none may be discarded as older than a later frame.          *)
(***************************************************************************)
BestGateway ==
    \A c \in commands : c.seq = sent[c.to] - 1 =>
        /\ heardBy[c.to][c.gateway] # Lost
        /\ \A g \in Gateways :
               heardBy[c.to][g] # Lost => heardBy[c.to][g] <= heardBy[c.to][c.gateway]

(***************************************************************************)
(* Without ADR in the nodes, answers come every AdrFrames frames: those    *)
(* counted since the last answer and those before it add up to all frames  *)
(* counted, and the list has grown by one value a frame up to its limit.   *)
(***************************************************************************)
AdrPace ==
    evaluateADRinServer =>
        \A n \in Nodes :
            /\ numReceivedPerNode[n] = framesFromLastADRCommand[n]
                   + AdrFrames * Cardinality({c \in commands : c.to = n})
            /\ Len(adrListSNIR[n]) = IF numReceivedPerNode[n] < AdrFrames
                                     THEN numReceivedPerNode[n] ELSE AdrFrames - 1

(***************************************************************************)
(* "Send ADR for node", the scalar finish() records for each node, is the  *)
(* number of ADR packets sent to it.                                       *)
(***************************************************************************)
AdrPacketsCounted ==
    WarmupPeriod = 0 =>
        \A n \in Nodes : numberOfSentADRPackets[n] = Cardinality({c \in commands : c.to = n})

\* A frame that reached the server is counted in the end: no copy loses its frame.
EveryFrameCounted ==
    \A n \in Nodes, s \in 0..(MaxFrames - 1) : <<n, s>> \in heard ~> <<n, s>> \in counted
=============================================================================
