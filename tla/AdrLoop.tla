------------------------------ MODULE AdrLoop ------------------------------
(***************************************************************************)
(* Both halves of ADR: the applications of SimpleLoRaApp and the server of *)
(* NetworkServerApp.  A frame of the application is the uplink the server  *)
(* hears, LoRa_AppPacketSent is the signal the server subscribed to, and   *)
(* an ADR packet of the server is the downlink the application gets.  The  *)
(* gateways and the link layers between them are the environment: a        *)
(* downlink gets to the node in the receive windows of the frame it        *)
(* answers, or not at all.                                                 *)
(***************************************************************************)
EXTENDS NetworkServerApp

CONSTANTS InitialSFs, SFOptions, ADR_ACK_LIMIT, ADR_ACK_DELAY, evaluateADRinNode,
          RxWindows    \* the time after a frame in which its node listens

ASSUME RxWindowsAssumption == RxWindows \in 0..MinGap
ASSUME LoopAssumption ==
    /\ SFs = 7..12 /\ InitialSFs \subseteq SFs
    /\ ADR_ACK_LIMIT \in Nat \ {0} /\ ADR_ACK_DELAY \in Nat \ {0} /\ evaluateADRinNode \in BOOLEAN

VARIABLES loRaSF, ADR_ACK_CNT, sendNextPacketWithADRACKReq, lastFrame, asked,   \* SimpleLoRaApp
          delivered    \* commands that got to their node

App == INSTANCE SimpleLoRaApp

nodeVars == <<loRaSF, ADR_ACK_CNT, sendNextPacketWithADRACKReq, lastFrame, asked>>
loopVars == <<vars, nodeVars, delivered>>

LoopInit == Init /\ App!Init /\ delivered = {}

Uplink(n) ==
    /\ App!SendJoinRequest(n)
    /\ SendFrame(n, lastFrame'[n].sf, lastFrame'[n].adrAckReq, lastFrame'[n].emittedSF)
    /\ UNCHANGED delivered

\* LoRaReceiver hears a frame only in the SF its application has when the frame starts; an
\* answer leaves in the SF of the frame answered.
ListensAnyway(n) == TRUE
Listens(n) == loRaSF[n] = lastFrame[n].sf

\* The time since the last frame of a node is MinGap - nextPacket.
Downlink(c) ==
    /\ c \notin delivered
    /\ c.seq = sent[c.to] - 1 /\ MinGap - nextPacket[c.to] <= RxWindows
    /\ Listens(c.to)
    /\ delivered' = delivered \union {c}
    /\ App!HandleDownlink(c.to, c.loRaSF)
    /\ UNCHANGED vars

Server == (Receive \/ EndOfWaiting \/ Tick) /\ UNCHANGED <<nodeVars, delivered>>

LoopNext ==
    \/ \E n \in Nodes : Uplink(n)
    \/ \E c \in commands : Downlink(c)
    \/ Server

LoopSpec == LoopInit /\ [][LoopNext]_loopVars

-----------------------------------------------------------------------------
(***************************************************************************)
(* ADR commands only speed a node up: its SF rises by the decision of the  *)
(* node alone, after ADR_ACK_LIMIT + ADR_ACK_DELAY frames without an       *)
(* answer.  The server computes the SF of a command from the SF of a frame *)
(* and a window later, so an answer to an old frame could raise it.        *)
(***************************************************************************)
RaiseIsUnanswered ==
    \A n \in Nodes : loRaSF'[n] > loRaSF[n] =>
        sent'[n] = sent[n] + 1 /\ ADR_ACK_CNT[n] + 1 = ADR_ACK_LIMIT + ADR_ACK_DELAY
CommandsOnlyLowerSF == [][RaiseIsUnanswered]_loopVars

(***************************************************************************)
(* A raise stands until a later frame: no command computed from the frame  *)
(* with which the node raised its SF takes the raise back.  The command    *)
(* carries the lower SF of that frame and sets it without comparison; only *)
(* the receiver, already in the new SF, keeps it away.                     *)
(***************************************************************************)
RaiseStands ==
    \A n \in Nodes : loRaSF'[n] < loRaSF[n] => lastFrame[n].emittedSF = lastFrame[n].sf
RaiseNotUndone == [][RaiseStands]_loopVars

(***************************************************************************)
(* A node that asked for an answer is owed one as soon as its frame is     *)
(* counted: the server remembers ADRACKReq from the first copy it got      *)
(* until the end of the window, whichever copies follow.                   *)
(***************************************************************************)
RequestsAnswered ==
    \A n \in Nodes :
        /\ lastFrame[n].adrAckReq /\ evaluateADRinServer
        /\ <<n, sent[n] - 1>> \in counted
        => \E c \in commands : c.to = n /\ c.seq = sent[n] - 1
=============================================================================
