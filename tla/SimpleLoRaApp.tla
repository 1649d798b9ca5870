--------------------------- MODULE SimpleLoRaApp ---------------------------
(***************************************************************************)
(* LoRaApp/SimpleLoRaApp.cc: the application of an end device and its half *)
(* of ADR.  It counts the frames sent since the last downlink, asks for an *)
(* answer when there are ADR_ACK_LIMIT of them, and raises its spreading   *)
(* factor when ADR_ACK_DELAY more went unanswered.  numberOfPacketsToSend  *)
(* is 0: the application never stops.  The transmission power, which a     *)
(* downlink sets just as it sets the SF, is left out.                      *)
(***************************************************************************)
EXTENDS Integers

CONSTANTS
    Nodes,
    InitialSFs,          \* initialLoRaSF
    SFOptions,           \* SF options a downlink may carry, -1 for none
    ADR_ACK_LIMIT, ADR_ACK_DELAY,
    evaluateADRinNode

ASSUME SFAssumption == InitialSFs \subseteq 7..12 /\ SFOptions \subseteq {-1} \union 7..12
ASSUME AdrAckAssumption == ADR_ACK_LIMIT \in Nat \ {0} /\ ADR_ACK_DELAY \in Nat \ {0}
ASSUME NodeAssumption == evaluateADRinNode \in BOOLEAN

VARIABLES
    loRaSF, ADR_ACK_CNT, sendNextPacketWithADRACKReq,
    lastFrame,      \* per node: SF and ADRACKReq of its last frame, SF emitted for it
    asked           \* history: frames sent since the last downlink or raise asked for an answer

appVars == <<loRaSF, ADR_ACK_CNT, sendNextPacketWithADRACKReq, lastFrame, asked>>

Init ==
    /\ loRaSF \in [Nodes -> InitialSFs]
    /\ ADR_ACK_CNT = [n \in Nodes |-> 0]
    /\ sendNextPacketWithADRACKReq = [n \in Nodes |-> FALSE]
    /\ lastFrame = [n \in Nodes |-> [sf |-> loRaSF[n], adrAckReq |-> FALSE, emittedSF |-> loRaSF[n]]]
    /\ asked = [n \in Nodes |-> FALSE]

\* ADR_ACK_CNT >= ADR_ACK_LIMIT + ADR_ACK_DELAY, after the increment.
RaiseDueAtLimit(count) == count >= ADR_ACK_LIMIT
RaiseDue(count) == count >= ADR_ACK_LIMIT + ADR_ACK_DELAY

RequestDueLate(count) == count = ADR_ACK_LIMIT + 1
RequestDue(count) == count = ADR_ACK_LIMIT

IncreaseSFUnbounded(sf) == sf + 1
IncreaseSFTo11(sf) == IF sf < 11 THEN sf + 1 ELSE sf
IncreaseSFIfPossible(sf) == IF sf < 12 THEN sf + 1 ELSE sf

(***************************************************************************)
(* sendJoinRequest: the frame leaves with the SF and the request pending   *)
(* before the call; then the counter moves, which may raise the SF, and    *)
(* LoRa_AppPacketSent is emitted with the SF after that.                   *)
(***************************************************************************)
SendJoinRequest(n) ==
    LET request == evaluateADRinNode /\ sendNextPacketWithADRACKReq[n]
        count   == ADR_ACK_CNT[n] + 1
        raise   == evaluateADRinNode /\ RaiseDue(count)
    IN
    /\ loRaSF' = [loRaSF EXCEPT ![n] = IF raise THEN IncreaseSFIfPossible(@) ELSE @]
    /\ ADR_ACK_CNT' = [ADR_ACK_CNT EXCEPT ![n] =
           IF ~evaluateADRinNode THEN @ ELSE IF raise THEN 0 ELSE count]
    /\ sendNextPacketWithADRACKReq' = [sendNextPacketWithADRACKReq EXCEPT ![n] =
           evaluateADRinNode /\ (RequestDue(count) \/ (@ /\ ~request))]
    /\ lastFrame' = [lastFrame EXCEPT ![n] =
           [sf |-> loRaSF[n], adrAckReq |-> request, emittedSF |-> loRaSF'[n]]]
    /\ asked' = [asked EXCEPT ![n] = ~raise /\ (@ \/ request)]

(***************************************************************************)
(* handleMessageFromLowerLayer.  Any downlink resets the counter but not a *)
(* pending request; a TXCONFIG sets the SF unless its option is -1.        *)
(***************************************************************************)
HandleDownlink(n, option) ==
    /\ ADR_ACK_CNT' = [ADR_ACK_CNT EXCEPT ![n] = IF evaluateADRinNode THEN 0 ELSE @]
    /\ loRaSF' = [loRaSF EXCEPT ![n] = IF evaluateADRinNode /\ option # -1 THEN option ELSE @]
    /\ asked' = [asked EXCEPT ![n] = FALSE]
    /\ UNCHANGED <<sendNextPacketWithADRACKReq, lastFrame>>

Send == \E n \in Nodes : SendJoinRequest(n)
Receive == \E n \in Nodes, option \in SFOptions : HandleDownlink(n, option)

Next == Send \/ Receive

Spec == Init /\ [][Next]_appVars

\* The application schedules its next packet whenever it sends one; downlinks are not promised.
FairSpec == Spec /\ \A n \in Nodes : WF_appVars(SendJoinRequest(n))

-----------------------------------------------------------------------------
\* Types of all variables.
TypeOK ==
    /\ loRaSF \in [Nodes -> 7..12]
    /\ ADR_ACK_CNT \in [Nodes -> 0..(ADR_ACK_LIMIT + ADR_ACK_DELAY - 1)]
    /\ sendNextPacketWithADRACKReq \in [Nodes -> BOOLEAN]
    /\ lastFrame \in [Nodes -> [sf : 7..12, adrAckReq : BOOLEAN, emittedSF : 7..12]]
    /\ asked \in [Nodes -> BOOLEAN]

(***************************************************************************)
(* increaseSFIfPossible is the last resort: a node raises its SF by itself *)
(* only when it asked for an answer since the last downlink and had        *)
(* ADR_ACK_LIMIT + ADR_ACK_DELAY frames unanswered, and then one step.     *)
(***************************************************************************)
RaiseStep ==
    \A n \in Nodes : loRaSF'[n] # loRaSF[n] =>
        \/ \E option \in SFOptions : HandleDownlink(n, option)
        \/ /\ loRaSF'[n] = loRaSF[n] + 1
           /\ asked[n] \/ lastFrame'[n].adrAckReq
           /\ ADR_ACK_CNT[n] + 1 = ADR_ACK_LIMIT + ADR_ACK_DELAY
RaiseOnlyUnanswered == [][RaiseStep]_appVars

(***************************************************************************)
(* When ADR_ACK_LIMIT frames went unanswered the request is pending, and   *)
(* from the next frame on it was sent: no reset of the counter or the flag *)
(* loses it.                                                               *)
(***************************************************************************)
RequestNotLost ==
    \A n \in Nodes :
        /\ ADR_ACK_CNT[n] = ADR_ACK_LIMIT => sendNextPacketWithADRACKReq[n]
        /\ ADR_ACK_CNT[n] > ADR_ACK_LIMIT => asked[n]

\* A node that hears nothing gets to the most robust SF: silence ends in SF 12.
SilenceEndsInSF12 ==
    evaluateADRinNode => \A n \in Nodes :
        \/ []<><<\E option \in SFOptions : HandleDownlink(n, option)>>_appVars
        \/ <>[](loRaSF[n] = 12)
=============================================================================
