---------------------------- MODULE LoRaMac_proofs ----------------------------
(***************************************************************************)
(* Safety of LoRaMac, and LoRaMacReentrant's implementation of it, for     *)
(* every set of frames and all durations.                                  *)
(*                                                                         *)
(* The inductive invariant adds to the properties what their induction     *)
(* needs: which window timers are off in each state, the order in which    *)
(* the others fire, which parts frames have, and the exact downlink count. *)
(***************************************************************************)
EXTENDS LoRaMacReentrant, TLAPS

\* A window timer that is scheduled fires strictly before the next one, which is scheduled too.
TimerOrder ==
    /\ Scheduled(endDelay_1) => endDelay_1 < endListening_1
    /\ Scheduled(endListening_1) => endListening_1 < endDelay_2
    /\ Scheduled(endDelay_2) => endDelay_2 < endListening_2

\* The states after a timer's own state find it off.
TimersSpent ==
    /\ fsm # "WAIT_DELAY_1" => ~Scheduled(endDelay_1)
    /\ fsm \notin {"WAIT_DELAY_1", "LISTENING_1", "RECEIVING_1"} => ~Scheduled(endListening_1)
    /\ fsm \notin {"WAIT_DELAY_1", "LISTENING_1", "RECEIVING_1", "WAIT_DELAY_2"}
           => ~Scheduled(endDelay_2)
    /\ fsm \in {"IDLE", "TRANSMIT"} => ~Scheduled(endListening_2)

\* Without separateReceptionParts no reception can be given up between two parts.
PartInv == ~separateReceptionParts => \A f \in Frames : part[f] = "WHOLE"

\* A cycle whose downlink is still to come has one uplink more than downlinks.
CountInv ==
    /\ numReceived <= numSent
    /\ fsm \notin {"IDLE", "TRANSMIT"} => numReceived < numSent

IInv ==
    /\ TypeOK /\ TimerOrder /\ TimersSpent /\ TimersFollowMac
    /\ RadioFollowsMac /\ PartInv /\ CountInv /\ QueueIsCurrentTransmission

USE FramesAssumption, TimesAssumption, ParametersAssumption DEF Off, Scheduled, TimerValues

-----------------------------------------------------------------------------
\* Init of LoRaMac::initialize satisfies the inductive invariant.
LEMMA InitIInv == Init => IInv
<1> SUFFICES ASSUME Init PROVE IInv
  OBVIOUS
<1> USE DEF Init
<1>1. TypeOK
  <2>1. transmissionQueue \in Seq(Nat) /\ down \in Seq(Nat) /\ up \in Seq(Receivers)
    OBVIOUS
  <2>2. air \in [Frames -> {Off} \union Nat] /\ part \in [Frames -> Parts]
        /\ receiver \in [Frames -> Receivers]
    BY DEF Parts, Receivers
  <2>3. /\ endDelay_1 \in {Off} /\ endListening_1 \in {Off} /\ endDelay_2 \in {Off}
        /\ endListening_2 \in {Off} /\ transmissionTimer \in {Off}
        /\ nextPacket \in TimerValues(MaxGap)
    OBVIOUS
  <2> QED
    BY <2>1, <2>2, <2>3 DEF TypeOK, MacStates, RadioModes
<1>2. TimerOrder /\ TimersSpent /\ TimersFollowMac
  BY DEF TimerOrder, TimersSpent, TimersFollowMac
<1>3. RadioFollowsMac /\ PartInv /\ CountInv
  BY DEF RadioFollowsMac, PartInv, CountInv
<1>4. QueueIsCurrentTransmission
  <2>1. transmissionQueue = IF fsm = "TRANSMIT" THEN <<sequenceNumber - 1>> ELSE <<>>
    OBVIOUS
  <2>2. Len(transmissionQueue) = 0
    OBVIOUS
  <2>3. down = <<>> /\ ~Scheduled(transmissionTimer) /\ fsm # "TRANSMIT"
    OBVIOUS
  <2>4. numSent = sequenceNumber - 0
    OBVIOUS
  <2> HIDE DEF Init, Scheduled
  <2> QED
    BY <2>1, <2>2, <2>3, <2>4 DEF QueueIsCurrentTransmission
<1> QED
  BY <1>1, <1>2, <1>3, <1>4 DEF IInv

\* The entry states: what the nested state changes of handleWithFsm can settle in.
LEMMA EnterTypes ==
    ASSUME NEW l1 \in BOOLEAN, NEW d2 \in BOOLEAN, NEW l2 \in BOOLEAN
    PROVE  /\ EnterListening_2(l2) \in MacStates
           /\ EnterWaitDelay_2(d2, l2) \in MacStates
           /\ EnterListening_1(l1, d2, l2) \in MacStates
BY DEF EnterListening_2, EnterWaitDelay_2, EnterListening_1, MacStates

LEMMA EntryModeType == \A state : EntryMode(state) \in RadioModes
BY DEF EntryMode, RadioModes

LEMMA BackToListeningType == BackToListening \in MacStates
BY EnterTypes DEF BackToListening

\* Every step keeps the types.
LEMMA TypeStep == IInv /\ [Next]_vars => TypeOK'
<1> SUFFICES ASSUME IInv, [Next]_vars PROVE TypeOK'
  OBVIOUS
<1> USE DEF IInv, TypeOK, macVars, timerVars, radioVars, frameVars, linkVars
<1>1. CASE HandleUpperPacket
  <2>1. CASE fsm # "IDLE"
    BY <1>1, <2>1 DEF HandleUpperPacket
  <2>2. CASE fsm = "IDLE"
    <3>1. transmissionQueue' \in Seq(Nat) /\ transmissionQueue' = <<sequenceNumber>>
      BY <1>1, <2>2 DEF HandleUpperPacket, QueueIsCurrentTransmission
    <3>2. Head(transmissionQueue') \in Nat
      BY <3>1
    <3>3. down' \in Seq(Nat)
      <4>1. down' = Append(down, Head(transmissionQueue'))
        BY <1>1, <2>2 DEF HandleUpperPacket
      <4> QED
        BY <3>2, <4>1
    <3>4. nextPacket' \in TimerValues(MaxGap)
      BY <1>1, <2>2 DEF HandleUpperPacket
    <3> QED
      BY <1>1, <2>2, <3>1, <3>3, <3>4 DEF HandleUpperPacket, MacStates, RadioModes
  <2> QED
    BY <2>1, <2>2
<1>2. CASE HandleLowerPacket
  <2>1. up' \in Seq(Receivers)
    BY <1>2 DEF HandleLowerPacket
  <2>2. fsm' \in MacStates /\ radioMode' \in RadioModes
    BY <1>2, BackToListeningType, EntryModeType DEF HandleLowerPacket, AfterFrame, MacStates
  <2> QED
    BY <1>2, <2>1, <2>2, SMTT(40) DEF HandleLowerPacket, CancelTimers
<1>3. CASE FireEndDelay_1
  BY <1>3, EnterTypes, EntryModeType, ZenonT(40) DEF FireEndDelay_1
<1>4. CASE FireEndListening_1
  BY <1>4, EnterTypes, EntryModeType, ZenonT(40) DEF FireEndListening_1
<1>5. CASE FireEndDelay_2
  BY <1>5, EnterTypes, EntryModeType, ZenonT(40) DEF FireEndDelay_2
<1>6. CASE FireEndListening_2
  BY <1>6, EntryModeType DEF FireEndListening_2, MacStates
<1>7. CASE RadioHandleUpperPacket
  BY <1>7 DEF RadioHandleUpperPacket
<1>8. CASE EndTransmission
  <2>1. transmissionQueue # <<>>
    BY <1>8 DEF EndTransmission, QueueIsCurrentTransmission
  <2> QED
    BY <1>8, <2>1 DEF EndTransmission, PopTransmissionQueue, MacStates, RadioModes, RxWindows
<1>9. ASSUME NEW f \in Frames, ReceptionTimerFires(f) PROVE TypeOK'
  <2>1. CASE ContinueReception(f)
    BY <2>1 DEF ContinueReception, NextPart, Parts, RadioModes
  <2>2. CASE EndReceptionIgnored(f)
    BY <2>2 DEF EndReceptionIgnored
  <2>3. CASE EndReceptionSuccess(f)
    BY <2>3 DEF EndReceptionSuccess, RadioModes
  <2>4. CASE EndReceptionDropped(f)
    BY <2>4, BackToListeningType, EntryModeType DEF EndReceptionDropped
  <2> QED
    BY <1>9, <2>1, <2>2, <2>3, <2>4 DEF ReceptionTimerFires
<1>10. ASSUME NEW f \in Frames, StartReception(f) PROVE TypeOK'
  <2>1. fsm' \in MacStates /\ receptionTimer' \in Frames \union {NoFrame}
    BY <1>10 DEF StartReception, OnReceiving, MacStates
  <2>2. PICK d \in AirTimes, to \in Receivers :
            /\ air' = [air EXCEPT ![f] = d]
            /\ receiver' = [receiver EXCEPT ![f] = to]
            /\ part' = [part EXCEPT ![f] = IF separateReceptionParts THEN "PREAMBLE" ELSE "WHOLE"]
    BY <1>10 DEF StartReception
  <2>3. air' \in [Frames -> {Off} \union Nat] /\ receiver' \in [Frames -> Receivers]
        /\ part' \in [Frames -> Parts]
    BY <2>2 DEF Parts
  <2> QED
    BY <1>10, <2>1, <2>3 DEF StartReception
<1>11. CASE Tick
  <2>1. air' \in [Frames -> {Off} \union Nat]
    BY <1>11 DEF Tick, Countdown
  <2> QED
    BY <1>11, <2>1 DEF Tick, Countdown, RxWindows
<1>12. CASE UNCHANGED vars
  BY <1>12 DEF vars
<1> QED
  BY <1>1, <1>2, <1>3, <1>4, <1>5, <1>6, <1>7, <1>8, <1>9, <1>10, <1>11, <1>12
     DEF Next, Mac, Radio, Arrival

-----------------------------------------------------------------------------
\* Every step keeps the window timers in order and in step with the state machine.
LEMMA TimerStep ==
    IInv /\ [Next]_vars => TimerOrder' /\ TimersSpent' /\ TimersFollowMac'
<1> SUFFICES ASSUME IInv, [Next]_vars PROVE TimerOrder' /\ TimersSpent' /\ TimersFollowMac'
  OBVIOUS
<1> USE DEF IInv, TypeOK, TimerOrder, TimersSpent, TimersFollowMac, MacStates,
            macVars, timerVars, radioVars, frameVars, linkVars
<1>1. CASE HandleUpperPacket
  BY <1>1 DEF HandleUpperPacket
<1>2. CASE HandleLowerPacket
  BY <1>2 DEF HandleLowerPacket, CancelTimers, AfterFrame, BackToListening, EnterListening_1,
              EnterWaitDelay_2, EnterListening_2
<1>3. CASE FireEndDelay_1
  BY <1>3 DEF FireEndDelay_1, EnterListening_1, EnterWaitDelay_2, EnterListening_2
<1>4. CASE FireEndListening_1
  BY <1>4 DEF FireEndListening_1, EnterWaitDelay_2, EnterListening_2
<1>5. CASE FireEndDelay_2
  BY <1>5 DEF FireEndDelay_2, EnterListening_2
<1>6. CASE FireEndListening_2
  BY <1>6 DEF FireEndListening_2
<1>7. CASE RadioHandleUpperPacket
  BY <1>7 DEF RadioHandleUpperPacket
<1>8. CASE EndTransmission
  BY <1>8 DEF EndTransmission
<1>9. ASSUME NEW f \in Frames, ReceptionTimerFires(f)
      PROVE  TimerOrder' /\ TimersSpent' /\ TimersFollowMac'
  <2>1. CASE ContinueReception(f)
    BY <2>1 DEF ContinueReception
  <2>2. CASE EndReceptionIgnored(f)
    BY <2>2 DEF EndReceptionIgnored
  <2>3. CASE EndReceptionSuccess(f)
    BY <2>3 DEF EndReceptionSuccess
  <2>4. CASE EndReceptionDropped(f)
    <3>1. fsm \in {"RECEIVING_1", "RECEIVING_2"}
      BY <2>4 DEF EndReceptionDropped, RadioFollowsMac
    <3> QED
      BY <2>4, <3>1 DEF EndReceptionDropped, BackToListening, EnterListening_1,
                      EnterWaitDelay_2, EnterListening_2
  <2> QED
    BY <1>9, <2>1, <2>2, <2>3, <2>4 DEF ReceptionTimerFires
<1>10. ASSUME NEW f \in Frames, StartReception(f)
       PROVE  TimerOrder' /\ TimersSpent' /\ TimersFollowMac'
  BY <1>10 DEF StartReception, OnReceiving
<1>11. CASE Tick
  BY <1>11 DEF Tick, Countdown
<1>12. CASE UNCHANGED vars
  BY <1>12 DEF vars
<1> QED
  BY <1>1, <1>2, <1>3, <1>4, <1>5, <1>6, <1>7, <1>8, <1>9, <1>10, <1>11, <1>12
     DEF Next, Mac, Radio, Arrival

-----------------------------------------------------------------------------
\* Every step keeps the radio in the mode the state machine needs.
LEMMA RadioStep == IInv /\ [Next]_vars => RadioFollowsMac' /\ PartInv'
<1> SUFFICES ASSUME IInv, [Next]_vars PROVE RadioFollowsMac' /\ PartInv'
  OBVIOUS
<1> USE DEF IInv, TypeOK, RadioFollowsMac, PartInv, MacStates, macVars, timerVars, radioVars, frameVars,
            linkVars
<1>1. CASE HandleUpperPacket
  BY <1>1 DEF HandleUpperPacket
<1>2. CASE HandleLowerPacket
  <2>1. /\ fsm \in {"RECEIVING_1", "RECEIVING_2"} /\ radioMode = "SLEEP"
        /\ receptionTimer = NoFrame /\ up \in Seq(Receivers) /\ Len(up) = 1
    BY <1>2 DEF HandleLowerPacket
  <2>2. up' = <<>>
    <3>1. up' = Tail(up)
      BY <1>2 DEF HandleLowerPacket
    <3> QED
      BY <2>1, <3>1, SMTT(40)
  <2>3. /\ fsm' \in {"IDLE", "LISTENING_1", "LISTENING_2", "WAIT_DELAY_2"}
        /\ radioMode' = EntryMode(fsm')
    BY <1>2, <2>1 DEF HandleLowerPacket, AfterFrame, BackToListening, EnterListening_1,
                      EnterWaitDelay_2, EnterListening_2
  <2> QED
    BY <1>2, <2>1, <2>2, <2>3 DEF HandleLowerPacket, EntryMode
<1>3. CASE FireEndDelay_1
  BY <1>3 DEF FireEndDelay_1, EnterListening_1, EnterWaitDelay_2, EnterListening_2, EntryMode
<1>4. CASE FireEndListening_1
  BY <1>4 DEF FireEndListening_1, EnterWaitDelay_2, EnterListening_2, EntryMode
<1>5. CASE FireEndDelay_2
  BY <1>5 DEF FireEndDelay_2, EnterListening_2, EntryMode
<1>6. CASE FireEndListening_2
  BY <1>6 DEF FireEndListening_2, EntryMode
<1>7. CASE RadioHandleUpperPacket
  BY <1>7 DEF RadioHandleUpperPacket
<1>8. CASE EndTransmission
  BY <1>8 DEF EndTransmission, QueueIsCurrentTransmission
<1>9. ASSUME NEW f \in Frames, ReceptionTimerFires(f) PROVE RadioFollowsMac' /\ PartInv'
  <2>1. CASE ContinueReception(f)
    <3>1. separateReceptionParts /\ PartInv'
      BY <2>1 DEF ContinueReception
    <3>2. \A g \in Frames : Scheduled(air[g]) => Scheduled(air'[g])
      BY <2>1 DEF ContinueReception
    <3>3. CASE UNCHANGED <<receptionTimer, radioMode>>
      BY <2>1, <3>1, <3>2, <3>3 DEF ContinueReception
    <3>4. CASE /\ receptionTimer = f /\ radioMode = "RECEIVER"
               /\ receptionTimer' = NoFrame /\ radioMode' = "SLEEP"
      <4>1. fsm \in {"RECEIVING_1", "RECEIVING_2"} /\ up = <<>>
        BY <3>4
      <4> QED
        BY <2>1, <3>1, <3>4, <4>1 DEF ContinueReception
    <3> QED
      BY <2>1, <3>3, <3>4 DEF ContinueReception
  <2>2. CASE EndReceptionIgnored(f)
    BY <2>2 DEF EndReceptionIgnored
  <2>3. CASE EndReceptionSuccess(f)
    <3>1. fsm \in {"RECEIVING_1", "RECEIVING_2"} /\ up = <<>>
      BY <2>3 DEF EndReceptionSuccess
    <3>2. up' # <<>> /\ Len(up') = 1
      <4>1. up' = Append(up, receiver[f])
        BY <2>3 DEF EndReceptionSuccess
      <4> QED
        BY <3>1, <4>1
    <3> QED
      BY <2>3, <3>1, <3>2 DEF EndReceptionSuccess
  <2>4. CASE EndReceptionDropped(f)
    <3>1. fsm \in {"RECEIVING_1", "RECEIVING_2"} /\ up = <<>>
      BY <2>4 DEF EndReceptionDropped
    <3>2. fsm' \in {"IDLE", "LISTENING_1", "LISTENING_2", "WAIT_DELAY_2"}
      BY <2>4, <3>1 DEF EndReceptionDropped, BackToListening, EnterListening_1,
                        EnterWaitDelay_2, EnterListening_2
    <3> QED
      BY <2>4, <3>1, <3>2 DEF EndReceptionDropped, EntryMode
  <2> QED
    BY <1>9, <2>1, <2>2, <2>3, <2>4 DEF ReceptionTimerFires
<1>10. ASSUME NEW f \in Frames, StartReception(f) PROVE RadioFollowsMac' /\ PartInv'
  <2>1. Scheduled(air'[f]) /\ \A g \in Frames : Scheduled(air[g]) => Scheduled(air'[g])
    BY <1>10 DEF StartReception
  <2>2. PartInv'
    BY <1>10 DEF StartReception
  <2>3. CASE radioMode = "RECEIVER" /\ receptionTimer' = f /\ fsm' = OnReceiving(fsm)
    BY <1>10, <2>1, <2>2, <2>3 DEF StartReception, OnReceiving
  <2>4. CASE UNCHANGED <<receptionTimer, fsm>>
    BY <1>10, <2>1, <2>2, <2>4 DEF StartReception
  <2> QED
    BY <1>10, <2>3, <2>4 DEF StartReception
<1>11. CASE Tick
  <2>1. \A g \in Frames : Scheduled(air[g]) => Scheduled(air'[g])
    BY <1>11 DEF Tick, Countdown
  <2> QED
    BY <1>11, <2>1 DEF Tick
<1>12. CASE UNCHANGED vars
  BY <1>12 DEF vars
<1> QED
  BY <1>1, <1>2, <1>3, <1>4, <1>5, <1>6, <1>7, <1>8, <1>9, <1>10, <1>11, <1>12
     DEF Next, Mac, Radio, Arrival

-----------------------------------------------------------------------------
\* Every step keeps the downlinks behind the uplinks.
LEMMA CountStep == IInv /\ [Next]_vars => CountInv'
<1> SUFFICES ASSUME IInv, [Next]_vars PROVE CountInv'
  OBVIOUS
<1> USE DEF IInv, TypeOK, CountInv, MacStates, macVars, timerVars, radioVars, frameVars, linkVars
<1>1. CASE HandleUpperPacket
  BY <1>1 DEF HandleUpperPacket
<1>2. CASE HandleLowerPacket
  BY <1>2 DEF HandleLowerPacket, AfterFrame
<1>3. CASE FireEndDelay_1
  BY <1>3 DEF FireEndDelay_1
<1>4. CASE FireEndListening_1
  BY <1>4 DEF FireEndListening_1
<1>5. CASE FireEndDelay_2
  BY <1>5 DEF FireEndDelay_2
<1>6. CASE FireEndListening_2
  BY <1>6 DEF FireEndListening_2
<1>7. CASE RadioHandleUpperPacket
  BY <1>7 DEF RadioHandleUpperPacket
<1>8. CASE EndTransmission
  BY <1>8 DEF EndTransmission
<1>9. ASSUME NEW f \in Frames, ReceptionTimerFires(f) PROVE CountInv'
  <2>1. CASE ContinueReception(f)
    BY <2>1 DEF ContinueReception
  <2>2. CASE EndReceptionIgnored(f)
    BY <2>2 DEF EndReceptionIgnored
  <2>3. CASE EndReceptionSuccess(f)
    BY <2>3 DEF EndReceptionSuccess
  <2>4. CASE EndReceptionDropped(f)
    <3>1. fsm \in {"RECEIVING_1", "RECEIVING_2"}
      BY <2>4 DEF EndReceptionDropped, RadioFollowsMac
    <3> QED
      BY <2>4, <3>1 DEF EndReceptionDropped
  <2> QED
    BY <1>9, <2>1, <2>2, <2>3, <2>4 DEF ReceptionTimerFires
<1>10. ASSUME NEW f \in Frames, StartReception(f) PROVE CountInv'
  BY <1>10 DEF StartReception, OnReceiving
<1>11. CASE Tick
  BY <1>11 DEF Tick
<1>12. CASE UNCHANGED vars
  BY <1>12 DEF vars
<1> QED
  BY <1>1, <1>2, <1>3, <1>4, <1>5, <1>6, <1>7, <1>8, <1>9, <1>10, <1>11, <1>12
     DEF Next, Mac, Radio, Arrival

-----------------------------------------------------------------------------
\* A step that neither sends, ends a transmission nor changes TRANSMIT keeps the queue.
LEMMA QueueFrame ==
    ASSUME QueueIsCurrentTransmission,
           UNCHANGED <<transmissionQueue, sequenceNumber, numSent, down>>,
           Scheduled(transmissionTimer) <=> Scheduled(transmissionTimer)',
           fsm = "TRANSMIT" <=> fsm' = "TRANSMIT"
    PROVE  QueueIsCurrentTransmission'
BY DEF QueueIsCurrentTransmission

\* Every step keeps exactly the frame being transmitted in the queue.
LEMMA QueueStep == IInv /\ [Next]_vars => QueueIsCurrentTransmission'
<1> SUFFICES ASSUME IInv, [Next]_vars PROVE QueueIsCurrentTransmission'
  OBVIOUS
<1> USE DEF IInv, TypeOK, MacStates, macVars, timerVars, radioVars, frameVars, linkVars
<1>1. CASE HandleUpperPacket
  <2>1. CASE fsm # "IDLE"
    BY <1>1, <2>1, QueueFrame DEF HandleUpperPacket
  <2>2. CASE fsm = "IDLE"
    <3>1. /\ transmissionQueue = <<>> /\ down = <<>> /\ ~Scheduled(transmissionTimer)
          /\ numSent = sequenceNumber
      BY <2>2 DEF QueueIsCurrentTransmission
    <3>2. /\ transmissionQueue' = Append(transmissionQueue, sequenceNumber)
          /\ sequenceNumber' = sequenceNumber + 1 /\ numSent' = numSent
          /\ fsm' = "TRANSMIT" /\ transmissionTimer' = transmissionTimer
          /\ down' = Append(down, Head(transmissionQueue'))
      BY <1>1, <2>2 DEF HandleUpperPacket
    <3>3. transmissionQueue' = <<sequenceNumber>> /\ Head(transmissionQueue') = sequenceNumber
      BY <3>1, <3>2
    <3>4. down' = <<sequenceNumber>>
      BY <3>1, <3>2, <3>3
    <3>5. sequenceNumber' - 1 = sequenceNumber
      BY <3>2
    <3>6. numSent' = sequenceNumber' - Len(transmissionQueue')
      BY <3>1, <3>2, <3>3
    <3>7. down' # <<>>
      BY <3>4
    <3> QED
      BY <3>1, <3>2, <3>3, <3>4, <3>5, <3>6, <3>7 DEF QueueIsCurrentTransmission
  <2> QED
    BY <2>1, <2>2
<1>2. CASE HandleLowerPacket
  <2>1. fsm # "TRANSMIT" /\ fsm' # "TRANSMIT"
    BY <1>2 DEF HandleLowerPacket, RadioFollowsMac, AfterFrame, BackToListening, EnterListening_1,
                EnterWaitDelay_2, EnterListening_2
  <2> QED
    BY <1>2, <2>1, QueueFrame DEF HandleLowerPacket
<1>3. CASE FireEndDelay_1
  <2>1. fsm = "TRANSMIT" <=> fsm' = "TRANSMIT"
    BY <1>3 DEF FireEndDelay_1, EnterListening_1, EnterWaitDelay_2, EnterListening_2
  <2> QED
    BY <1>3, <2>1, QueueFrame DEF FireEndDelay_1
<1>4. CASE FireEndListening_1
  <2>1. fsm = "TRANSMIT" <=> fsm' = "TRANSMIT"
    BY <1>4 DEF FireEndListening_1, EnterWaitDelay_2, EnterListening_2
  <2> QED
    BY <1>4, <2>1, QueueFrame DEF FireEndListening_1
<1>5. CASE FireEndDelay_2
  <2>1. fsm = "TRANSMIT" <=> fsm' = "TRANSMIT"
    BY <1>5 DEF FireEndDelay_2, EnterListening_2
  <2> QED
    BY <1>5, <2>1, QueueFrame DEF FireEndDelay_2
<1>6. CASE FireEndListening_2
  BY <1>6, QueueFrame DEF FireEndListening_2
<1>7. CASE RadioHandleUpperPacket
  <2>1. /\ down = <<sequenceNumber - 1>> /\ fsm = "TRANSMIT" /\ ~Scheduled(transmissionTimer)
        /\ transmissionQueue = <<sequenceNumber - 1>>
    BY <1>7 DEF RadioHandleUpperPacket, QueueIsCurrentTransmission
  <2>2. radioMode = "TRANSMITTER"
    BY <2>1 DEF RadioFollowsMac
  <2>3. down' = <<>>
    BY <1>7, <2>1 DEF RadioHandleUpperPacket
  <2>4. Scheduled(transmissionTimer')
    BY <1>7, <2>1, <2>2 DEF RadioHandleUpperPacket
  <2> QED
    BY <1>7, <2>1, <2>3, <2>4 DEF RadioHandleUpperPacket, QueueIsCurrentTransmission
<1>8. CASE EndTransmission
  <2>1. /\ fsm = "TRANSMIT" /\ down = <<>>
        /\ transmissionQueue = <<sequenceNumber - 1>>
        /\ numSent = sequenceNumber - Len(transmissionQueue)
    BY <1>8 DEF EndTransmission, QueueIsCurrentTransmission
  <2>2. transmissionQueue' = <<>> /\ Len(transmissionQueue) = 1 /\ Len(transmissionQueue') = 0
    <3>1. transmissionQueue' = Tail(transmissionQueue)
      BY <1>8 DEF EndTransmission, PopTransmissionQueue
    <3> QED
      BY <2>1, <3>1
  <2>3. numSent' = sequenceNumber' - Len(transmissionQueue')
    BY <1>8, <2>1, <2>2 DEF EndTransmission
  <2> QED
    BY <1>8, <2>1, <2>2, <2>3 DEF EndTransmission, QueueIsCurrentTransmission
<1>9. ASSUME NEW f \in Frames, ReceptionTimerFires(f) PROVE QueueIsCurrentTransmission'
  <2>1. CASE ContinueReception(f)
    BY <2>1, QueueFrame DEF ContinueReception
  <2>2. CASE EndReceptionIgnored(f)
    BY <2>2, QueueFrame DEF EndReceptionIgnored
  <2>3. CASE EndReceptionSuccess(f)
    BY <2>3, QueueFrame DEF EndReceptionSuccess
  <2>4. CASE EndReceptionDropped(f)
    <3>1. fsm # "TRANSMIT" /\ fsm' # "TRANSMIT"
      BY <2>4 DEF EndReceptionDropped, RadioFollowsMac, BackToListening, EnterListening_1,
                  EnterWaitDelay_2, EnterListening_2
    <3> QED
      BY <2>4, <3>1, QueueFrame DEF EndReceptionDropped
  <2> QED
    BY <1>9, <2>1, <2>2, <2>3, <2>4 DEF ReceptionTimerFires
<1>10. ASSUME NEW f \in Frames, StartReception(f) PROVE QueueIsCurrentTransmission'
  <2>1. fsm = "TRANSMIT" <=> fsm' = "TRANSMIT"
    BY <1>10 DEF StartReception, OnReceiving
  <2> QED
    BY <1>10, <2>1, QueueFrame DEF StartReception
<1>11. CASE Tick
  <2>1. Scheduled(transmissionTimer) <=> Scheduled(transmissionTimer)'
    BY <1>11 DEF Tick, Countdown
  <2> QED
    BY <1>11, <2>1, QueueFrame DEF Tick
<1>12. CASE UNCHANGED vars
  BY <1>12, QueueFrame DEF vars
<1> QED
  BY <1>1, <1>2, <1>3, <1>4, <1>5, <1>6, <1>7, <1>8, <1>9, <1>10, <1>11, <1>12
     DEF Next, Mac, Radio, Arrival

-----------------------------------------------------------------------------
\* The inductive invariant holds throughout every run of the link layer.
THEOREM InductiveInvariant == Spec => []IInv
<1>1. IInv /\ [Next]_vars => IInv'
  BY TypeStep, TimerStep, RadioStep, CountStep, QueueStep DEF IInv
<1> QED
  BY InitIInv, <1>1, PTL DEF Spec

\* The state of MAC and radio stays within its types, for all frames and durations.
THEOREM TypeCorrect == Spec => []TypeOK
BY InductiveInvariant, PTL DEF IInv

(***************************************************************************)
(* The radio is in the mode the state machine of LoRaMac needs after every *)
(* handler, however many frames overlap and whenever they arrive.          *)
(***************************************************************************)
THEOREM RadioCorrect == Spec => []RadioFollowsMac
BY InductiveInvariant, PTL DEF IInv

\* scheduleAt never meets a scheduled window timer, and no state waits for a timer that is gone.
THEOREM TimersCorrect == Spec => []TimersFollowMac
BY InductiveInvariant, PTL DEF IInv

\* The application never has got more downlinks than it has sent uplinks.
THEOREM DownlinksCorrect == Spec => []OneDownlinkPerUplink
<1>1. IInv => OneDownlinkPerUplink
  BY DEF IInv, CountInv, OneDownlinkPerUplink
<1> QED
  BY InductiveInvariant, <1>1, PTL

\* The frame popped at the end of a transmission is the one that was transmitted.
THEOREM QueueCorrect == Spec => []QueueIsCurrentTransmission
BY InductiveInvariant, PTL DEF IInv

-----------------------------------------------------------------------------
(***************************************************************************)
(* A frame that ends a cycle of LoRaMac began in an open window, or during *)
(* a reception that began so, directly or through others in between: the   *)
(* radio begins no other reception and the MAC takes no other frame.       *)
(***************************************************************************)
THEOREM WindowsCorrect == Spec => ReceptionsChainFromWindow
<1>1. IInv /\ [Next]_vars => [ChainStep]_vars
  <2> SUFFICES ASSUME IInv, Next PROVE ChainStep
    BY DEF vars
  <2> USE DEF IInv, TypeOK, ChainStep, ReceptionBegins, InReceiving, MacStates, macVars, timerVars, radioVars,
              frameVars, linkVars
  <2>1. CASE HandleUpperPacket
    BY <2>1 DEF HandleUpperPacket
  <2>2. CASE HandleLowerPacket
    BY <2>2 DEF HandleLowerPacket, AfterFrame, BackToListening, EnterListening_1,
                EnterWaitDelay_2, EnterListening_2, RadioFollowsMac
  <2>3. CASE FireEndDelay_1
    BY <2>3 DEF FireEndDelay_1, EnterListening_1, EnterWaitDelay_2, EnterListening_2
  <2>4. CASE FireEndListening_1
    BY <2>4 DEF FireEndListening_1, EnterWaitDelay_2, EnterListening_2
  <2>5. CASE FireEndDelay_2
    BY <2>5 DEF FireEndDelay_2, EnterListening_2
  <2>6. CASE FireEndListening_2
    BY <2>6 DEF FireEndListening_2
  <2>7. CASE RadioHandleUpperPacket
    BY <2>7 DEF RadioHandleUpperPacket
  <2>8. CASE EndTransmission
    BY <2>8 DEF EndTransmission
  <2>9. ASSUME NEW f \in Frames, ReceptionTimerFires(f) PROVE ChainStep
    BY <2>9 DEF ReceptionTimerFires, ContinueReception, EndReceptionIgnored, EndReceptionSuccess,
                EndReceptionDropped, BackToListening, EnterListening_1, EnterWaitDelay_2,
                EnterListening_2
  <2>10. ASSUME NEW f \in Frames, StartReception(f) PROVE ChainStep
    <3>1. CASE receptionTimer' = receptionTimer /\ fsm' = fsm
      BY <2>10, <3>1 DEF StartReception
    <3>2. CASE radioMode = "RECEIVER" /\ fsm' = OnReceiving(fsm)
      <4>1. fsm \in {"LISTENING_1", "LISTENING_2", "RECEIVING_1", "RECEIVING_2"}
        BY <3>2 DEF RadioFollowsMac
      <4>2. numReceived' = numReceived /\ receptionTimer' \in {f, receptionTimer}
        BY <2>10 DEF StartReception
      <4> QED
        BY <2>10, <3>2, <4>1, <4>2 DEF StartReception, OnReceiving, TimersFollowMac, RadioFollowsMac
    <3> QED
      BY <2>10, <3>1, <3>2 DEF StartReception
  <2>11. CASE Tick
    BY <2>11 DEF Tick
  <2> QED
    BY <2>1, <2>2, <2>3, <2>4, <2>5, <2>6, <2>7, <2>8, <2>9, <2>10, <2>11
       DEF Next, Mac, Radio, Arrival
<1> QED
  BY InductiveInvariant, <1>1, PTL DEF Spec, ReceptionsChainFromWindow

-----------------------------------------------------------------------------
(***************************************************************************)
(* When frames do not overlap at the node, the next packet of the          *)
(* application is always further away than the rest of the cycle: the      *)
(* transmission, both windows, and a reception that outlasts the second.   *)
(***************************************************************************)
RestOfTransmission == IF down # <<>> THEN UplinkAirTime ELSE transmissionTimer

GapInv(maxAir) ==
    /\ \A f \in Frames : air[f] <= maxAir
    /\ Scheduled(nextPacket) /\ fsm # "IDLE" =>
           /\ nextPacket > 0
           /\ fsm = "TRANSMIT" => nextPacket > RestOfTransmission + RxWindows + maxAir
           /\ Scheduled(endListening_2) => nextPacket > endListening_2 + maxAir
           /\ receptionTimer # NoFrame => nextPacket > air[receptionTimer]
    /\ ~aborted

(***************************************************************************)
(* One frame at a time, shorter than what SimpleLoRaApp's minimum interval *)
(* leaves after transmission and windows, and no split receptions: then    *)
(* "Wrong, it should not happen" (LoRaMac.cc:168) does not happen.         *)
(***************************************************************************)
THEOREM NeverAbortsWithoutOverlap ==
    ASSUME NEW f, Frames = {f}, separateReceptionParts = FALSE,
           NEW maxAir \in Nat, \A a \in AirTimes : a <= maxAir,
           MinGap > UplinkAirTime + RxWindows + maxAir
    PROVE  Spec => []NeverAborts
<1> USE DEF RxWindows
<1>1. Init => GapInv(maxAir)
  BY DEF Init, GapInv
<1>2. IInv /\ GapInv(maxAir) /\ [Next]_vars => GapInv(maxAir)'
  <2> SUFFICES ASSUME IInv, GapInv(maxAir), [Next]_vars PROVE GapInv(maxAir)'
    OBVIOUS
  <2> USE DEF IInv, TypeOK, GapInv, RestOfTransmission, MacStates, macVars, timerVars, radioVars,
              frameVars, linkVars
  <2>1. CASE HandleUpperPacket
    <3>1. fsm = "IDLE"
      BY <2>1 DEF HandleUpperPacket
    <3>2. down' # <<>> /\ receptionTimer' = NoFrame /\ endListening_2' = Off
      BY <2>1, <3>1 DEF HandleUpperPacket, QueueIsCurrentTransmission, RadioFollowsMac, TimersFollowMac
    <3>3. /\ nextPacket' \in {Off} \union (MinGap..MaxGap) /\ fsm' = "TRANSMIT"
          /\ air' = air /\ aborted' = aborted
      BY <2>1, <3>1 DEF HandleUpperPacket
    <3> QED
      BY <3>2, <3>3
  <2>2. CASE HandleLowerPacket
    BY <2>2 DEF HandleLowerPacket, AfterFrame, BackToListening, EnterListening_1,
                EnterWaitDelay_2, EnterListening_2, CancelTimers
  <2>3. CASE FireEndDelay_1
    BY <2>3 DEF FireEndDelay_1, EnterListening_1, EnterWaitDelay_2, EnterListening_2
  <2>4. CASE FireEndListening_1
    BY <2>4 DEF FireEndListening_1, EnterWaitDelay_2, EnterListening_2
  <2>5. CASE FireEndDelay_2
    BY <2>5 DEF FireEndDelay_2, EnterListening_2
  <2>6. CASE FireEndListening_2
    BY <2>6 DEF FireEndListening_2
  <2>7. CASE RadioHandleUpperPacket
    <3>1. down = <<sequenceNumber - 1>> /\ fsm = "TRANSMIT" /\ ~Scheduled(transmissionTimer)
      BY <2>7 DEF RadioHandleUpperPacket, QueueIsCurrentTransmission
    <3>2. radioMode = "TRANSMITTER"
      BY <3>1 DEF RadioFollowsMac
    <3>3. down' = <<>> /\ transmissionTimer' = UplinkAirTime /\ ~aborted'
      BY <2>7, <3>1, <3>2 DEF RadioHandleUpperPacket
    <3> QED
      BY <2>7, <3>1, <3>3 DEF RadioHandleUpperPacket
  <2>8. CASE EndTransmission
    <3>1. fsm = "TRANSMIT" /\ down = <<>> /\ receptionTimer = NoFrame
      BY <2>8 DEF EndTransmission, QueueIsCurrentTransmission, RadioFollowsMac
    <3> QED
      BY <2>8, <3>1 DEF EndTransmission
  <2>9. ASSUME NEW g \in Frames, ReceptionTimerFires(g) PROVE GapInv(maxAir)'
    <3>1. CASE ContinueReception(g)
      BY <3>1 DEF ContinueReception, PartInv
    <3>2. CASE EndReceptionIgnored(g)
      BY <3>2 DEF EndReceptionIgnored
    <3>3. CASE EndReceptionSuccess(g)
      BY <3>3 DEF EndReceptionSuccess
    <3>4. CASE EndReceptionDropped(g)
      BY <3>4 DEF EndReceptionDropped, BackToListening, EnterListening_1, EnterWaitDelay_2,
                  EnterListening_2, RadioFollowsMac
    <3> QED
      BY <2>9, <3>1, <3>2, <3>3, <3>4 DEF ReceptionTimerFires
  <2>10. ASSUME NEW g \in Frames, StartReception(g) PROVE GapInv(maxAir)'
    <3>1. g = f
      OBVIOUS
    <3>2. air'[f] \in AirTimes /\ air'[f] <= maxAir
      BY <2>10, <3>1 DEF StartReception
    <3>3. receptionTimer = NoFrame
      BY <2>10, <3>1 DEF StartReception, RadioFollowsMac
    <3>4. /\ UNCHANGED <<nextPacket, aborted, endListening_2, down, transmissionTimer>>
          /\ receptionTimer' \in {NoFrame, f}
          /\ receptionTimer' = f => radioMode = "RECEIVER" /\ fsm' = OnReceiving(fsm)
          /\ receptionTimer' # f => fsm' = fsm
      BY <2>10, <3>1, <3>3 DEF StartReception
    <3>5. receptionTimer' = f => Scheduled(endListening_2) /\ fsm \in {"LISTENING_1", "LISTENING_2"}
      BY <3>3, <3>4 DEF RadioFollowsMac, TimersFollowMac, TimerOrder
    <3>6. \A h \in Frames : air'[h] <= maxAir
      BY <3>2
    <3>7. CASE receptionTimer' = f
      <4>1. /\ fsm \in {"LISTENING_1", "LISTENING_2"} /\ fsm' \in {"RECEIVING_1", "RECEIVING_2"}
            /\ endListening_2 \in Nat
        BY <3>4, <3>5, <3>7 DEF OnReceiving
      <4>2. Scheduled(nextPacket) => nextPacket > endListening_2 + maxAir
        BY <3>5, <3>7, <4>1
      <4>3. Scheduled(nextPacket) => nextPacket > air'[f]
        <5>1. air'[f] \in Nat /\ air'[f] <= maxAir /\ endListening_2 \in Nat /\ maxAir \in Nat
          BY <3>2, <4>1
        <5>2. nextPacket \in Int
          OBVIOUS
        <5> HIDE DEF IInv, TypeOK, GapInv, Scheduled
        <5> QED
          BY <4>2, <5>1, <5>2
      <4> QED
        BY <3>4, <3>6, <3>7, <4>1, <4>2, <4>3
    <3>8. CASE receptionTimer' # f
      BY <3>4, <3>6, <3>8
    <3> QED
      BY <3>7, <3>8
  <2>11. CASE Tick
    <3>1. \A g \in Frames : air'[g] = Countdown(air[g]) /\ air[g] # 0
      BY <2>11 DEF Tick
    <3>2. receptionTimer # NoFrame => receptionTimer \in Frames /\ Scheduled(air[receptionTimer])
      BY DEF RadioFollowsMac
    <3>3. fsm = "TRANSMIT" => down = <<>> /\ Scheduled(transmissionTimer)
      BY <2>11 DEF Tick, QueueIsCurrentTransmission
    <3>4. fsm \notin {"IDLE", "TRANSMIT"} => Scheduled(endListening_2) \/ receptionTimer # NoFrame
      BY <2>11 DEF Tick, TimersFollowMac, TimerOrder, RadioFollowsMac
    <3> QED
      BY <2>11, <3>1, <3>2, <3>3, <3>4 DEF Tick, Countdown
  <2>12. CASE UNCHANGED vars
    BY <2>12 DEF vars
  <2> QED
    BY <2>1, <2>2, <2>3, <2>4, <2>5, <2>6, <2>7, <2>8, <2>9, <2>10, <2>11, <2>12
       DEF Next, Mac, Radio, Arrival
<1>3. GapInv(maxAir) => NeverAborts
  BY DEF GapInv, NeverAborts
<1> QED
  BY InductiveInvariant, <1>1, <1>2, <1>3, PTL DEF Spec

-----------------------------------------------------------------------------
(***************************************************************************)
(* The calls from within a handler.  Each level of LoRaCascade adds what   *)
(* the one below it does not settle yet: the deepest the two states that   *)
(* are never left at once, then LISTENING_2, WAIT_DELAY_2, LISTENING_1.    *)
(***************************************************************************)
Settling3 == {"IDLE", "WAIT_DELAY_1"}
Settling2 == Settling3 \union {"LISTENING_2"}
Settling1 == Settling2 \union {"WAIT_DELAY_2"}
Settling0 == Settling1 \union {"LISTENING_1"}

LEMMA Level4Settles == Level3!NestedIdles /\ Level3!NestedSettles(Settling3)
BY Level4!SettlesFrom
   DEF Settling3, Level3!NestedIdles, Level3!NestedSettles, Level3!Entering, Level4!Entering,
   Level3!Settles, Level4!Settles, Level3!Quiet, Level4!Quiet, Level3!IsState, Level4!IsState,
   Level3!Fields, Level4!Fields, Level3!Same, Level4!Same, Level3!ModeIn, Level4!ModeIn,
   Level3!Settled, Level4!Settled, Level3!SettledFirst, Level4!SettledFirst,
   Level3!SettledBetween, Level4!SettledBetween, Level3!SettledLast, Level4!SettledLast,
   Level3!TransmissionStateOf, Level4!TransmissionStateOf

LEMMA Level3Settles == Level2!NestedIdles /\ Level2!NestedSettles(Settling2)
<1>1. Level3!NestedIdles /\ Level3!NestedSettles({"IDLE"})
  BY Level4Settles DEF Level3!NestedSettles, Settling3
<1> QED
  BY <1>1, Level3!SettlesFrom
     DEF Settling2, Settling3, Level2!NestedIdles, Level2!NestedSettles, Level2!Entering, Level3!Entering,
     Level2!Settles, Level3!Settles, Level2!Quiet, Level3!Quiet, Level2!IsState, Level3!IsState,
     Level2!Fields, Level3!Fields, Level2!Same, Level3!Same, Level2!ModeIn, Level3!ModeIn,
     Level2!Settled, Level3!Settled, Level2!SettledFirst, Level3!SettledFirst,
     Level2!SettledBetween, Level3!SettledBetween, Level2!SettledLast, Level3!SettledLast,
     Level2!TransmissionStateOf, Level3!TransmissionStateOf

LEMMA Level2Settles == Level1!NestedIdles /\ Level1!NestedSettles(Settling1)
<1>1. Level2!NestedIdles /\ Level2!NestedSettles({"IDLE"}) /\ Level2!NestedSettles({"LISTENING_2"})
  BY Level3Settles DEF Level2!NestedSettles, Settling2, Settling3
<1> QED
  BY <1>1, Level2!SettlesFrom
     DEF Settling1, Settling2, Settling3, Level1!NestedIdles, Level1!NestedSettles, Level1!Entering,
     Level2!Entering, Level1!Settles, Level2!Settles, Level1!Quiet, Level2!Quiet, Level1!IsState,
     Level2!IsState, Level1!Fields, Level2!Fields, Level1!Same, Level2!Same, Level1!ModeIn, Level2!ModeIn,
     Level1!Settled, Level2!Settled, Level1!SettledFirst, Level2!SettledFirst,
     Level1!SettledBetween, Level2!SettledBetween, Level1!SettledLast, Level2!SettledLast,
     Level1!TransmissionStateOf, Level2!TransmissionStateOf

LEMMA Level1Settles == Level0!NestedIdles /\ Level0!NestedSettles(Settling0)
<1>1. /\ Level1!NestedIdles /\ Level1!NestedSettles({"IDLE"}) /\ Level1!NestedSettles({"LISTENING_2"})
      /\ Level1!NestedSettles({"WAIT_DELAY_2"})
  BY Level2Settles DEF Level1!NestedSettles, Settling1, Settling2, Settling3
<1> QED
  BY <1>1, Level1!SettlesFrom
     DEF Settling0, Settling1, Settling2, Settling3, Level0!NestedIdles, Level0!NestedSettles,
     Level0!Entering, Level1!Entering, Level0!Settles, Level1!Settles, Level0!Quiet, Level1!Quiet,
     Level0!IsState, Level1!IsState, Level0!Fields, Level1!Fields, Level0!Same, Level1!Same,
     Level0!ModeIn, Level1!ModeIn, Level0!Settled, Level1!Settled, Level0!SettledFirst,
     Level1!SettledFirst, Level0!SettledBetween, Level1!SettledBetween, Level0!SettledLast,
     Level1!SettledLast, Level0!TransmissionStateOf, Level1!TransmissionStateOf

\* The ends of a reception and of a transmission nest two calls, and one.
LEMMA Level1Sleeps == Level0!NestedSleeps /\ Level0!NestedAborts
<1>1. Level1!NestedSleeps
  BY Level3Settles, Level2!SleepsWhenEnded
     DEF Level1!NestedSleeps, Level1!Ended, Level2!Ended, Level1!Receiving, Level2!Receiving,
         Level1!Asleep, Level2!Asleep, Level1!Quiet, Level2!Quiet, Level1!IsState, Level2!IsState,
         Level1!Fields, Level2!Fields, Level1!Same, Level2!Same, Level1!TransmissionStateOf,
         Level2!TransmissionStateOf
<1>2. Level0!NestedSleeps
  BY Level2Settles, Level1!SleepsWhenEnded
     DEF Level0!NestedSleeps, Level0!Ended, Level1!Ended, Level0!Receiving, Level1!Receiving,
         Level0!Asleep, Level1!Asleep, Level0!Quiet, Level1!Quiet, Level0!IsState, Level1!IsState,
         Level0!Fields, Level1!Fields, Level0!Same, Level1!Same, Level0!TransmissionStateOf,
         Level1!TransmissionStateOf
<1>3. Level0!NestedAborts
  BY <1>1, Level1!AbortsReception
     DEF Level0!NestedAborts, Level0!InProgress, Level1!InProgress, Level0!Receiving, Level1!Receiving,
         Level0!Asleep, Level1!Asleep, Level0!Quiet, Level1!Quiet, Level0!IsState, Level1!IsState,
         Level0!Fields, Level1!Fields, Level0!Same, Level1!Same, Level0!TransmissionStateOf,
         Level1!TransmissionStateOf
<1> QED
  BY <1>2, <1>3

LEMMA Level1Switches == Level0!NestedSwitchesOn /\ Level0!NestedSwitchesOff
BY Level1!SwitchesOn, Level1!SwitchesOff
   DEF Level0!NestedSwitchesOn, Level0!NestedSwitchesOff, Level0!Asleep, Level1!Asleep,
       Level0!Quiet, Level1!Quiet, Level0!IsState, Level1!IsState, Level0!Fields, Level1!Fields,
       Level0!Same, Level1!Same, Level0!TransmissionStateOf, Level1!TransmissionStateOf

-----------------------------------------------------------------------------
(***************************************************************************)
(* What the radio's states are between two handlers.  IDLE or BUSY is what *)
(* the channel was when the radio last looked.                             *)
(***************************************************************************)
StatesInv ==
    /\ receptionState \in IF radioMode # "RECEIVER" THEN {"UNDEFINED"}
                          ELSE IF receptionTimer # NoFrame THEN {"RECEIVING"} ELSE {"IDLE", "BUSY"}
    /\ transmissionState = IF radioMode # "TRANSMITTER" THEN "UNDEFINED"
                           ELSE IF Scheduled(transmissionTimer) THEN "TRANSMITTING" ELSE "IDLE"
    /\ CopiesAgree

RIInv == IInv /\ StatesInv

\* The fields of Current.
IsCurrent(s, channel, scheduled) ==
    /\ Level0!IsState(s) /\ s.fsm = fsm /\ s.d1 = endDelay_1 /\ s.l1 = endListening_1
    /\ s.d2 = endDelay_2 /\ s.l2 = endListening_2 /\ s.queue = transmissionQueue
    /\ s.sent = numSent /\ s.received = numReceived /\ s.down = down /\ s.mode = radioMode
    /\ s.rxTimer = receptionTimer /\ s.txTimer = transmissionTimer /\ s.rx = receptionState
    /\ s.tx = transmissionState /\ s.macRx = macReceptionState /\ s.macTx = macTransmissionState
    /\ s.channel = channel /\ s.scheduled = scheduled /\ s.error = aborted

LEMMA CurrentFields ==
    ASSUME NEW channel, NEW scheduled PROVE IsCurrent(Current(channel, scheduled), channel, scheduled)
BY DEF Current, IsCurrent, Level0!IsState, Level0!Fields

LEMMA CurrentQuiet ==
    ASSUME IInv, StatesInv, receptionTimer = NoFrame, ~Scheduled(transmissionTimer),
           NEW channel \in Channel, NEW scheduled, NoFrame \notin scheduled,
           NEW s, s = Current(channel, scheduled)
    PROVE  Level0!Quiet(s)
BY CurrentFields DEF IsCurrent, IInv, TypeOK, RadioModes, StatesInv, CopiesAgree, Channel, Level0!Quiet,
                     Level0!TransmissionStateOf

LEMMA BecomesQuiet ==
    ASSUME NEW u, Level0!Quiet(u), Become(u), u.mode = "TRANSMITTER" => u.macTx # "TRANSMITTING"
    PROVE  StatesInv'
BY DEF Become, StatesInv, CopiesAgree, Level0!Quiet, Level0!TransmissionStateOf

LEMMA OnAirFrames == NoFrame \notin OnAir
BY DEF OnAir

-----------------------------------------------------------------------------
\* The MAC's handlers.
LEMMA UpperPacket ==
    ASSUME RIInv, RHandleUpperPacket
    PROVE  HandleUpperPacket /\ StatesInv'
<1> USE DEF RIInv
<1>1. PICK channel \in Channel :
        LET s == Current(channel, OnAir) IN
        \/ /\ fsm # "IDLE"
           /\ Become([s EXCEPT !.error = TRUE])
           /\ UNCHANGED <<sequenceNumber, nextPacket>>
        \/ /\ fsm = "IDLE"
           /\ Become(Level0!HandleWithFsm([s EXCEPT !.queue = Append(@, sequenceNumber)], "upper"))
           /\ sequenceNumber' = sequenceNumber + 1
           /\ nextPacket' \in IF sequenceNumber' < numberOfPacketsToSend
                              THEN MinGap..MaxGap ELSE {Off}
  BY DEF RHandleUpperPacket
<1> DEFINE s == Current(channel, OnAir)
<1>2. ~aborted /\ nextPacket = 0 /\ UNCHANGED <<frameVars, up>>
  BY DEF RHandleUpperPacket
<1>3. CASE fsm # "IDLE" /\ Become([s EXCEPT !.error = TRUE]) /\ UNCHANGED <<sequenceNumber, nextPacket>>
  <2>1. aborted' = TRUE /\ UNCHANGED <<macVars, timerVars, radioVars, down, stateVars>>
    BY <1>3 DEF Become, Current, macVars, timerVars, radioVars, stateVars
  <2> QED
    BY <1>2, <1>3, <2>1 DEF HandleUpperPacket, StatesInv, CopiesAgree, radioVars, stateVars
<1>4. CASE /\ fsm = "IDLE"
           /\ Become(Level0!HandleWithFsm([s EXCEPT !.queue = Append(@, sequenceNumber)], "upper"))
           /\ sequenceNumber' = sequenceNumber + 1
           /\ nextPacket' \in IF sequenceNumber' < numberOfPacketsToSend
                              THEN MinGap..MaxGap ELSE {Off}
  <2> DEFINE q == [s EXCEPT !.queue = Append(@, sequenceNumber)]
             u == Level0!HandleWithFsm(q, "upper")
  <2>1. receptionTimer = NoFrame /\ ~Scheduled(transmissionTimer) /\ radioMode = "SLEEP"
    BY <1>4 DEF IInv, RadioFollowsMac, QueueIsCurrentTransmission
  <2>2. Level0!Quiet(s)
    BY <2>1, CurrentQuiet, OnAirFrames
  <2>3. IsCurrent(s, channel, OnAir)
    BY CurrentFields
  <2> HIDE DEF s
  <2>4. /\ Level0!Quiet(q) /\ q.fsm = "IDLE" /\ q.mode = "SLEEP"
        /\ q.queue = Append(transmissionQueue, sequenceNumber) /\ q.down = down
        /\ q.d1 = s.d1 /\ q.l1 = s.l1 /\ q.d2 = s.d2 /\ q.l2 = s.l2
        /\ q.sent = s.sent /\ q.received = s.received /\ q.error = s.error
    BY <1>4, <2>1, <2>2, <2>3
       DEF IsCurrent, Level0!Quiet, Level0!IsState, Level0!Fields, Level0!TransmissionStateOf
  <2> HIDE DEF q
  <2>5. /\ Level0!Quiet(u) /\ u.fsm = "TRANSMIT" /\ u.mode = "TRANSMITTER" /\ u.macTx = "IDLE"
        /\ u.down = Append(q.down, Head(q.queue)) /\ u.queue = q.queue
        /\ u.d1 = q.d1 /\ u.l1 = q.l1 /\ u.d2 = q.d2 /\ u.l2 = q.l2
        /\ u.sent = q.sent /\ u.received = q.received /\ u.error = q.error
    BY <2>4, Level1Switches, Level0!Transmits
  <2>6. Become(u)
    BY <1>4 DEF q
  <2> HIDE DEF u
  <2>7. StatesInv'
    BY <2>5, <2>6, BecomesQuiet
  <2>8. /\ fsm' = "TRANSMIT" /\ radioMode' = "TRANSMITTER"
        /\ transmissionQueue' = Append(transmissionQueue, sequenceNumber)
        /\ down' = Append(down, Head(transmissionQueue'))
        /\ UNCHANGED <<timerVars, numSent, numReceived, receptionTimer, transmissionTimer, aborted>>
    BY <2>1, <2>3, <2>4, <2>5, <2>6 DEF IsCurrent, Become, Level0!Quiet, timerVars
  <2> QED
    BY <1>2, <1>4, <2>7, <2>8 DEF HandleUpperPacket
<1> QED
  BY <1>1, <1>3, <1>4

LEMMA LowerPacket ==
    ASSUME RIInv, RHandleLowerPacket
    PROVE  HandleLowerPacket /\ StatesInv'
<1> USE DEF RIInv
<1>1. PICK channel \in Channel :
        LET s == Current(channel, OnAir)
            msg == IF Head(up) = "us" THEN "lowerForUs" ELSE "lowerNotForUs"
        IN  Become(IF fsm \in {"RECEIVING_1", "RECEIVING_2"} THEN Level0!HandleWithFsm(s, msg) ELSE s)
  BY DEF RHandleLowerPacket
<1>2. ~aborted /\ up # <<>> /\ up' = Tail(up) /\ UNCHANGED <<sequenceNumber, nextPacket, frameVars>>
  BY DEF RHandleLowerPacket
<1> DEFINE s == Current(channel, OnAir)
<1>3. IsCurrent(s, channel, OnAir)
  BY CurrentFields
<1>4. CASE fsm \notin {"RECEIVING_1", "RECEIVING_2"}
  <2>1. Become(s)
    BY <1>1, <1>4
  <2>2. UNCHANGED <<macVars, timerVars, radioVars, down, aborted, stateVars>>
    BY <1>2, <2>1 DEF Become, Current, macVars, timerVars, radioVars, stateVars
  <2> QED
    BY <1>2, <1>4, <2>2
       DEF HandleLowerPacket, StatesInv, CopiesAgree, macVars, timerVars, radioVars, stateVars
<1>5. CASE fsm \in {"RECEIVING_1", "RECEIVING_2"}
  <2>1. receptionTimer = NoFrame /\ ~Scheduled(transmissionTimer) /\ radioMode = "SLEEP"
    BY <1>2, <1>5 DEF IInv, RadioFollowsMac, QueueIsCurrentTransmission
  <2>2. Level0!Quiet(s)
    BY <2>1, CurrentQuiet, OnAirFrames
  <2> HIDE DEF s
  <2>3. CASE Head(up) = "us"
    <3> DEFINE u == Level0!HandleWithFsm(s, "lowerForUs")
    <3>1. /\ Level0!Quiet(u) /\ u.fsm = "IDLE" /\ u.mode = "SLEEP"
          /\ u.received = s.received + 1 /\ u.l2 = Off /\ u.d1 = s.d1
          /\ s.fsm = "RECEIVING_1" => u.l1 = Off /\ u.d2 = Off
          /\ s.fsm = "RECEIVING_2" => u.l1 = s.l1 /\ u.d2 = s.d2
          /\ u.queue = s.queue /\ u.sent = s.sent /\ u.down = s.down /\ u.error = s.error
      BY <1>3, <1>5, <2>1, <2>2, Level1Settles, Level0!Received DEF IsCurrent
    <3>2. Become(u)
      BY <1>1, <1>5, <2>3 DEF s
    <3> HIDE DEF u
    <3>3. StatesInv'
      BY <3>1, <3>2, BecomesQuiet
    <3>4. /\ fsm' = "IDLE" /\ radioMode' = "SLEEP" /\ numReceived' = numReceived + 1 /\ CancelTimers
          /\ UNCHANGED <<transmissionQueue, numSent, endDelay_1, receptionTimer, transmissionTimer,
                         down, aborted>>
      BY <1>3, <1>5, <2>1, <3>1, <3>2 DEF IsCurrent, Become, Level0!Quiet, CancelTimers
    <3> QED
      BY <1>2, <1>5, <2>3, <3>3, <3>4 DEF HandleLowerPacket, AfterFrame, EntryMode
  <2>4. CASE Head(up) # "us"
    <3> DEFINE u == Level0!HandleWithFsm(s, "lowerNotForUs")
    <3>1. /\ Level0!Quiet(u) /\ Level0!Same(s, u) /\ u.mode = Level0!ModeIn(u.fsm)
          /\ u.fsm = IF s.fsm = "RECEIVING_1" THEN Level0!SettledFirst(s) ELSE Level0!SettledLast(s)
      <4>1. Level0!NestedSettles({"LISTENING_1"}) /\ Level0!NestedSettles({"LISTENING_2"})
        BY Level1Settles DEF Level0!NestedSettles, Settling0, Settling1, Settling2
      <4> QED
        BY <1>3, <1>5, <2>1, <2>2, <4>1, Level1Settles, Level0!BackToListening DEF IsCurrent
    <3>2. Become(u)
      BY <1>1, <1>5, <2>4 DEF s
    <3> HIDE DEF u
    <3>3. u.mode # "TRANSMITTER"
      BY <3>1 DEF Level0!ModeIn
    <3>4. StatesInv'
      BY <3>1, <3>2, <3>3, BecomesQuiet
    <3>5. /\ fsm' = BackToListening /\ radioMode' = EntryMode(fsm')
          /\ UNCHANGED <<transmissionQueue, numSent, numReceived, timerVars, receptionTimer,
                         transmissionTimer, down, aborted>>
      BY <1>3, <1>5, <2>1, <3>1, <3>2
         DEF IsCurrent, Become, Level0!Quiet, Level0!Same, Level0!ModeIn, Level0!SettledFirst, Level0!SettledBetween,
             Level0!SettledLast, BackToListening, EnterListening_1, EnterWaitDelay_2, EnterListening_2,
             EntryMode, timerVars
    <3> QED
      BY <1>2, <1>5, <2>4, <3>4, <3>5 DEF HandleLowerPacket, AfterFrame, timerVars
  <2> QED
    BY <2>3, <2>4
<1> QED
  BY <1>4, <1>5

LEMMA SelfMessage ==
    ASSUME RIInv, RHandleSelfMessage
    PROVE  /\ FireEndDelay_1 \/ FireEndListening_1 \/ FireEndDelay_2 \/ FireEndListening_2
           /\ StatesInv'
<1> USE DEF RIInv
<1>1. PICK channel \in Channel :
        LET s == Current(channel, OnAir) IN
        \/ endDelay_1 = 0     /\ Become(Level0!HandleWithFsm([s EXCEPT !.d1 = Off], "endDelay_1"))
        \/ endListening_1 = 0 /\ Become(Level0!HandleWithFsm([s EXCEPT !.l1 = Off], "endListening_1"))
        \/ endDelay_2 = 0     /\ Become(Level0!HandleWithFsm([s EXCEPT !.d2 = Off], "endDelay_2"))
        \/ endListening_2 = 0 /\ Become(Level0!HandleWithFsm([s EXCEPT !.l2 = Off], "endListening_2"))
  BY DEF RHandleSelfMessage
<1>2. ~aborted /\ UNCHANGED <<sequenceNumber, nextPacket, frameVars, up>>
  BY DEF RHandleSelfMessage
<1> DEFINE s == Current(channel, OnAir)
<1>3. IsCurrent(s, channel, OnAir)
  BY CurrentFields
<1>4. \A state \in Settling0 : Level0!NestedSettles({state})
  BY Level1Settles DEF Level0!NestedSettles
<1>5. \A u : /\ u.fsm = fsm /\ u.mode = radioMode /\ u.queue = transmissionQueue /\ u.sent = numSent
             /\ u.received = numReceived /\ u.down = down /\ u.error = aborted
             /\ u.rxTimer = receptionTimer /\ u.txTimer = transmissionTimer
             /\ u.rx = receptionState /\ u.tx = transmissionState /\ u.macRx = macReceptionState
             /\ u.macTx = macTransmissionState /\ Become(u)
             => /\ UNCHANGED <<fsm, radioMode, transmissionQueue, numSent, numReceived, down, aborted,
                               receptionTimer, transmissionTimer>>
                /\ StatesInv'
  BY DEF Become, StatesInv, CopiesAgree
<1>6. fsm \in {"WAIT_DELAY_1", "LISTENING_1", "WAIT_DELAY_2", "LISTENING_2"} => Level0!Quiet(s)
  BY CurrentQuiet, OnAirFrames DEF IInv, RadioFollowsMac, QueueIsCurrentTransmission
<1>7. /\ fsm \in MacStates /\ endDelay_1 \in {Off} \union Nat /\ endListening_1 \in {Off} \union Nat
       /\ endDelay_2 \in {Off} \union Nat /\ endListening_2 \in {Off} \union Nat
  BY DEF IInv, TypeOK
<1> HIDE DEF s
<1>8. ASSUME endDelay_1 = 0, Become(Level0!HandleWithFsm([s EXCEPT !.d1 = Off], "endDelay_1"))
      PROVE  FireEndDelay_1 /\ StatesInv'
  <2> DEFINE q == [s EXCEPT !.d1 = Off]
             u == Level0!HandleWithFsm(q, "endDelay_1")
  <2>1. fsm \in {"WAIT_DELAY_1"}
    BY <1>8 DEF IInv, TypeOK, MacStates, TimersSpent, TimersFollowMac, TimerOrder
  <2>2. /\ q.fsm = s.fsm /\ q.mode = s.mode /\ q.d1 = Off /\ q.l1 = s.l1 /\ q.d2 = s.d2 /\ q.l2 = s.l2
        /\ q.queue = s.queue /\ q.sent = s.sent /\ q.received = s.received
        /\ q.down = s.down /\ q.error = s.error /\ q.rxTimer = s.rxTimer /\ q.txTimer = s.txTimer
        /\ q.rx = s.rx /\ q.tx = s.tx /\ q.macRx = s.macRx /\ q.macTx = s.macTx
    BY <1>3 DEF IsCurrent, Level0!IsState, Level0!Fields
  <2>3. Become(u)
    BY <1>8
  <2>4. CASE fsm = "WAIT_DELAY_1"
    <3>1. Level0!Quiet(q)
      BY <1>6, <2>4 DEF Level0!Quiet, Level0!IsState, Level0!Fields, Level0!TransmissionStateOf
    <3> HIDE DEF q
    <3>2. Level0!Target(q, "endDelay_1") = "LISTENING_1" /\ Level0!TransitionAction(q, "endDelay_1") = q
      BY <1>3, <2>2, <2>4 DEF IsCurrent, Level0!Target, Level0!TransitionAction
    <3>3. /\ q.mode # Level0!ModeIn("LISTENING_1") /\ q.mode \in {"SLEEP", "RECEIVER"}
          /\ Level0!NestedSettles({"LISTENING_1"}) /\ receptionTimer = NoFrame /\ ~Scheduled(transmissionTimer)
      BY <1>3, <1>4, <2>2, <2>4
         DEF IsCurrent, Level0!ModeIn, Settling0, IInv, RadioFollowsMac, QueueIsCurrentTransmission
    <3>4. /\ Level0!Quiet(u) /\ Level0!Same(q, u) /\ u.mode = Level0!ModeIn(u.fsm)
          /\ u.fsm = Level0!SettledFirst(q)
      BY <1>3, <2>2, <2>4, <3>1, <3>2, <3>3, Level1Settles, Level0!Moves DEF IsCurrent
    <3> HIDE DEF u
    <3>5. StatesInv'
      BY <2>3, <3>4, BecomesQuiet DEF Level0!ModeIn
    <3>6. /\ fsm' = EnterListening_1(Scheduled(endListening_1), Scheduled(endDelay_2),
                                  Scheduled(endListening_2))
          /\ radioMode' = EntryMode(fsm') /\ endDelay_1' = Off
          /\ UNCHANGED <<transmissionQueue, numSent, numReceived, endListening_1, endDelay_2, endListening_2,
                         receptionTimer, transmissionTimer, down, aborted>>
      BY <1>3, <2>2, <2>3, <3>3, <3>4
         DEF IsCurrent, Become, Level0!Quiet, Level0!Same, Level0!ModeIn, Level0!SettledFirst,
             Level0!SettledBetween, Level0!SettledLast, EnterListening_1, EnterWaitDelay_2, EnterListening_2,
             EntryMode
    <3> QED
      BY <1>2, <1>8, <2>4, <3>5, <3>6 DEF FireEndDelay_1, linkVars
  <2> QED
    BY <2>1, <2>4
<1>9. ASSUME endListening_1 = 0, Become(Level0!HandleWithFsm([s EXCEPT !.l1 = Off], "endListening_1"))
      PROVE  FireEndListening_1 /\ StatesInv'
  <2> DEFINE q == [s EXCEPT !.l1 = Off]
             u == Level0!HandleWithFsm(q, "endListening_1")
  <2>1. fsm \in {"LISTENING_1", "RECEIVING_1"}
    BY <1>9, <1>7 DEF IInv, MacStates, TimersSpent, TimersFollowMac, TimerOrder
  <2>2. /\ q.fsm = s.fsm /\ q.mode = s.mode /\ q.l1 = Off /\ q.d1 = s.d1 /\ q.d2 = s.d2 /\ q.l2 = s.l2
        /\ q.queue = s.queue /\ q.sent = s.sent /\ q.received = s.received
        /\ q.down = s.down /\ q.error = s.error /\ q.rxTimer = s.rxTimer /\ q.txTimer = s.txTimer
        /\ q.rx = s.rx /\ q.tx = s.tx /\ q.macRx = s.macRx /\ q.macTx = s.macTx
    BY <1>3 DEF IsCurrent, Level0!IsState, Level0!Fields
  <2>3. Become(u)
    BY <1>9
  <2>4. CASE fsm = "LISTENING_1"
    <3>1. Level0!Quiet(q)
      BY <1>6, <2>4 DEF Level0!Quiet, Level0!IsState, Level0!Fields, Level0!TransmissionStateOf
    <3> HIDE DEF q
    <3>2. Level0!Target(q, "endListening_1") = "WAIT_DELAY_2" /\ Level0!TransitionAction(q, "endListening_1") = q
      BY <1>3, <2>2, <2>4 DEF IsCurrent, Level0!Target, Level0!TransitionAction
    <3>3. /\ q.mode # Level0!ModeIn("WAIT_DELAY_2") /\ q.mode \in {"SLEEP", "RECEIVER"}
          /\ Level0!NestedSettles({"WAIT_DELAY_2"}) /\ receptionTimer = NoFrame /\ ~Scheduled(transmissionTimer)
      BY <1>3, <1>4, <2>2, <2>4
         DEF IsCurrent, Level0!ModeIn, Settling0, Settling1, IInv, RadioFollowsMac, QueueIsCurrentTransmission
    <3>4. /\ Level0!Quiet(u) /\ Level0!Same(q, u) /\ u.mode = Level0!ModeIn(u.fsm)
          /\ u.fsm = Level0!SettledBetween(q)
      BY <1>3, <2>2, <2>4, <3>1, <3>2, <3>3, Level1Settles, Level0!Moves DEF IsCurrent
    <3> HIDE DEF u
    <3>5. StatesInv'
      BY <2>3, <3>4, BecomesQuiet DEF Level0!ModeIn
    <3>6. /\ fsm' = EnterWaitDelay_2(Scheduled(endDelay_2), Scheduled(endListening_2))
          /\ radioMode' = EntryMode(fsm') /\ endListening_1' = Off
          /\ UNCHANGED <<transmissionQueue, numSent, numReceived, endDelay_1, endDelay_2, endListening_2,
                         receptionTimer, transmissionTimer, down, aborted>>
      BY <1>3, <2>2, <2>3, <3>3, <3>4
         DEF IsCurrent, Become, Level0!Quiet, Level0!Same, Level0!ModeIn, Level0!SettledBetween,
             Level0!SettledLast, EnterWaitDelay_2, EnterListening_2, EntryMode
    <3> QED
      BY <1>2, <1>9, <2>4, <3>5, <3>6 DEF FireEndListening_1, linkVars
  <2>5. CASE fsm # "LISTENING_1"
    <3> HIDE DEF q
    <3>1. u = q
      BY <1>3, <2>1, <2>2, <2>5 DEF IsCurrent, Level0!HandleWithFsm, Level0!Target
    <3> HIDE DEF u
    <3>2. /\ UNCHANGED <<fsm, radioMode, transmissionQueue, numSent, numReceived, down, aborted,
                         receptionTimer, transmissionTimer>>
          /\ StatesInv'
      BY <1>3, <1>5, <2>2, <2>3, <3>1 DEF IsCurrent
    <3>3. endListening_1' = Off /\ UNCHANGED <<endDelay_1, endDelay_2, endListening_2>>
      BY <1>3, <2>2, <2>3, <3>1 DEF IsCurrent, Become
    <3> QED
      BY <1>2, <1>9, <2>5, <3>2, <3>3 DEF FireEndListening_1, linkVars
  <2> QED
    BY <2>4, <2>5
<1>10. ASSUME endDelay_2 = 0, Become(Level0!HandleWithFsm([s EXCEPT !.d2 = Off], "endDelay_2"))
      PROVE  FireEndDelay_2 /\ StatesInv'
  <2> DEFINE q == [s EXCEPT !.d2 = Off]
             u == Level0!HandleWithFsm(q, "endDelay_2")
  <2>1. fsm \in {"WAIT_DELAY_2", "RECEIVING_1"}
    BY <1>10, <1>7 DEF IInv, MacStates, TimersSpent, TimersFollowMac, TimerOrder
  <2>2. /\ q.fsm = s.fsm /\ q.mode = s.mode /\ q.d2 = Off /\ q.d1 = s.d1 /\ q.l1 = s.l1 /\ q.l2 = s.l2
        /\ q.queue = s.queue /\ q.sent = s.sent /\ q.received = s.received
        /\ q.down = s.down /\ q.error = s.error /\ q.rxTimer = s.rxTimer /\ q.txTimer = s.txTimer
        /\ q.rx = s.rx /\ q.tx = s.tx /\ q.macRx = s.macRx /\ q.macTx = s.macTx
    BY <1>3 DEF IsCurrent, Level0!IsState, Level0!Fields
  <2>3. Become(u)
    BY <1>10
  <2>4. CASE fsm = "WAIT_DELAY_2"
    <3>1. Level0!Quiet(q)
      BY <1>6, <2>4 DEF Level0!Quiet, Level0!IsState, Level0!Fields, Level0!TransmissionStateOf
    <3> HIDE DEF q
    <3>2. Level0!Target(q, "endDelay_2") = "LISTENING_2" /\ Level0!TransitionAction(q, "endDelay_2") = q
      BY <1>3, <2>2, <2>4 DEF IsCurrent, Level0!Target, Level0!TransitionAction
    <3>3. /\ q.mode # Level0!ModeIn("LISTENING_2") /\ q.mode \in {"SLEEP", "RECEIVER"}
          /\ Level0!NestedSettles({"LISTENING_2"}) /\ receptionTimer = NoFrame /\ ~Scheduled(transmissionTimer)
      BY <1>3, <1>4, <2>2, <2>4
         DEF IsCurrent, Level0!ModeIn, Settling0, Settling1, Settling2, IInv, RadioFollowsMac, QueueIsCurrentTransmission
    <3>4. /\ Level0!Quiet(u) /\ Level0!Same(q, u) /\ u.mode = Level0!ModeIn(u.fsm)
          /\ u.fsm = Level0!SettledLast(q)
      BY <1>3, <2>2, <2>4, <3>1, <3>2, <3>3, Level1Settles, Level0!Moves DEF IsCurrent
    <3> HIDE DEF u
    <3>5. StatesInv'
      BY <2>3, <3>4, BecomesQuiet DEF Level0!ModeIn
    <3>6. /\ fsm' = EnterListening_2(Scheduled(endListening_2))
          /\ radioMode' = EntryMode(fsm') /\ endDelay_2' = Off
          /\ UNCHANGED <<transmissionQueue, numSent, numReceived, endDelay_1, endListening_1, endListening_2,
                         receptionTimer, transmissionTimer, down, aborted>>
      BY <1>3, <2>2, <2>3, <3>3, <3>4
         DEF IsCurrent, Become, Level0!Quiet, Level0!Same, Level0!ModeIn, Level0!SettledLast,
             EnterListening_2, EntryMode
    <3> QED
      BY <1>2, <1>10, <2>4, <3>5, <3>6 DEF FireEndDelay_2, linkVars
  <2>5. CASE fsm # "WAIT_DELAY_2"
    <3> HIDE DEF q
    <3>1. u = q
      BY <1>3, <2>1, <2>2, <2>5 DEF IsCurrent, Level0!HandleWithFsm, Level0!Target
    <3> HIDE DEF u
    <3>2. /\ UNCHANGED <<fsm, radioMode, transmissionQueue, numSent, numReceived, down, aborted,
                         receptionTimer, transmissionTimer>>
          /\ StatesInv'
      BY <1>3, <1>5, <2>2, <2>3, <3>1 DEF IsCurrent
    <3>3. endDelay_2' = Off /\ UNCHANGED <<endDelay_1, endListening_1, endListening_2>>
      BY <1>3, <2>2, <2>3, <3>1 DEF IsCurrent, Become
    <3> QED
      BY <1>2, <1>10, <2>5, <3>2, <3>3 DEF FireEndDelay_2, linkVars
  <2> QED
    BY <2>4, <2>5
<1>11. ASSUME endListening_2 = 0, Become(Level0!HandleWithFsm([s EXCEPT !.l2 = Off], "endListening_2"))
      PROVE  FireEndListening_2 /\ StatesInv'
  <2> DEFINE q == [s EXCEPT !.l2 = Off]
             u == Level0!HandleWithFsm(q, "endListening_2")
  <2>1. fsm \in {"LISTENING_2", "RECEIVING_1", "RECEIVING_2"}
    BY <1>11, <1>7 DEF IInv, MacStates, TimersSpent, TimersFollowMac, TimerOrder
  <2>2. /\ q.fsm = s.fsm /\ q.mode = s.mode /\ q.l2 = Off /\ q.d1 = s.d1 /\ q.l1 = s.l1 /\ q.d2 = s.d2
        /\ q.queue = s.queue /\ q.sent = s.sent /\ q.received = s.received
        /\ q.down = s.down /\ q.error = s.error /\ q.rxTimer = s.rxTimer /\ q.txTimer = s.txTimer
        /\ q.rx = s.rx /\ q.tx = s.tx /\ q.macRx = s.macRx /\ q.macTx = s.macTx
    BY <1>3 DEF IsCurrent, Level0!IsState, Level0!Fields
  <2>3. Become(u)
    BY <1>11
  <2>4. CASE fsm = "LISTENING_2"
    <3>1. Level0!Quiet(q)
      BY <1>6, <2>4 DEF Level0!Quiet, Level0!IsState, Level0!Fields, Level0!TransmissionStateOf
    <3> HIDE DEF q
    <3>2. Level0!Target(q, "endListening_2") = "IDLE" /\ Level0!TransitionAction(q, "endListening_2") = q
      BY <1>3, <2>2, <2>4 DEF IsCurrent, Level0!Target, Level0!TransitionAction
    <3>3. /\ q.mode # Level0!ModeIn("IDLE") /\ q.mode \in {"SLEEP", "RECEIVER"}
          /\ Level0!NestedSettles({"IDLE"}) /\ receptionTimer = NoFrame /\ ~Scheduled(transmissionTimer)
      BY <1>3, <1>4, <2>2, <2>4
         DEF IsCurrent, Level0!ModeIn, Settling0, Settling1, Settling2, Settling3, IInv, RadioFollowsMac, QueueIsCurrentTransmission
    <3>4. /\ Level0!Quiet(u) /\ Level0!Same(q, u) /\ u.mode = Level0!ModeIn(u.fsm)
          /\ u.fsm = "IDLE"
      BY <1>3, <2>2, <2>4, <3>1, <3>2, <3>3, Level1Settles, Level0!Moves DEF IsCurrent
    <3> HIDE DEF u
    <3>5. StatesInv'
      BY <2>3, <3>4, BecomesQuiet DEF Level0!ModeIn
    <3>6. /\ fsm' = "IDLE"
          /\ radioMode' = EntryMode(fsm') /\ endListening_2' = Off
          /\ UNCHANGED <<transmissionQueue, numSent, numReceived, endDelay_1, endListening_1, endDelay_2,
                         receptionTimer, transmissionTimer, down, aborted>>
      BY <1>3, <2>2, <2>3, <3>3, <3>4
         DEF IsCurrent, Become, Level0!Quiet, Level0!Same, Level0!ModeIn, EntryMode
    <3> QED
      BY <1>2, <1>11, <2>4, <3>5, <3>6 DEF FireEndListening_2, linkVars
  <2>5. CASE fsm # "LISTENING_2"
    <3> HIDE DEF q
    <3>1. u = q
      BY <1>3, <2>1, <2>2, <2>5 DEF IsCurrent, Level0!HandleWithFsm, Level0!Target
    <3> HIDE DEF u
    <3>2. /\ UNCHANGED <<fsm, radioMode, transmissionQueue, numSent, numReceived, down, aborted,
                         receptionTimer, transmissionTimer>>
          /\ StatesInv'
      BY <1>3, <1>5, <2>2, <2>3, <3>1 DEF IsCurrent
    <3>3. endListening_2' = Off /\ UNCHANGED <<endDelay_1, endListening_1, endDelay_2>>
      BY <1>3, <2>2, <2>3, <3>1 DEF IsCurrent, Become
    <3> QED
      BY <1>2, <1>11, <2>5, <3>2, <3>3 DEF FireEndListening_2, linkVars
  <2> QED
    BY <2>4, <2>5
<1> QED
  BY <1>1, <1>8, <1>9, <1>10, <1>11 DEF s

-----------------------------------------------------------------------------
\* The radio's handlers.
LEMMA RadioUpperPacket ==
    ASSUME RIInv, RRadioHandleUpperPacket
    PROVE  RadioHandleUpperPacket /\ StatesInv'
<1> USE DEF RIInv
<1>1. ~aborted /\ down # <<>> /\ UNCHANGED <<sequenceNumber, nextPacket, frameVars, up>>
  BY DEF RRadioHandleUpperPacket
<1>2. /\ fsm = "TRANSMIT" /\ radioMode = "TRANSMITTER" /\ ~Scheduled(transmissionTimer)
      /\ receptionTimer = NoFrame /\ UplinkAirTime # Off
  BY <1>1 DEF IInv, QueueIsCurrentTransmission, RadioFollowsMac
<1>3. PICK channel \in Channel :
        LET s == [Current(channel, OnAir) EXCEPT !.down = Tail(@)]
        IN  Become(Level0!UpdateTransceiverState([s EXCEPT !.txTimer = UplinkAirTime]))
  BY <1>2 DEF RRadioHandleUpperPacket
<1> DEFINE c == Current(channel, OnAir)
           s == [[c EXCEPT !.down = Tail(@)] EXCEPT !.txTimer = UplinkAirTime]
           u == Level0!UpdateTransceiverState(s)
<1>4. IsCurrent(c, channel, OnAir)
  BY CurrentFields
<1> HIDE DEF c
<1>5. /\ Level0!IsState(s) /\ s.fsm = fsm /\ s.d1 = endDelay_1 /\ s.l1 = endListening_1
      /\ s.d2 = endDelay_2 /\ s.l2 = endListening_2 /\ s.queue = transmissionQueue
      /\ s.sent = numSent /\ s.received = numReceived /\ s.down = Tail(down) /\ s.mode = radioMode
      /\ s.rxTimer = receptionTimer /\ s.txTimer = UplinkAirTime /\ s.rx = receptionState
      /\ s.tx = transmissionState /\ s.macRx = macReceptionState /\ s.macTx = macTransmissionState
      /\ s.channel = channel /\ s.scheduled = OnAir /\ s.error = aborted
  BY <1>4 DEF IsCurrent, Level0!IsState, Level0!Fields
<1> HIDE DEF s
<1>6. Level0!Sending(s) /\ s.txTimer # Off /\ s.tx = "IDLE" /\ s.macTx # "TRANSMITTING"
  BY <1>2, <1>5, OnAirFrames DEF Level0!Sending, StatesInv, CopiesAgree, Channel
<1>7. /\ Level0!Same(s, u) /\ u.fsm = s.fsm /\ u.mode = s.mode /\ u.rxTimer = s.rxTimer
      /\ u.txTimer = s.txTimer /\ u.rx = s.rx /\ u.macRx = s.macRx
      /\ u.tx = "TRANSMITTING" /\ u.macTx = "TRANSMITTING"
  BY <1>6, Level0!TransmissionStarts
<1>8. Become(u)
  BY <1>3 DEF s, c
<1> HIDE DEF u
<1>9. StatesInv'
  BY <1>2, <1>5, <1>7, <1>8 DEF Become, StatesInv, CopiesAgree
<1>10. /\ down' = Tail(down) /\ transmissionTimer' = UplinkAirTime /\ aborted' = aborted
       /\ UNCHANGED <<fsm, transmissionQueue, numSent, numReceived, timerVars, radioMode, receptionTimer>>
  BY <1>5, <1>7, <1>8 DEF Become, Level0!Same, timerVars
<1>11. aborted = FALSE
  BY <1>1 DEF IInv, TypeOK
<1> QED
  BY <1>1, <1>2, <1>9, <1>10, <1>11 DEF RadioHandleUpperPacket, macVars

LEMMA TransmissionOver ==
    ASSUME RIInv, REndTransmission
    PROVE  EndTransmission /\ StatesInv'
<1> USE DEF RIInv
<1>1. ~aborted /\ transmissionTimer = 0 /\ UNCHANGED <<sequenceNumber, nextPacket, frameVars, up>>
  BY DEF REndTransmission
<1>2. /\ fsm = "TRANSMIT" /\ radioMode = "TRANSMITTER" /\ receptionTimer = NoFrame /\ down = <<>>
      /\ ~Scheduled(endDelay_1) /\ ~Scheduled(endListening_1)
      /\ ~Scheduled(endDelay_2) /\ ~Scheduled(endListening_2) /\ aborted = FALSE
  BY <1>1 DEF IInv, TypeOK, QueueIsCurrentTransmission, RadioFollowsMac, TimersFollowMac
<1>3. PICK channel \in Channel :
        Become(Level0!UpdateTransceiverState([Current(channel, OnAir) EXCEPT !.txTimer = Off]))
  BY DEF REndTransmission
<1> DEFINE c == Current(channel, OnAir)
           s == [c EXCEPT !.txTimer = Off]
           u == Level0!UpdateTransceiverState(s)
<1>4. IsCurrent(c, channel, OnAir)
  BY CurrentFields
<1> HIDE DEF c
<1>5. /\ Level0!IsState(s) /\ s.fsm = fsm /\ s.d1 = endDelay_1 /\ s.l1 = endListening_1
      /\ s.d2 = endDelay_2 /\ s.l2 = endListening_2 /\ s.queue = transmissionQueue
      /\ s.sent = numSent /\ s.received = numReceived /\ s.down = down /\ s.mode = radioMode
      /\ s.rxTimer = receptionTimer /\ s.txTimer = Off /\ s.rx = receptionState
      /\ s.tx = transmissionState /\ s.macRx = macReceptionState /\ s.macTx = macTransmissionState
      /\ s.channel = channel /\ s.scheduled = OnAir
  BY <1>4 DEF IsCurrent, Level0!IsState, Level0!Fields
<1> HIDE DEF s
<1>6. Level0!Sending(s) /\ s.tx = "TRANSMITTING" /\ s.macTx = "TRANSMITTING"
  BY <1>1, <1>2, <1>5, OnAirFrames DEF Level0!Sending, StatesInv, CopiesAgree, Channel
<1>7. /\ Level0!Quiet(u) /\ u.fsm = "WAIT_DELAY_1" /\ u.mode = "SLEEP"
      /\ u.d1 = waitDelay1Time /\ u.l1 = waitDelay1Time + listening1Time
      /\ u.d2 = waitDelay1Time + listening1Time + waitDelay2Time
      /\ u.l2 = waitDelay1Time + listening1Time + waitDelay2Time + listening2Time
      /\ u.queue = Tail(s.queue) /\ u.sent = s.sent + 1 /\ u.received = s.received
      /\ u.down = s.down /\ u.error = FALSE
  BY <1>2, <1>5, <1>6, Level1Settles, Level1Switches, Level0!TransmissionEnds
<1>8. Become(u)
  BY <1>3 DEF s, c
<1> HIDE DEF u
<1>9. StatesInv'
  BY <1>7, <1>8, BecomesQuiet
<1>10. /\ fsm' = "WAIT_DELAY_1" /\ radioMode' = "SLEEP" /\ transmissionTimer' = Off
       /\ endDelay_1' = waitDelay1Time /\ endListening_1' = waitDelay1Time + listening1Time
       /\ endDelay_2' = waitDelay1Time + listening1Time + waitDelay2Time
       /\ endListening_2' = waitDelay1Time + listening1Time + waitDelay2Time + listening2Time
       /\ transmissionQueue' = PopTransmissionQueue /\ numSent' = numSent + 1
       /\ UNCHANGED <<numReceived, receptionTimer, down, aborted>>
  BY <1>2, <1>5, <1>7, <1>8 DEF Become, Level0!Quiet, PopTransmissionQueue
<1> QED
  BY <1>1, <1>9, <1>10 DEF EndTransmission, linkVars

-----------------------------------------------------------------------------
\* The frames' handlers.  One whose reception the frame does not touch leaves MAC and radio alone.
LEMMA Undisturbed ==
    ASSUME RIInv, NEW channel \in Channel, NEW scheduled, NoFrame \notin scheduled,
           receptionTimer # NoFrame => receptionTimer \in scheduled,
           Become(Level0!UpdateTransceiverState(Current(channel, scheduled)))
    PROVE  /\ UNCHANGED <<fsm, transmissionQueue, numSent, numReceived, timerVars, radioVars, down, aborted>>
           /\ StatesInv'
<1> USE DEF RIInv
<1> DEFINE s == Current(channel, scheduled)
           u == Level0!UpdateTransceiverState(s)
<1>1. IsCurrent(s, channel, scheduled)
  BY CurrentFields
<1> HIDE DEF s
<1>2. Level0!Same(s, u) /\ u.fsm = s.fsm /\ u.mode = s.mode /\ u.rxTimer = s.rxTimer /\ u.txTimer = s.txTimer
      /\ u.rx \in (IF radioMode = "RECEIVER" /\ receptionTimer = NoFrame THEN {"IDLE", "BUSY"}
                   ELSE {s.rx})
      /\ u.tx = s.tx /\ (u.macRx = "RECEIVING" <=> s.macRx = "RECEIVING")
      /\ (u.macTx = "TRANSMITTING" <=> s.macTx = "TRANSMITTING")
  <2>1. s.tx = Level0!TransmissionStateOf(s)
    BY <1>1 DEF IsCurrent, Level0!TransmissionStateOf, StatesInv
  <2>2. CASE radioMode = "RECEIVER" /\ receptionTimer = NoFrame
    <3>1. fsm \in {"LISTENING_1", "LISTENING_2"} /\ ~Scheduled(transmissionTimer)
      BY <2>2 DEF IInv, TypeOK, MacStates, RadioFollowsMac, QueueIsCurrentTransmission
    <3>2. Level0!Listening(s) /\ s.rxTimer = NoFrame
      BY <1>1, <2>2, <3>1
         DEF IsCurrent, Level0!Listening, StatesInv, CopiesAgree, Channel, IInv, TimersFollowMac
    <3>3. Level0!Quiet(u) /\ Level0!Same(s, u) /\ u.fsm = s.fsm /\ u.mode = s.mode
      BY <3>2, Level0!ChannelChanges
    <3> HIDE DEF u
    <3> QED
      BY <1>1, <2>1, <2>2, <3>1, <3>2, <3>3
         DEF IsCurrent, Level0!Quiet, Level0!TransmissionStateOf, StatesInv, CopiesAgree
  <2>3. CASE ~(radioMode = "RECEIVER" /\ receptionTimer = NoFrame)
    <3>1. s.rx = Level0!ReceptionStateOf(s)
      BY <1>1, <2>3 DEF IsCurrent, Level0!ReceptionStateOf, StatesInv
    <3>2. u = s
      BY <2>1, <3>1, Level0!QuietUpdate
    <3> HIDE DEF u
    <3> QED
      BY <2>3, <3>2 DEF Level0!Same
  <2> QED
    BY <2>2, <2>3
<1>3. Become(u)
  BY DEF s
<1> HIDE DEF u
<1> QED
  BY <1>1, <1>2, <1>3
     DEF Become, IsCurrent, Level0!Same, StatesInv, CopiesAgree, timerVars, radioVars

\* A reception that ends, or is given up, puts the radio to sleep.
LEMMA GivenUp ==
    ASSUME RIInv, NEW channel \in Channel, NEW scheduled, NoFrame \notin scheduled,
           radioMode = "RECEIVER", receptionTimer # NoFrame,
           Become(Level0!UpdateTransceiverState([Current(channel, scheduled) EXCEPT !.rxTimer = NoFrame]))
    PROVE  /\ receptionTimer' = NoFrame /\ radioMode' = "SLEEP"
           /\ UNCHANGED <<fsm, transmissionQueue, numSent, numReceived, timerVars, transmissionTimer, down, aborted>>
           /\ StatesInv'
<1> USE DEF RIInv
<1> DEFINE c == Current(channel, scheduled)
           s == [c EXCEPT !.rxTimer = NoFrame]
           u == Level0!UpdateTransceiverState(s)
<1>1. IsCurrent(c, channel, scheduled)
  BY CurrentFields
<1> HIDE DEF c
<1>2. /\ Level0!Receiving(s) /\ s.rxTimer = NoFrame /\ s.rx = "RECEIVING" /\ Level0!Same(c, s)
      /\ s.fsm = fsm /\ s.txTimer = transmissionTimer
  <2>1. fsm \in {"RECEIVING_1", "RECEIVING_2"} /\ ~Scheduled(transmissionTimer)
    BY DEF IInv, TypeOK, MacStates, RadioFollowsMac, QueueIsCurrentTransmission
  <2>2. /\ receptionState = "RECEIVING" /\ macReceptionState = "RECEIVING"
        /\ transmissionState = "UNDEFINED" /\ macTransmissionState # "TRANSMITTING"
    BY DEF StatesInv, CopiesAgree
  <2> QED
    BY <1>1, <2>1, <2>2
       DEF IsCurrent, Level0!IsState, Level0!Fields, Level0!Receiving, Level0!Same, Channel
<1> HIDE DEF s
<1>3. Level0!Asleep(s, u)
  BY <1>2, Level1Sleeps, Level0!ReceptionEnds
<1>4. Become(u)
  BY DEF s, c
<1> HIDE DEF u
<1>5. StatesInv'
  BY <1>3, <1>4, BecomesQuiet DEF Level0!Asleep
<1>6. receptionTimer' = NoFrame /\ radioMode' = "SLEEP" /\ transmissionTimer' = Off
  BY <1>3, <1>4 DEF Become, Level0!Asleep, Level0!Quiet
<1>7. transmissionTimer = Off
  BY <1>2 DEF Level0!Receiving
<1> QED
  BY <1>1, <1>2, <1>3, <1>4, <1>5, <1>6, <1>7 DEF Become, IsCurrent, Level0!Asleep, Level0!Same, timerVars

LEMMA FrameStarts ==
    ASSUME RIInv, NEW f \in Frames, RStartReception(f)
    PROVE  StartReception(f) /\ StatesInv'
<1> USE DEF RIInv
<1>1. PICK d \in AirTimes, to \in Receivers, attempted \in BOOLEAN, channel \in Channel :
        /\ air' = [air EXCEPT ![f] = d]
        /\ receiver' = [receiver EXCEPT ![f] = to]
        /\ part' = [part EXCEPT ![f] = IF separateReceptionParts THEN "PREAMBLE" ELSE "WHOLE"]
        /\ Become(Level0!UpdateTransceiverState(
               [Current(channel, OnAir \union {f}) EXCEPT
                   !.rxTimer = IF radioMode = "RECEIVER" /\ attempted THEN f ELSE @]))
  BY DEF RStartReception
<1>2. ~aborted /\ ~Scheduled(air[f]) /\ UNCHANGED <<sequenceNumber, nextPacket, up>>
  BY DEF RStartReception
<1> DEFINE c == Current(channel, OnAir \union {f})
           s == [c EXCEPT !.rxTimer = IF radioMode = "RECEIVER" /\ attempted THEN f ELSE @]
           u == Level0!UpdateTransceiverState(s)
<1>3. IsCurrent(c, channel, OnAir \union {f}) /\ Become(u) /\ NoFrame \notin OnAir \union {f}
  BY <1>1, CurrentFields, OnAirFrames
<1>4. CASE ~(radioMode = "RECEIVER" /\ attempted)
  <2>1. s = c
    BY <1>4 DEF Current
  <2>2. receptionTimer # NoFrame => receptionTimer \in OnAir
    BY DEF IInv, TypeOK, MacStates, RadioFollowsMac, OnAir
  <2>3. Become(Level0!UpdateTransceiverState(c))
    BY <1>3, <2>1
  <2>4. /\ UNCHANGED <<fsm, transmissionQueue, numSent, numReceived, timerVars, radioVars, down, aborted>>
        /\ StatesInv'
    BY <1>3, <2>2, <2>3, Undisturbed
  <2> HIDE DEF s, u, c
  <2> QED
    BY <1>1, <1>2, <1>4, <2>4 DEF StartReception, linkVars, radioVars
<1>5. CASE radioMode = "RECEIVER" /\ attempted
  <2> HIDE DEF c
  <2>1. /\ Level0!IsState(s) /\ Level0!Same(c, s) /\ s.fsm = fsm /\ s.mode = "RECEIVER" /\ s.rxTimer = f
        /\ s.txTimer = transmissionTimer /\ s.rx = receptionState /\ s.tx = transmissionState
        /\ s.macRx = macReceptionState /\ s.macTx = macTransmissionState /\ s.scheduled = OnAir \union {f}
    BY <1>3, <1>5 DEF IsCurrent, Level0!IsState, Level0!Fields, Level0!Same
  <2> HIDE DEF s
  <2>2. /\ Level0!Same(c, u) /\ u.fsm = OnReceiving(fsm) /\ u.mode = "RECEIVER" /\ u.rxTimer = f
        /\ u.txTimer = transmissionTimer /\ u.rx = "RECEIVING" /\ u.macRx = "RECEIVING"
        /\ u.tx = transmissionState /\ u.macTx = macTransmissionState
    <3>1. CASE receptionTimer = NoFrame
      <4>1. fsm \in {"LISTENING_1", "LISTENING_2"} /\ ~Scheduled(transmissionTimer)
        BY <1>5, <3>1 DEF IInv, TypeOK, MacStates, RadioFollowsMac, QueueIsCurrentTransmission
      <4>2. Level0!Listening(s)
        BY <1>3, <1>5, <2>1, <3>1, <4>1
           DEF IsCurrent, Level0!Same, Level0!Listening, StatesInv, CopiesAgree, Channel, IInv, TimersFollowMac
      <4>3. s.rxTimer \in s.scheduled
        BY <2>1
      <4>4. /\ Level0!Same(s, u) /\ u.mode = s.mode /\ u.rxTimer = s.rxTimer /\ u.txTimer = s.txTimer
            /\ u.tx = s.tx /\ u.macTx = s.macTx /\ u.rx = "RECEIVING" /\ u.macRx = "RECEIVING"
            /\ u.fsm = IF s.fsm = "LISTENING_1" THEN "RECEIVING_1" ELSE "RECEIVING_2"
        BY <4>2, <4>3, Level0!ReceptionStarts
      <4> HIDE DEF u
      <4> QED
        BY <2>1, <4>1, <4>4 DEF Level0!Same, OnReceiving
    <3>2. CASE receptionTimer # NoFrame
      <4>1. /\ fsm \in {"RECEIVING_1", "RECEIVING_2"}
            /\ receptionState = "RECEIVING" /\ macReceptionState = "RECEIVING" /\ transmissionState = "UNDEFINED"
        BY <1>5, <3>2 DEF IInv, TypeOK, MacStates, RadioFollowsMac, StatesInv, CopiesAgree
      <4>2. u = s
        BY <2>1, <4>1, Level0!QuietUpdate DEF Level0!ReceptionStateOf, Level0!TransmissionStateOf
      <4> HIDE DEF u
      <4> QED
        BY <2>1, <4>1, <4>2 DEF OnReceiving
    <3> QED
      BY <3>1, <3>2
  <2> HIDE DEF u
  <2>3. f # NoFrame
    OBVIOUS
  <2>4. StatesInv'
    BY <1>3, <1>5, <2>2, <2>3 DEF Become, StatesInv, CopiesAgree
  <2>5. /\ receptionTimer' = f /\ fsm' = OnReceiving(fsm)
        /\ UNCHANGED <<transmissionQueue, numSent, numReceived, timerVars, radioMode, transmissionTimer,
                       down, aborted>>
    BY <1>3, <1>5, <2>2 DEF Become, IsCurrent, Level0!Same, timerVars
  <2> QED
    BY <1>1, <1>2, <1>5, <2>4, <2>5 DEF StartReception, linkVars
<1> QED
  BY <1>4, <1>5

LEMMA FrameContinues ==
    ASSUME RIInv, NEW f \in Frames, RContinueReception(f)
    PROVE  ContinueReception(f) /\ StatesInv'
<1> USE DEF RIInv
<1>1. PICK d \in AirTimes, attempted \in BOOLEAN, channel \in Channel :
        /\ air' = [air EXCEPT ![f] = d]
        /\ part' = [part EXCEPT ![f] = NextPart[part[f]]]
        /\ Become(Level0!UpdateTransceiverState(
               [Current(channel, OnAir) EXCEPT
                   !.rxTimer = IF @ = f /\ radioMode = "RECEIVER" /\ ~attempted
                               THEN NoFrame ELSE @]))
  BY DEF RContinueReception
<1>2. /\ ~aborted /\ air[f] = 0 /\ part[f] \in {"PREAMBLE", "HEADER"}
      /\ UNCHANGED <<receiver, sequenceNumber, nextPacket, up>>
  BY DEF RContinueReception
<1>3. CASE receptionTimer = f /\ radioMode = "RECEIVER" /\ ~attempted
  <2>1. Become(Level0!UpdateTransceiverState([Current(channel, OnAir) EXCEPT !.rxTimer = NoFrame]))
    BY <1>1, <1>3 DEF Current
  <2>2. receptionTimer # NoFrame
    BY <1>3
  <2>3. /\ receptionTimer' = NoFrame /\ radioMode' = "SLEEP"
        /\ UNCHANGED <<fsm, transmissionQueue, numSent, numReceived, timerVars, transmissionTimer, down, aborted>>
        /\ StatesInv'
    BY <1>3, <2>1, <2>2, OnAirFrames, GivenUp
  <2> QED
    BY <1>1, <1>2, <1>3, <2>3 DEF ContinueReception, macVars, linkVars
<1>4. CASE ~(receptionTimer = f /\ radioMode = "RECEIVER" /\ ~attempted)
  <2>1. Become(Level0!UpdateTransceiverState(Current(channel, OnAir)))
    BY <1>1, <1>4 DEF Current
  <2>2. receptionTimer # NoFrame => receptionTimer \in OnAir
    BY DEF IInv, TypeOK, MacStates, RadioFollowsMac, OnAir
  <2>3. /\ UNCHANGED <<fsm, transmissionQueue, numSent, numReceived, timerVars, radioVars, down, aborted>>
        /\ StatesInv'
    BY <2>1, <2>2, OnAirFrames, Undisturbed
  <2> QED
    BY <1>1, <1>2, <2>3 DEF ContinueReception, macVars, linkVars, radioVars
<1> QED
  BY <1>3, <1>4

LEMMA FrameIgnored ==
    ASSUME RIInv, NEW f \in Frames, REndReceptionIgnored(f)
    PROVE  EndReceptionIgnored(f) /\ StatesInv'
<1> USE DEF RIInv
<1>1. PICK channel \in Channel : Become(Level0!UpdateTransceiverState(Current(channel, OnAir \ {f})))
  BY DEF REndReceptionIgnored
<1>2. /\ ~aborted /\ air[f] = 0 /\ part[f] \in {"WHOLE", "DATA"}
      /\ ~(receptionTimer = f /\ radioMode = "RECEIVER") /\ air' = [air EXCEPT ![f] = Off]
      /\ UNCHANGED <<part, receiver, sequenceNumber, nextPacket, up>>
  BY DEF REndReceptionIgnored
<1>3. receptionTimer # NoFrame => receptionTimer \in OnAir \ {f}
  BY <1>2 DEF IInv, TypeOK, MacStates, RadioFollowsMac, OnAir
<1>4. NoFrame \notin OnAir \ {f}
  BY OnAirFrames
<1>5. /\ UNCHANGED <<fsm, transmissionQueue, numSent, numReceived, timerVars, radioVars, down, aborted>>
      /\ StatesInv'
  BY <1>1, <1>3, <1>4, Undisturbed
<1> QED
  BY <1>2, <1>5 DEF EndReceptionIgnored, macVars, linkVars

\* The frame that droppedPacket is about: back to listening before the radio updates its states.
LEMMA BackFromDropped ==
    ASSUME RIInv, NEW channel \in Channel, NEW scheduled, NoFrame \notin scheduled,
           radioMode = "RECEIVER", receptionTimer # NoFrame,
           Become(Level0!UpdateTransceiverState(
               [Level0!DroppedPacket(Current(channel, scheduled)) EXCEPT !.rxTimer = NoFrame]))
    PROVE  /\ receptionTimer' = NoFrame /\ fsm' = BackToListening /\ radioMode' = EntryMode(fsm')
           /\ UNCHANGED <<transmissionQueue, numSent, numReceived, timerVars, transmissionTimer, down, aborted>>
           /\ StatesInv'
<1> USE DEF RIInv
<1> DEFINE s == Current(channel, scheduled)
           v == Level0!DroppedPacket(s)
           w == [v EXCEPT !.rxTimer = NoFrame]
           u == Level0!UpdateTransceiverState(w)
<1>1. IsCurrent(s, channel, scheduled)
  BY CurrentFields
<1>2. Become(u)
  OBVIOUS
<1> HIDE DEF s
<1>3. fsm \in {"RECEIVING_1", "RECEIVING_2"} /\ ~Scheduled(transmissionTimer)
  BY DEF IInv, TypeOK, MacStates, RadioFollowsMac, QueueIsCurrentTransmission
<1>4. Level0!InProgress(s)
  BY <1>1, <1>3 DEF IsCurrent, Level0!InProgress, Level0!Receiving, StatesInv, CopiesAgree, Channel
<1>5. /\ Level0!Quiet(v) /\ Level0!Same(s, v) /\ v.mode = Level0!ModeIn(v.fsm)
      /\ v.fsm = IF s.fsm = "RECEIVING_1" THEN Level0!SettledFirst(s) ELSE Level0!SettledLast(s)
  <2>1. Level0!NestedSettles({"LISTENING_1"}) /\ Level0!NestedSettles({"LISTENING_2"})
    BY Level1Settles DEF Level0!NestedSettles, Settling0, Settling1, Settling2
  <2> QED
    BY <1>4, <2>1, Level1Settles, Level1Sleeps, Level0!Dropped
<1> HIDE DEF v
<1>6. Level0!Quiet(w) /\ Level0!Same(v, w) /\ w.fsm = v.fsm /\ w.mode = v.mode
  BY <1>5 DEF Level0!Quiet, Level0!IsState, Level0!Fields, Level0!Same, Level0!TransmissionStateOf
<1> HIDE DEF w
<1>7. w.mode = "RECEIVER" => Level0!Listening(w)
  BY <1>1, <1>3, <1>5, <1>6
     DEF Level0!Quiet, Level0!Listening, Level0!ModeIn, Level0!Same, Level0!SettledFirst,
         Level0!SettledBetween, Level0!SettledLast, Level0!TransmissionStateOf
<1>8. Level0!Quiet(u) /\ Level0!Same(v, u) /\ u.fsm = v.fsm /\ u.mode = v.mode
  <2>1. Level0!Quiet(u) /\ Level0!Same(w, u) /\ u.fsm = w.fsm /\ u.mode = w.mode
    BY <1>6, <1>7, Level0!Refreshes
  <2> HIDE DEF u
  <2> QED
    BY <1>6, <2>1 DEF Level0!Same
<1> HIDE DEF u
<1>9. StatesInv'
  BY <1>2, <1>5, <1>8, BecomesQuiet DEF Level0!ModeIn
<1>10. fsm' = BackToListening /\ radioMode' = EntryMode(fsm')
  BY <1>1, <1>2, <1>3, <1>5, <1>8
     DEF Become, IsCurrent, Level0!ModeIn, Level0!SettledFirst, Level0!SettledBetween, Level0!SettledLast,
         BackToListening, EnterListening_1, EnterWaitDelay_2, EnterListening_2, EntryMode
<1>11. receptionTimer' = NoFrame /\ transmissionTimer' = Off /\ transmissionTimer = Off
  BY <1>2, <1>3, <1>8 DEF Become, Level0!Quiet
<1> QED
  BY <1>1, <1>2, <1>5, <1>8, <1>9, <1>10, <1>11 DEF Become, IsCurrent, Level0!Same, timerVars

LEMMA FrameEnds ==
    ASSUME RIInv, NEW f \in Frames, REndReception(f)
    PROVE  (EndReceptionSuccess(f) \/ EndReceptionDropped(f)) /\ StatesInv'
<1>1. PICK channel \in Channel :
        LET s == Current(channel, OnAir \ {f}) IN
        \/ /\ up' = Append(up, receiver[f])
           /\ Become(Level0!UpdateTransceiverState([s EXCEPT !.rxTimer = NoFrame]))
        \/ /\ up' = up
           /\ Become(Level0!UpdateTransceiverState(
                  [Level0!DroppedPacket(s) EXCEPT !.rxTimer = NoFrame]))
  BY DEF REndReception
<1>2. /\ ~aborted /\ air[f] = 0 /\ part[f] \in {"WHOLE", "DATA"} /\ receptionTimer = f
      /\ radioMode = "RECEIVER" /\ air' = [air EXCEPT ![f] = Off]
      /\ UNCHANGED <<part, receiver, sequenceNumber, nextPacket>>
  BY DEF REndReception
<1>3. NoFrame \notin OnAir \ {f} /\ receptionTimer # NoFrame
  BY <1>2, OnAirFrames
<1>4. CASE /\ up' = Append(up, receiver[f])
           /\ Become(Level0!UpdateTransceiverState([Current(channel, OnAir \ {f}) EXCEPT !.rxTimer = NoFrame]))
  <2>1. /\ receptionTimer' = NoFrame /\ radioMode' = "SLEEP"
        /\ UNCHANGED <<fsm, transmissionQueue, numSent, numReceived, timerVars, transmissionTimer, down, aborted>>
        /\ StatesInv'
    BY <1>2, <1>3, <1>4, GivenUp
  <2> QED
    BY <1>2, <1>4, <2>1 DEF EndReceptionSuccess, macVars
<1>5. CASE /\ up' = up
           /\ Become(Level0!UpdateTransceiverState(
                  [Level0!DroppedPacket(Current(channel, OnAir \ {f})) EXCEPT !.rxTimer = NoFrame]))
  <2>1. /\ receptionTimer' = NoFrame /\ fsm' = BackToListening /\ radioMode' = EntryMode(fsm')
        /\ UNCHANGED <<transmissionQueue, numSent, numReceived, timerVars, transmissionTimer, down, aborted>>
        /\ StatesInv'
    BY <1>2, <1>3, <1>5, BackFromDropped
  <2> QED
    BY <1>2, <1>5, <2>1 DEF EndReceptionDropped, linkVars
<1> QED
  BY <1>1, <1>4, <1>5

-----------------------------------------------------------------------------
LEMMA StepImplements == ASSUME RIInv, [RNext]_rvars PROVE [Next]_vars /\ StatesInv'
<1>1. CASE RHandleUpperPacket
  BY <1>1, UpperPacket DEF Next, Mac
<1>2. CASE RHandleLowerPacket
  BY <1>2, LowerPacket DEF Next, Mac
<1>3. CASE RHandleSelfMessage
  BY <1>3, SelfMessage DEF Next, Mac
<1>4. CASE RRadioHandleUpperPacket
  BY <1>4, RadioUpperPacket DEF Next, Radio
<1>5. CASE REndTransmission
  BY <1>5, TransmissionOver DEF Next, Radio
<1>6. ASSUME NEW f \in Frames, RContinueReception(f) \/ REndReceptionIgnored(f) \/ REndReception(f)
      PROVE  [Next]_vars /\ StatesInv'
  BY <1>6, FrameContinues, FrameIgnored, FrameEnds DEF Next, Radio, ReceptionTimerFires
<1>7. ASSUME NEW f \in Frames, RStartReception(f) PROVE [Next]_vars /\ StatesInv'
  BY <1>7, FrameStarts DEF Next, Arrival
<1>8. CASE RTick
  <2>1. Scheduled(transmissionTimer) <=> Scheduled(transmissionTimer')
    BY <1>8 DEF RTick, Tick, Countdown, RIInv, IInv, TypeOK
  <2> QED
    BY <1>8, <2>1 DEF RTick, Tick, stateVars, RIInv, StatesInv, CopiesAgree, Next
<1>9. CASE UNCHANGED rvars
  BY <1>9 DEF rvars, vars, stateVars, radioVars, RIInv, StatesInv, CopiesAgree
<1> QED
  BY <1>1, <1>2, <1>3, <1>4, <1>5, <1>6, <1>7, <1>8, <1>9 DEF RNext, RMac, RRadio, RArrival

(***************************************************************************)
(* LoRaMac's invariant carries over to the handlers with nested calls, and *)
(* the radio's states fit its mode and timers between any two of them.     *)
(***************************************************************************)
THEOREM ReentrantInvariant == RSpec => []RIInv
<1>1. RInit => RIInv
  BY InitIInv DEF RInit, Init, RIInv, StatesInv, CopiesAgree
<1>2. RIInv /\ [RNext]_rvars => RIInv'
  <2> SUFFICES ASSUME RIInv, [RNext]_rvars PROVE RIInv'
    OBVIOUS
  <2>1. [Next]_vars /\ StatesInv'
    BY StepImplements
  <2>2. IInv'
    BY <2>1, TypeStep, TimerStep, RadioStep, CountStep, QueueStep DEF IInv, RIInv
  <2> QED
    BY <2>1, <2>2 DEF RIInv
<1> QED
  BY <1>1, <1>2, PTL DEF RSpec

(***************************************************************************)
(* Between any two handlers LoRaMac's copies of the radio's states have    *)
(* the values receiveSignal tests for exactly when the radio's own states  *)
(* do, whatever the nested calls did to them in between.                   *)
(***************************************************************************)
THEOREM CopiesCorrect == RSpec => []CopiesAgree
<1>1. RIInv => CopiesAgree
  BY DEF RIInv, StatesInv
<1> QED
  BY ReentrantInvariant, <1>1, PTL

(***************************************************************************)
(* Every handler, run through its nested calls, does what the action of    *)
(* LoRaMac says it does.                                                   *)
(***************************************************************************)
THEOREM Implements == RSpec => ImplementsLoRaMac
<1>1. RInit => Init
  BY DEF RInit
<1>2. RIInv /\ [RNext]_rvars => [Next]_vars
  BY StepImplements
<1> QED
  BY <1>1, <1>2, ReentrantInvariant, PTL DEF RSpec, ImplementsLoRaMac, Spec
=============================================================================
