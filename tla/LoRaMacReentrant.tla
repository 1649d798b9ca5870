--------------------------- MODULE LoRaMacReentrant ---------------------------
(***************************************************************************)
(* LoRaMac with the nested calls between LoRaMac.cc and LoRaRadio.cc       *)
(* spelled out by LoRaCascade.  Each call is an operator from the state of *)
(* MAC and radio when it is made to the state when it returns, so a handler *)
(* is still one action.  The specification implements LoRaMac's, where the *)
(* cascade is summed up by EnterListening_x and EntryMode.                 *)
(***************************************************************************)
EXTENDS LoRaMac

VARIABLES
    receptionState, transmissionState,
        \* LoRaRadio's own: UNDEFINED, IDLE, BUSY, RECEIVING; UNDEFINED, IDLE, TRANSMITTING
    macReceptionState, macTransmissionState
        \* the copies LoRaMac keeps

stateVars == <<receptionState, transmissionState, macReceptionState, macTransmissionState>>
rvars == <<vars, stateVars>>

RInit ==
    /\ Init
    /\ receptionState = "UNDEFINED" /\ transmissionState = "UNDEFINED"
    /\ macReceptionState = "UNDEFINED" /\ macTransmissionState = "UNDEFINED"

(***************************************************************************)
(* The levels of the nested calls.  Handlers call Level0; a setRadioMode   *)
(* nested five deep would stop the model with an error, and is never       *)
(* reached: opening the first window with all its timers spent runs through *)
(* LISTENING_1, WAIT_DELAY_2, LISTENING_2 and IDLE, four calls.            *)
(***************************************************************************)
TooDeep(s, mode) == [s EXCEPT !.error = TRUE]

Level4 == INSTANCE LoRaCascade WITH Nested <- TooDeep
Level3 == INSTANCE LoRaCascade WITH Nested <- Level4!SetRadioMode
Level2 == INSTANCE LoRaCascade WITH Nested <- Level3!SetRadioMode
Level1 == INSTANCE LoRaCascade WITH Nested <- Level2!SetRadioMode
Level0 == INSTANCE LoRaCascade WITH Nested <- Level1!SetRadioMode

(***************************************************************************)
(* MAC and radio at the start of a handler.  channel is what               *)
(* isListeningPossible finds during the handler, scheduled the frames      *)
(* whose reception timer is scheduled.                                     *)
(***************************************************************************)
Current(channel, scheduled) ==
    [fsm |-> fsm, d1 |-> endDelay_1, l1 |-> endListening_1, d2 |-> endDelay_2,
     l2 |-> endListening_2, queue |-> transmissionQueue, sent |-> numSent,
     received |-> numReceived, down |-> down, mode |-> radioMode,
     rxTimer |-> receptionTimer, txTimer |-> transmissionTimer, rx |-> receptionState,
     tx |-> transmissionState, macRx |-> macReceptionState, macTx |-> macTransmissionState,
     channel |-> channel, scheduled |-> scheduled, error |-> aborted]

Become(s) ==
    /\ fsm' = s.fsm /\ endDelay_1' = s.d1 /\ endListening_1' = s.l1
    /\ endDelay_2' = s.d2 /\ endListening_2' = s.l2
    /\ transmissionQueue' = s.queue /\ numSent' = s.sent /\ numReceived' = s.received
    /\ down' = s.down
    /\ radioMode' = s.mode /\ receptionTimer' = s.rxTimer /\ transmissionTimer' = s.txTimer
    /\ receptionState' = s.rx /\ transmissionState' = s.tx
    /\ macReceptionState' = s.macRx /\ macTransmissionState' = s.macTx
    /\ aborted' = s.error

Channel == {"IDLE", "BUSY"}
OnAir == {f \in Frames : Scheduled(air[f])}

-----------------------------------------------------------------------------
\* LoRaMac::handleUpperPacket
RHandleUpperPacket ==
    /\ ~aborted /\ nextPacket = 0
    /\ \E channel \in Channel :
        LET s == Current(channel, OnAir) IN
        \/ /\ fsm # "IDLE"
           /\ Become([s EXCEPT !.error = TRUE])
           /\ UNCHANGED <<sequenceNumber, nextPacket>>
        \/ /\ fsm = "IDLE"
           /\ Become(Level0!HandleWithFsm([s EXCEPT !.queue = Append(@, sequenceNumber)], "upper"))
           /\ sequenceNumber' = sequenceNumber + 1
           /\ nextPacket' \in IF sequenceNumber' < numberOfPacketsToSend
                              THEN MinGap..MaxGap ELSE {Off}
    /\ UNCHANGED <<frameVars, up>>

\* LoRaMac::handleLowerPacket
RHandleLowerPacket ==
    /\ ~aborted /\ up # <<>>
    /\ up' = Tail(up)
    /\ \E channel \in Channel :
        LET s == Current(channel, OnAir)
            msg == IF Head(up) = "us" THEN "lowerForUs" ELSE "lowerNotForUs"
        IN  Become(IF fsm \in {"RECEIVING_1", "RECEIVING_2"} THEN Level0!HandleWithFsm(s, msg) ELSE s)
    /\ UNCHANGED <<sequenceNumber, nextPacket, frameVars>>

\* LoRaMac::handleSelfMessage for the timer that fired.
RHandleSelfMessage ==
    /\ ~aborted
    /\ \E channel \in Channel :
        LET s == Current(channel, OnAir) IN
        \/ endDelay_1 = 0     /\ Become(Level0!HandleWithFsm([s EXCEPT !.d1 = Off], "endDelay_1"))
        \/ endListening_1 = 0 /\ Become(Level0!HandleWithFsm([s EXCEPT !.l1 = Off], "endListening_1"))
        \/ endDelay_2 = 0     /\ Become(Level0!HandleWithFsm([s EXCEPT !.d2 = Off], "endDelay_2"))
        \/ endListening_2 = 0 /\ Become(Level0!HandleWithFsm([s EXCEPT !.l2 = Off], "endListening_2"))
    /\ UNCHANGED <<sequenceNumber, nextPacket, frameVars, up>>

\* LoRaRadio::handleUpperPacket and startTransmission
RRadioHandleUpperPacket ==
    /\ ~aborted /\ down # <<>>
    /\ \E channel \in Channel :
        LET s == [Current(channel, OnAir) EXCEPT !.down = Tail(@)] IN
        Become(IF radioMode # "TRANSMITTER" THEN s
               ELSE IF Scheduled(transmissionTimer) THEN [s EXCEPT !.error = TRUE]
               ELSE Level0!UpdateTransceiverState([s EXCEPT !.txTimer = UplinkAirTime]))
    /\ UNCHANGED <<sequenceNumber, nextPacket, frameVars, up>>

\* LoRaRadio::endTransmission
REndTransmission ==
    /\ ~aborted /\ transmissionTimer = 0
    /\ \E channel \in Channel :
        Become(Level0!UpdateTransceiverState([Current(channel, OnAir) EXCEPT !.txTimer = Off]))
    /\ UNCHANGED <<sequenceNumber, nextPacket, frameVars, up>>

\* LoRaRadio::startReception
RStartReception(f) ==
    /\ ~aborted /\ ~Scheduled(air[f])
    /\ \E d \in AirTimes, to \in Receivers, attempted \in BOOLEAN, channel \in Channel :
        /\ air' = [air EXCEPT ![f] = d]
        /\ receiver' = [receiver EXCEPT ![f] = to]
        /\ part' = [part EXCEPT ![f] = IF separateReceptionParts THEN "PREAMBLE" ELSE "WHOLE"]
        /\ Become(Level0!UpdateTransceiverState(
               [Current(channel, OnAir \union {f}) EXCEPT
                   !.rxTimer = IF radioMode = "RECEIVER" /\ attempted THEN f ELSE @]))
    /\ UNCHANGED <<sequenceNumber, nextPacket, up>>

\* LoRaRadio::continueReception
RContinueReception(f) ==
    /\ ~aborted /\ air[f] = 0 /\ part[f] \in {"PREAMBLE", "HEADER"}
    /\ \E d \in AirTimes, attempted \in BOOLEAN, channel \in Channel :
        /\ air' = [air EXCEPT ![f] = d]
        /\ part' = [part EXCEPT ![f] = NextPart[part[f]]]
        /\ Become(Level0!UpdateTransceiverState(
               [Current(channel, OnAir) EXCEPT
                   !.rxTimer = IF @ = f /\ radioMode = "RECEIVER" /\ ~attempted
                               THEN NoFrame ELSE @]))
    /\ UNCHANGED <<receiver, sequenceNumber, nextPacket, up>>

\* LoRaRadio::endReception of a frame that is not, or no longer, the current one
REndReceptionIgnored(f) ==
    /\ ~aborted /\ air[f] = 0 /\ part[f] \in {"WHOLE", "DATA"}
    /\ ~(receptionTimer = f /\ radioMode = "RECEIVER")
    /\ air' = [air EXCEPT ![f] = Off]
    /\ \E channel \in Channel :
        Become(Level0!UpdateTransceiverState(Current(channel, OnAir \ {f})))
    /\ UNCHANGED <<part, receiver, sequenceNumber, nextPacket, up>>

\* LoRaRadio::endReception of the current frame: sent up, or dropped
REndReception(f) ==
    /\ ~aborted /\ air[f] = 0 /\ part[f] \in {"WHOLE", "DATA"}
    /\ receptionTimer = f /\ radioMode = "RECEIVER"
    /\ air' = [air EXCEPT ![f] = Off]
    /\ \E channel \in Channel :
        LET s == Current(channel, OnAir \ {f}) IN
        \/ /\ up' = Append(up, receiver[f])
           /\ Become(Level0!UpdateTransceiverState([s EXCEPT !.rxTimer = NoFrame]))
        \/ /\ up' = up
           /\ Become(Level0!UpdateTransceiverState(
                  [Level0!DroppedPacket(s) EXCEPT !.rxTimer = NoFrame]))
    /\ UNCHANGED <<part, receiver, sequenceNumber, nextPacket>>

RMac == RHandleUpperPacket \/ RHandleLowerPacket \/ RHandleSelfMessage
RRadio == \/ RRadioHandleUpperPacket \/ REndTransmission
          \/ \E f \in Frames : RContinueReception(f) \/ REndReceptionIgnored(f) \/ REndReception(f)
RArrival == \E f \in Frames : RStartReception(f)
RTick == Tick /\ UNCHANGED stateVars

RNext == RMac \/ RRadio \/ RArrival \/ RTick

RSpec == RInit /\ [][RNext]_rvars

-----------------------------------------------------------------------------
(***************************************************************************)
(* LoRaMac's copies agree with the radio on the values receiveSignal tests *)
(* (RECEIVING, TRANSMITTING) whenever no handler is running, although      *)
(* nested calls leave them stale otherwise (receptionState = new after the *)
(* nested setRadioMode(SLEEP) stored UNDEFINED).                           *)
(***************************************************************************)
CopiesAgree ==
    /\ macReceptionState = "RECEIVING" <=> receptionState = "RECEIVING"
    /\ macTransmissionState = "TRANSMITTING" <=> transmissionState = "TRANSMITTING"

\* The handlers with their nested calls implement the atomic handlers of LoRaMac.
ImplementsLoRaMac == Spec
=============================================================================
