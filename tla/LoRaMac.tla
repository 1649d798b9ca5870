------------------------------ MODULE LoRaMac ------------------------------
(***************************************************************************)
(* The link layer of an end device with two receive windows after each     *)
(* frame it sends: the MAC state machine of LoRa/LoRaMac.cc driving the    *)
(* half-duplex radio of LoRa/LoRaRadio.cc.                                 *)
(*                                                                         *)
(* The two modules call each other synchronously: changing the radio mode  *)
(* makes the radio emit receptionStateChanged, the MAC handles that signal *)
(* with handleWithFsm, whose entry code changes the radio mode again.      *)
(* Every action below is a whole handler with that cascade run to its end; *)
(* LoRaMacReentrant spells the nested calls out and implements this module. *)
(*                                                                         *)
(* Time is a set of countdowns.  Tick lowers all of them by one unit and is *)
(* disabled while an event of the current instant is pending, so events of *)
(* one instant happen in any order.                                        *)
(***************************************************************************)
EXTENDS Integers, Sequences

CONSTANTS
    Frames,                  \* frames that can be on the air at this node at once
    AirTimes,                \* durations of a frame heard, or of one part of it
    UplinkAirTime,           \* duration of a frame this node sends
    waitDelay1Time, listening1Time, waitDelay2Time, listening2Time,
    MinGap, MaxGap,          \* bounds on SimpleLoRaApp's timeToNextPacket
    numberOfPacketsToSend,   \* SimpleLoRaApp's parameter, never 0 here: a bound
    separateReceptionParts,  \* LoRaRadio's parameter
    NoFrame                  \* the null receptionTimer

Off == -1                    \* a timer that is not scheduled

ASSUME FramesAssumption == NoFrame \notin Frames
ASSUME TimesAssumption ==
    /\ AirTimes \subseteq Nat \ {0}
    /\ UplinkAirTime \in Nat \ {0}
    /\ waitDelay1Time \in Nat \ {0} /\ listening1Time \in Nat \ {0}
    /\ waitDelay2Time \in Nat \ {0} /\ listening2Time \in Nat \ {0}
    /\ MinGap \in Nat \ {0} /\ MaxGap \in Nat /\ MinGap <= MaxGap
ASSUME ParametersAssumption ==
    /\ numberOfPacketsToSend \in Nat \ {0}
    /\ separateReceptionParts \in BOOLEAN

VARIABLES
    fsm,             \* LoRaMac::fsm
    endDelay_1, endListening_1, endDelay_2, endListening_2,
                     \* time until the self message fires, or Off
    transmissionQueue, sequenceNumber, numSent, numReceived,
    radioMode,       \* LoRaRadio::radioMode
    receptionTimer,  \* the frame being received, or NoFrame
    transmissionTimer, \* time until the transmission ends, or Off
    air,             \* per frame: time until its reception timer fires, or Off
    part,            \* per frame: the kind of its reception timer
    receiver,        \* per frame: whom it is for, "us" or "other"
    down,            \* the frame on its way from the MAC to the radio
    up,              \* the frame on its way from the radio to the MAC
    nextPacket,      \* time until the application sends, or Off
    aborted          \* the simulation stopped with an error

macVars   == <<fsm, transmissionQueue, sequenceNumber, numSent, numReceived>>
timerVars == <<endDelay_1, endListening_1, endDelay_2, endListening_2>>
radioVars == <<radioMode, receptionTimer, transmissionTimer>>
frameVars == <<air, part, receiver>>
linkVars  == <<down, up>>
vars == <<macVars, timerVars, radioVars, frameVars, linkVars, nextPacket, aborted>>

MacStates == {"IDLE", "TRANSMIT", "WAIT_DELAY_1", "LISTENING_1", "RECEIVING_1",
              "WAIT_DELAY_2", "LISTENING_2", "RECEIVING_2"}
RadioModes == {"SLEEP", "RECEIVER", "TRANSMITTER"}
Receivers == {"us", "other"}
Parts == {"WHOLE", "PREAMBLE", "HEADER", "DATA"}
NextPart == [PREAMBLE |-> "HEADER", HEADER |-> "DATA"]

Scheduled(timer) == timer # Off

-----------------------------------------------------------------------------
Init ==
    /\ fsm = "IDLE"
    /\ endDelay_1 = Off /\ endListening_1 = Off /\ endDelay_2 = Off /\ endListening_2 = Off
    /\ transmissionQueue = <<>> /\ sequenceNumber = 0 /\ numSent = 0 /\ numReceived = 0
    /\ radioMode = "SLEEP" /\ receptionTimer = NoFrame /\ transmissionTimer = Off
    /\ air = [f \in Frames |-> Off]
    /\ part = [f \in Frames |-> "WHOLE"]
    /\ receiver = [f \in Frames |-> "other"]
    /\ down = <<>> /\ up = <<>>
    /\ nextPacket \in MinGap..MaxGap
    /\ aborted = FALSE

(***************************************************************************)
(* What the state machine settles in when it enters a state whose entry    *)
(* code changes the radio mode.  The mode change comes back as             *)
(* mediumStateChange, and a state whose own timer has already fired is     *)
(* left at once: `msg == endX || endX->isScheduled() == false'.  The       *)
(* arguments say which timers are still scheduled.                         *)
(***************************************************************************)
EnterListening_2Stays(l2) == "LISTENING_2"
EnterListening_2(l2) == IF l2 THEN "LISTENING_2" ELSE "IDLE"
EnterWaitDelay_2(d2, l2) == IF d2 THEN "WAIT_DELAY_2" ELSE EnterListening_2(l2)
EnterListening_1Stays(l1, d2, l2) == "LISTENING_1"
EnterListening_1(l1, d2, l2) == IF l1 THEN "LISTENING_1" ELSE EnterWaitDelay_2(d2, l2)

\* The listening state that a reception which ended without a frame for us goes back to.
BackToListening ==
    IF fsm = "RECEIVING_1"
    THEN EnterListening_1(Scheduled(endListening_1), Scheduled(endDelay_2), Scheduled(endListening_2))
    ELSE EnterListening_2(Scheduled(endListening_2))

\* The radio mode the entry code of a state sets: turnOnReceiver, turnOffReceiver.
EntryModeStaysOn(state) ==
    IF state \in {"LISTENING_1", "LISTENING_2", "WAIT_DELAY_2"} THEN "RECEIVER" ELSE "SLEEP"
EntryModeTransceiver(state) ==
    IF state \in {"LISTENING_1", "LISTENING_2"} THEN "TRANSCEIVER" ELSE "SLEEP"
EntryMode(state) ==
    IF state \in {"LISTENING_1", "LISTENING_2"} THEN "RECEIVER" ELSE "SLEEP"

\* LoRaMac::popTransmissionQueue.
PopNothing == transmissionQueue
PopTransmissionQueue == Tail(transmissionQueue)

(***************************************************************************)
(* LoRaMac::handleUpperPacket.  A packet that arrives when the state       *)
(* machine is not idle stops the simulation.  SimpleLoRaApp then draws the *)
(* time to its next packet.                                                *)
(***************************************************************************)
HandleUpperPacket ==
    /\ ~aborted /\ nextPacket = 0
    /\ \/ /\ fsm # "IDLE"
          /\ aborted' = TRUE
          /\ UNCHANGED <<macVars, radioVars, down, nextPacket>>
       \/ /\ fsm = "IDLE"
          /\ transmissionQueue' = Append(transmissionQueue, sequenceNumber)
          /\ sequenceNumber' = sequenceNumber + 1
          /\ fsm' = "TRANSMIT"
          /\ radioMode' = "TRANSMITTER"
          /\ down' = Append(down, Head(transmissionQueue'))
          /\ nextPacket' \in IF sequenceNumber' < numberOfPacketsToSend
                             THEN MinGap..MaxGap ELSE {Off}
          /\ UNCHANGED <<numSent, numReceived, receptionTimer, transmissionTimer, aborted>>
    /\ UNCHANGED <<timerVars, frameVars, up>>

\* LoRaRadio::handleUpperPacket: transmit, or drop the frame when not in transmitter mode.
RadioHandleUpperPacket ==
    /\ ~aborted /\ down # <<>>
    /\ down' = Tail(down)
    /\ transmissionTimer' = IF radioMode = "TRANSMITTER" /\ ~Scheduled(transmissionTimer)
                            THEN UplinkAirTime ELSE transmissionTimer
    /\ aborted' = (radioMode = "TRANSMITTER" /\ Scheduled(transmissionTimer))
    /\ UNCHANGED <<macVars, timerVars, radioMode, receptionTimer, frameVars, up, nextPacket>>

(***************************************************************************)
(* LoRaRadio::endTransmission: the radio leaves TRANSMITTING, the MAC's    *)
(* signal handler feeds endTransmission to the state machine, which        *)
(* schedules both receive windows (finishCurrentTransmission) and puts the *)
(* radio to sleep.                                                         *)
(***************************************************************************)
EndTransmission ==
    /\ ~aborted /\ transmissionTimer = 0
    /\ transmissionTimer' = Off
    /\ radioMode' = "SLEEP"
    /\ fsm' = "WAIT_DELAY_1"
    /\ endDelay_1' = waitDelay1Time
    /\ endListening_1' = waitDelay1Time + listening1Time
    /\ endDelay_2' = waitDelay1Time + listening1Time + waitDelay2Time
    /\ endListening_2' = waitDelay1Time + listening1Time + waitDelay2Time + listening2Time
    /\ transmissionQueue' = PopTransmissionQueue
    /\ numSent' = numSent + 1
    /\ UNCHANGED <<sequenceNumber, numReceived, receptionTimer, frameVars, linkVars,
                   nextPacket, aborted>>

\* LoRaMac::handleSelfMessage(endDelay_1): the first window opens.
FireEndDelay_1 ==
    /\ ~aborted /\ endDelay_1 = 0
    /\ endDelay_1' = Off
    /\ IF fsm = "WAIT_DELAY_1"
       THEN fsm' = EnterListening_1(Scheduled(endListening_1), Scheduled(endDelay_2),
                                    Scheduled(endListening_2))
            /\ radioMode' = EntryMode(fsm')
       ELSE UNCHANGED <<fsm, radioMode>>
    /\ UNCHANGED <<transmissionQueue, sequenceNumber, numSent, numReceived, endListening_1,
                   endDelay_2, endListening_2, receptionTimer, transmissionTimer, frameVars,
                   linkVars, nextPacket, aborted>>

\* LoRaMac::handleSelfMessage(endListening_1): the first window closes unless a frame is being received.
FireEndListening_1 ==
    /\ ~aborted /\ endListening_1 = 0
    /\ endListening_1' = Off
    /\ IF fsm = "LISTENING_1"
       THEN fsm' = EnterWaitDelay_2(Scheduled(endDelay_2), Scheduled(endListening_2))
            /\ radioMode' = EntryMode(fsm')
       ELSE UNCHANGED <<fsm, radioMode>>
    /\ UNCHANGED <<transmissionQueue, sequenceNumber, numSent, numReceived, endDelay_1,
                   endDelay_2, endListening_2, receptionTimer, transmissionTimer, frameVars,
                   linkVars, nextPacket, aborted>>

\* LoRaMac::handleSelfMessage(endDelay_2): the second window opens.
FireEndDelay_2 ==
    /\ ~aborted /\ endDelay_2 = 0
    /\ endDelay_2' = Off
    /\ IF fsm = "WAIT_DELAY_2"
       THEN fsm' = EnterListening_2(Scheduled(endListening_2))
            /\ radioMode' = EntryMode(fsm')
       ELSE UNCHANGED <<fsm, radioMode>>
    /\ UNCHANGED <<transmissionQueue, sequenceNumber, numSent, numReceived, endDelay_1,
                   endListening_1, endListening_2, receptionTimer, transmissionTimer, frameVars,
                   linkVars, nextPacket, aborted>>

\* LoRaMac::handleSelfMessage(endListening_2): the second window closes.
FireEndListening_2 ==
    /\ ~aborted /\ endListening_2 = 0
    /\ endListening_2' = Off
    /\ IF fsm = "LISTENING_2"
       THEN fsm' = "IDLE" /\ radioMode' = EntryMode(fsm')
       ELSE UNCHANGED <<fsm, radioMode>>
    /\ UNCHANGED <<transmissionQueue, sequenceNumber, numSent, numReceived, endDelay_1,
                   endListening_1, endDelay_2, receptionTimer, transmissionTimer, frameVars,
                   linkVars, nextPacket, aborted>>

-----------------------------------------------------------------------------
\* Listening_x-Receiving_x: the transition on mediumStateChange when the radio is RECEIVING.
OnReceivingMixedUp(state) ==
    IF state \in {"LISTENING_1", "LISTENING_2"} THEN "RECEIVING_2" ELSE state
OnReceiving(state) ==
    CASE state = "LISTENING_1" -> "RECEIVING_1"
      [] state = "LISTENING_2" -> "RECEIVING_2"
      [] OTHER -> state

(***************************************************************************)
(* LoRaRadio::handleLowerPacket and startReception.  A frame whose         *)
(* reception is attempted becomes the current one, also when another       *)
(* reception is in progress; the MAC sees RECEIVING and goes from          *)
(* LISTENING_x to RECEIVING_x.                                             *)
(***************************************************************************)
StartReception(f) ==
    /\ ~aborted /\ ~Scheduled(air[f])
    /\ \E d \in AirTimes, to \in Receivers, attempted \in BOOLEAN :
        /\ air' = [air EXCEPT ![f] = d]
        /\ receiver' = [receiver EXCEPT ![f] = to]
        /\ part' = [part EXCEPT ![f] = IF separateReceptionParts THEN "PREAMBLE" ELSE "WHOLE"]
        /\ IF radioMode = "RECEIVER" /\ attempted
           THEN receptionTimer' = f /\ fsm' = OnReceiving(fsm)
           ELSE UNCHANGED <<receptionTimer, fsm>>
    /\ UNCHANGED <<transmissionQueue, sequenceNumber, numSent, numReceived, timerVars, radioMode,
                   transmissionTimer, linkVars, nextPacket, aborted>>

(***************************************************************************)
(* LoRaRadio::continueReception, between two parts of a frame.  When the   *)
(* next part is not attempted the radio forgets the reception; the MAC     *)
(* puts the radio to sleep and stays where it is.                          *)
(***************************************************************************)
ContinueReception(f) ==
    /\ ~aborted /\ air[f] = 0 /\ part[f] \in {"PREAMBLE", "HEADER"}
    /\ part' = [part EXCEPT ![f] = NextPart[part[f]]]
    /\ \E d \in AirTimes : air' = [air EXCEPT ![f] = d]
    /\ \/ UNCHANGED <<receptionTimer, radioMode>>
       \/ /\ receptionTimer = f /\ radioMode = "RECEIVER"
          /\ receptionTimer' = NoFrame
          /\ radioMode' = "SLEEP"
    /\ UNCHANGED <<macVars, timerVars, transmissionTimer, receiver, linkVars, nextPacket, aborted>>

\* LoRaRadio::endReception of a frame that is not, or no longer, the current one.
EndReceptionIgnored(f) ==
    /\ ~aborted /\ air[f] = 0 /\ part[f] \in {"WHOLE", "DATA"}
    /\ ~(receptionTimer = f /\ radioMode = "RECEIVER")
    /\ air' = [air EXCEPT ![f] = Off]
    /\ UNCHANGED <<macVars, timerVars, radioVars, part, receiver, linkVars, nextPacket, aborted>>

(***************************************************************************)
(* LoRaRadio::endReception, successful: the frame is sent up, and the MAC, *)
(* told that the radio is no longer RECEIVING, puts it to sleep.           *)
(***************************************************************************)
EndReceptionSuccess(f) ==
    /\ ~aborted /\ air[f] = 0 /\ part[f] \in {"WHOLE", "DATA"}
    /\ receptionTimer = f /\ radioMode = "RECEIVER"
    /\ air' = [air EXCEPT ![f] = Off]
    /\ up' = Append(up, receiver[f])
    /\ receptionTimer' = NoFrame
    /\ radioMode' = "SLEEP"
    /\ UNCHANGED <<macVars, timerVars, transmissionTimer, part, receiver, down, nextPacket, aborted>>

\* LoRaRadio::endReception, unsuccessful: droppedPacket takes the MAC back to listening.
EndReceptionDropped(f) ==
    /\ ~aborted /\ air[f] = 0 /\ part[f] \in {"WHOLE", "DATA"}
    /\ receptionTimer = f /\ radioMode = "RECEIVER"
    /\ air' = [air EXCEPT ![f] = Off]
    /\ receptionTimer' = NoFrame
    /\ fsm' = BackToListening
    /\ radioMode' = EntryMode(fsm')
    /\ UNCHANGED <<transmissionQueue, sequenceNumber, numSent, numReceived, timerVars,
                   transmissionTimer, part, receiver, linkVars, nextPacket, aborted>>

\* Where RECEIVING_x goes with a frame: to IDLE if it is for us, else back to listening.
AfterFrameListens(to) == BackToListening
AfterFrame(to) == IF to = "us" THEN "IDLE" ELSE BackToListening

\* The cancelEvent calls of Receive-Unicast and Receive2-Unicast.
CancelLastTimer ==
    endListening_2' = Off /\ UNCHANGED <<endListening_1, endDelay_2>>
CancelTimers ==
    /\ endListening_2' = Off
    /\ IF fsm = "RECEIVING_1"
       THEN endListening_1' = Off /\ endDelay_2' = Off
       ELSE UNCHANGED <<endListening_1, endDelay_2>>

(***************************************************************************)
(* LoRaMac::handleLowerPacket.  Outside RECEIVING_x the frame is deleted.  *)
(* A frame for us goes to the application, ends the receive windows and    *)
(* cancels their timers; any other frame takes the MAC back to listening.  *)
(***************************************************************************)
HandleLowerPacket ==
    /\ ~aborted /\ up # <<>>
    /\ up' = Tail(up)
    /\ IF fsm \notin {"RECEIVING_1", "RECEIVING_2"}
       THEN UNCHANGED <<fsm, radioMode, numReceived, endListening_1, endDelay_2, endListening_2>>
       ELSE /\ fsm' = AfterFrame(Head(up))
            /\ radioMode' = EntryMode(fsm')
            /\ \/ /\ Head(up) = "us"
                  /\ numReceived' = numReceived + 1
                  /\ CancelTimers
               \/ /\ Head(up) # "us"
                  /\ UNCHANGED <<numReceived, endListening_1, endDelay_2, endListening_2>>
    /\ UNCHANGED <<transmissionQueue, sequenceNumber, numSent, endDelay_1, receptionTimer,
                   transmissionTimer, frameVars, down, nextPacket, aborted>>

-----------------------------------------------------------------------------
Countdown(timer) == IF Scheduled(timer) THEN timer - 1 ELSE Off

\* The simulation clock advances when no event of the current instant is left.
Tick ==
    /\ ~aborted /\ down = <<>> /\ up = <<>>
    /\ 0 \notin {nextPacket, transmissionTimer, endDelay_1, endListening_1, endDelay_2,
                 endListening_2}
    /\ \A f \in Frames : air[f] # 0
    /\ nextPacket' = Countdown(nextPacket)
    /\ transmissionTimer' = Countdown(transmissionTimer)
    /\ endDelay_1' = Countdown(endDelay_1)
    /\ endListening_1' = Countdown(endListening_1)
    /\ endDelay_2' = Countdown(endDelay_2)
    /\ endListening_2' = Countdown(endListening_2)
    /\ air' = [f \in Frames |-> Countdown(air[f])]
    /\ UNCHANGED <<macVars, radioMode, receptionTimer, part, receiver, linkVars, aborted>>

Mac == \/ HandleUpperPacket \/ HandleLowerPacket
       \/ FireEndDelay_1 \/ FireEndListening_1 \/ FireEndDelay_2 \/ FireEndListening_2

ReceptionTimerFires(f) ==
    \/ ContinueReception(f) \/ EndReceptionIgnored(f)
    \/ EndReceptionSuccess(f) \/ EndReceptionDropped(f)

Radio == \/ RadioHandleUpperPacket \/ EndTransmission
         \/ \E f \in Frames : ReceptionTimerFires(f)

Arrival == \E f \in Frames : StartReception(f)

Next == Mac \/ Radio \/ Arrival \/ Tick

(***************************************************************************)
(* The event loop of the simulation never stops while events are pending:  *)
(* the pending events of an instant are handled and then the clock         *)
(* advances.  Nothing is assumed about the frames that arrive.             *)
(***************************************************************************)
Fairness == WF_vars(Mac) /\ WF_vars(Radio) /\ WF_vars(Tick)

Spec == Init /\ [][Next]_vars
FairSpec == Spec /\ Fairness

-----------------------------------------------------------------------------
TimerValues(max) == {Off} \union (0..max)
RxWindows == waitDelay1Time + listening1Time + waitDelay2Time + listening2Time

\* Types of all variables.
TypeOK ==
    /\ fsm \in MacStates
    /\ endDelay_1 \in TimerValues(waitDelay1Time)
    /\ endListening_1 \in TimerValues(waitDelay1Time + listening1Time)
    /\ endDelay_2 \in TimerValues(waitDelay1Time + listening1Time + waitDelay2Time)
    /\ endListening_2 \in TimerValues(RxWindows)
    /\ transmissionQueue \in Seq(Nat)
    /\ sequenceNumber \in Nat /\ numSent \in Nat /\ numReceived \in Nat
    /\ radioMode \in RadioModes
    /\ receptionTimer \in Frames \union {NoFrame}
    /\ transmissionTimer \in TimerValues(UplinkAirTime)
    /\ air \in [Frames -> {Off} \union Nat]
    /\ part \in [Frames -> Parts]
    /\ receiver \in [Frames -> Receivers]
    /\ down \in Seq(Nat) /\ up \in Seq(Receivers)
    /\ nextPacket \in TimerValues(MaxGap)
    /\ aborted \in BOOLEAN

(***************************************************************************)
(* The radio follows the MAC: asleep when the MAC is idle or waits for a   *)
(* window, transmitting only in TRANSMIT, listening with no reception in   *)
(* LISTENING_x.  In RECEIVING_x either a reception timer that will fire is *)
(* current, or the radio sleeps and the frame is on its way up; only with  *)
(* receptions in parts can the radio have given the frame up.  This is     *)
(* what LoRaMac::receiveSignal and the entry code of the state machine     *)
(* have to achieve through their nested mode changes.                      *)
(***************************************************************************)
RadioFollowsMac ==
    /\ fsm \in {"IDLE", "WAIT_DELAY_1", "WAIT_DELAY_2"} =>
           radioMode = "SLEEP" /\ receptionTimer = NoFrame /\ up = <<>>
    /\ fsm = "TRANSMIT" =>
           radioMode = "TRANSMITTER" /\ receptionTimer = NoFrame /\ up = <<>>
    /\ fsm \in {"LISTENING_1", "LISTENING_2"} =>
           radioMode = "RECEIVER" /\ receptionTimer = NoFrame /\ up = <<>>
    /\ fsm \in {"RECEIVING_1", "RECEIVING_2"} =>
           \/ /\ radioMode = "RECEIVER" /\ up = <<>>
              /\ receptionTimer \in Frames /\ Scheduled(air[receptionTimer])
           \/ /\ radioMode = "SLEEP" /\ receptionTimer = NoFrame
              /\ up # <<>> => Len(up) = 1
              /\ up = <<>> => separateReceptionParts

(***************************************************************************)
(* The four window timers of finishCurrentTransmission against the state   *)
(* machine: none is left over when the MAC is idle or transmits, so that   *)
(* scheduleAt never meets a scheduled message, and each waiting or         *)
(* listening state still has the timer that ends it.                       *)
(***************************************************************************)
TimersFollowMac ==
    /\ fsm \in {"IDLE", "TRANSMIT"} =>
           ~Scheduled(endDelay_1) /\ ~Scheduled(endListening_1)
           /\ ~Scheduled(endDelay_2) /\ ~Scheduled(endListening_2)
    /\ fsm = "WAIT_DELAY_1" => Scheduled(endDelay_1)
    /\ fsm = "LISTENING_1" => Scheduled(endListening_1)
    /\ fsm = "WAIT_DELAY_2" => Scheduled(endDelay_2)
    /\ fsm = "LISTENING_2" => Scheduled(endListening_2)

(***************************************************************************)
(* A frame for us closes both windows, whatever other frames overlap it:   *)
(* the application has never got more downlinks than it has sent uplinks.  *)
(***************************************************************************)
OneDownlinkPerUplink == numReceived <= numSent

(***************************************************************************)
(* The queue holds exactly the frame being transmitted, the one handed     *)
(* down, so that getCurrentTransmission and the pop at the end of the      *)
(* transmission are about the same frame, and frames go out once and in    *)
(* the order of their sequence numbers.                                    *)
(***************************************************************************)
QueueIsCurrentTransmission ==
    /\ transmissionQueue = IF fsm = "TRANSMIT" THEN <<sequenceNumber - 1>> ELSE <<>>
    /\ numSent = sequenceNumber - Len(transmissionQueue)
    /\ down # <<>> => down = transmissionQueue /\ ~Scheduled(transmissionTimer)
    /\ fsm = "TRANSMIT" <=> (down # <<>> \/ Scheduled(transmissionTimer))

(***************************************************************************)
(* LoRaMac.cc:168, "Wrong, it should not happen": no packet of the         *)
(* application meets a MAC that is not idle, and no frame meets a radio    *)
(* that already transmits.                                                 *)
(***************************************************************************)
NeverAborts == ~aborted

(***************************************************************************)
(* Where a frame that the MAC takes comes from.  The radio begins a        *)
(* reception only in an open window, whose closing timer is pending and    *)
(* which the MAC leaves for RECEIVING_x, or during another reception,      *)
(* which then is never finished: LoRaRadio::startReception overwrites      *)
(* receptionTimer, in RECEIVING_x also after the window's timer has fired. *)
(* So the frame that ends the cycle began in a window or at the end of a   *)
(* chain of overlapping receptions of which the first did.                 *)
(***************************************************************************)
ReceptionBegins == receptionTimer' \notin {NoFrame, receptionTimer}
InReceiving == fsm \in {"RECEIVING_1", "RECEIVING_2"}

ChainStep ==
    /\ ReceptionBegins =>
           \/ fsm = "LISTENING_1" /\ Scheduled(endListening_1) /\ fsm' = "RECEIVING_1"
           \/ fsm = "LISTENING_2" /\ Scheduled(endListening_2) /\ fsm' = "RECEIVING_2"
           \/ InReceiving /\ receptionTimer # NoFrame /\ Scheduled(air[receptionTimer]) /\ fsm' = fsm
    /\ fsm' \in {"RECEIVING_1", "RECEIVING_2"} \ {fsm} => ReceptionBegins
    /\ numReceived' # numReceived => InReceiving /\ receptionTimer = NoFrame /\ fsm' = "IDLE"

ReceptionsChainFromWindow == [][ChainStep]_vars

\* Every cycle ends: a MAC that left IDLE for a transmission comes back to IDLE.
ReturnsToIdle == fsm # "IDLE" ~> fsm = "IDLE"
=============================================================================
