---------------------------- MODULE LoRaCascade ----------------------------
(***************************************************************************)
(* The synchronous calls between LoRaMac.cc and LoRaRadio.cc.              *)
(* setRadioMode, updateTransceiverState, receiveSignal and handleWithFsm   *)
(* call each other; here each is an operator from the state s of MAC and   *)
(* radio when it is called to the state when it returns.                   *)
(*                                                                         *)
(* The module is one level of that recursion: a call of setRadioMode from  *)
(* here is Nested, which an instance makes the SetRadioMode of the level   *)
(* below.  The fields of s are the variables of LoRaMacReentrant, channel  *)
(* (what isListeningPossible finds while the handler runs) and scheduled   *)
(* (the frames whose reception timer is scheduled).                        *)
(*                                                                         *)
(* The lemmas about one level follow its definitions here, so that every   *)
(* instance of the module has them (Level3!SettlesFrom): what a level does *)
(* follows from what the level below it does.                              *)
(***************************************************************************)
EXTENDS Integers, Sequences, TLAPS

CONSTANTS
    Off, NoFrame, UplinkAirTime,
    waitDelay1Time, listening1Time, waitDelay2Time, listening2Time,
    Nested(_, _)             \* setRadioMode, called from within this level

\* The FSMA_State blocks of handleWithFsm in the order of the source.
FsmStates == <<"IDLE", "TRANSMIT", "WAIT_DELAY_1", "LISTENING_1", "RECEIVING_1",
               "WAIT_DELAY_2", "LISTENING_2", "RECEIVING_2">>

\* The target of the first transition of handleWithFsm that msg enables, or the state itself.
Target(s, msg) ==
    CASE s.fsm = "IDLE" /\ msg = "upper" -> "TRANSMIT"
      [] s.fsm = "TRANSMIT" /\ msg = "endTransmission" -> "WAIT_DELAY_1"
      [] s.fsm = "WAIT_DELAY_1" /\ (msg = "endDelay_1" \/ s.d1 = Off) -> "LISTENING_1"
      [] s.fsm = "LISTENING_1" /\ (msg = "endListening_1" \/ s.l1 = Off) -> "WAIT_DELAY_2"
      [] s.fsm = "LISTENING_1" /\ msg = "mediumStateChange" /\ s.l1 # Off
             /\ s.rx = "RECEIVING" -> "RECEIVING_1"
      [] s.fsm = "RECEIVING_1" /\ msg \in {"lowerNotForUs", "droppedPacket"} -> "LISTENING_1"
      [] s.fsm \in {"RECEIVING_1", "RECEIVING_2"} /\ msg = "lowerForUs" -> "IDLE"
      [] s.fsm = "WAIT_DELAY_2" /\ (msg = "endDelay_2" \/ s.d2 = Off) -> "LISTENING_2"
      [] s.fsm = "LISTENING_2" /\ (msg = "endListening_2" \/ s.l2 = Off) -> "IDLE"
      [] s.fsm = "LISTENING_2" /\ msg = "mediumStateChange" /\ s.l2 # Off
             /\ s.rx = "RECEIVING" -> "RECEIVING_2"
      [] s.fsm = "RECEIVING_2" /\ msg \in {"lowerNotForUs", "droppedPacket"} -> "LISTENING_2"
      [] OTHER -> s.fsm

\* LoRaMac::finishCurrentTransmission; scheduleAt stops the simulation on a scheduled message.
FinishCurrentTransmission(s) ==
    [s EXCEPT !.d1 = waitDelay1Time,
              !.l1 = waitDelay1Time + listening1Time,
              !.d2 = waitDelay1Time + listening1Time + waitDelay2Time,
              !.l2 = waitDelay1Time + listening1Time + waitDelay2Time + listening2Time,
              !.queue = Tail(s.queue),
              !.error = \E t \in {s.d1, s.l1, s.d2, s.l2} : t # Off]

\* The statements of the transition taken on msg.
TransitionAction(s, msg) ==
    CASE s.fsm = "TRANSMIT" ->
            LET done == FinishCurrentTransmission(s) IN [done EXCEPT !.sent = s.sent + 1]
      [] s.fsm = "RECEIVING_1" /\ msg = "lowerForUs" ->
            [s EXCEPT !.received = @ + 1, !.l1 = Off, !.d2 = Off, !.l2 = Off]
      [] s.fsm = "RECEIVING_2" /\ msg = "lowerForUs" ->
            [s EXCEPT !.received = @ + 1, !.l2 = Off]
      [] OTHER -> s

\* FSMA_Enter of a state: turnOffReceiver, sendDataFrame, turnOnReceiver.
Enter(s) ==
    CASE s.fsm \in {"IDLE", "WAIT_DELAY_1", "WAIT_DELAY_2"} -> Nested(s, "SLEEP")
      [] s.fsm \in {"LISTENING_1", "LISTENING_2"} -> Nested(s, "RECEIVER")
      [] s.fsm = "TRANSMIT" ->
            LET on == Nested(s, "TRANSMITTER")
            IN  [on EXCEPT !.down = Append(@, Head(on.queue))]
      [] OTHER -> s

(***************************************************************************)
(* LoRaMac::handleWithFsm under the macros of common/FSMA.h.  The event    *)
(* fires at most one transition; the loop then passes once more over the   *)
(* blocks of the states in source order and runs the entry code of each    *)
(* block whose state is current when it is reached, which a nested call    *)
(* may have changed.                                                       *)
(***************************************************************************)
Block(s, i) == IF s.fsm = FsmStates[i] THEN Enter(s) ELSE s

Transition(s, msg) == [TransitionAction(s, msg) EXCEPT !.fsm = Target(s, msg)]

HandleWithFsm(s, msg) ==
    IF Target(s, msg) = s.fsm THEN s
    ELSE Block(Block(Block(Block(Block(Block(Block(Block(
             Transition(s, msg), 1), 2), 3), 4), 5), 6), 7), 8)

-----------------------------------------------------------------------------
\* LoRaMac::receiveSignal(receptionStateChangedSignal)
ReceptionStateNotStored(s, value) ==
    HandleWithFsm(IF s.macRx = "RECEIVING" THEN Nested(s, "SLEEP") ELSE s, "mediumStateChange")
ReceptionStateChanged(s, value) ==
    LET asleep == IF s.macRx = "RECEIVING" THEN Nested(s, "SLEEP") ELSE s
    IN  HandleWithFsm([asleep EXCEPT !.macRx = value], "mediumStateChange")

\* LoRaMac::receiveSignal(droppedPacket)
DroppedPacketAwake(s) == HandleWithFsm(s, "droppedPacket")
DroppedPacket(s) == HandleWithFsm(Nested(s, "SLEEP"), "droppedPacket")

\* LoRaMac::receiveSignal(transmissionStateChangedSignal)
TransmissionStateChanged(s, value) ==
    LET ended == IF s.macTx = "TRANSMITTING" /\ value = "IDLE"
                 THEN Nested(HandleWithFsm(s, "endTransmission"), "SLEEP")
                 ELSE s
    IN  [ended EXCEPT !.macTx = value]

\* LoRaRadio::updateTransceiverState
ReceptionStateOf(s) ==
    IF s.mode # "RECEIVER" THEN "UNDEFINED"
    ELSE IF s.rxTimer \in s.scheduled THEN "RECEIVING" ELSE s.channel
TransmissionStateOf(s) ==
    IF s.mode # "TRANSMITTER" THEN "UNDEFINED"
    ELSE IF s.txTimer # Off THEN "TRANSMITTING" ELSE "IDLE"

UpdateReceptionState(s) ==
    LET rx == ReceptionStateOf(s)
    IN  IF s.rx # rx THEN ReceptionStateChanged([s EXCEPT !.rx = rx], rx) ELSE s
UpdateTransmissionState(s) ==
    LET tx == TransmissionStateOf(s)
    IN  IF s.tx # tx THEN TransmissionStateChanged([s EXCEPT !.tx = tx], tx) ELSE s
UpdateTransceiverState(s) == UpdateTransmissionState(UpdateReceptionState(s))

\* LoRaRadio::abortReception, abortTransmission
AbortReception(s) == UpdateTransceiverState([s EXCEPT !.rxTimer = NoFrame])
AbortTransmission(s) == UpdateTransceiverState([s EXCEPT !.txTimer = Off])

\* LoRaRadio::completeRadioModeSwitch
StopReception(s, mode) ==
    IF mode # "RECEIVER" /\ s.rxTimer # NoFrame THEN AbortReception(s) ELSE s
StopTransmission(s, mode) ==
    IF mode # "TRANSMITTER" /\ s.txTimer # Off THEN AbortTransmission(s) ELSE s
CompleteRadioModeSwitch(s, mode) ==
    UpdateTransceiverState([StopTransmission(StopReception(s, mode), mode) EXCEPT !.mode = mode])

\* LoRaRadio::setRadioMode with the default switching times, all 0
SetRadioMode(s, mode) == IF mode = s.mode THEN s ELSE CompleteRadioModeSwitch(s, mode)

-----------------------------------------------------------------------------
(***************************************************************************)
(* What the calls return when the radio is quiet: neither receiving nor    *)
(* transmitting, its states those of its mode (the channel may have        *)
(* changed since the last update), and LoRaMac's copies not those of a     *)
(* reception or of a transmission that is over.                            *)
(***************************************************************************)
Fields == {"fsm", "d1", "l1", "d2", "l2", "queue", "sent", "received", "down", "mode", "rxTimer",
           "txTimer", "rx", "tx", "macRx", "macTx", "channel", "scheduled", "error"}

IsState(s) == DOMAIN s = Fields

Quiet(s) ==
    /\ IsState(s)
    /\ s.mode \in {"SLEEP", "RECEIVER", "TRANSMITTER"}
    /\ s.channel \in {"IDLE", "BUSY"}
    /\ s.rxTimer = NoFrame /\ NoFrame \notin s.scheduled /\ s.txTimer = Off
    /\ s.rx \in IF s.mode = "RECEIVER" THEN {"IDLE", "BUSY"} ELSE {"UNDEFINED"}
    /\ s.tx = TransmissionStateOf(s)
    /\ s.macRx # "RECEIVING" /\ (s.macTx = "TRANSMITTING" => s.mode = "TRANSMITTER")

\* The fields no change of the radio mode touches.
Same(s, u) ==
    /\ u.d1 = s.d1 /\ u.l1 = s.l1 /\ u.d2 = s.d2 /\ u.l2 = s.l2
    /\ u.queue = s.queue /\ u.sent = s.sent /\ u.received = s.received /\ u.down = s.down
    /\ u.channel = s.channel /\ u.scheduled = s.scheduled /\ u.error = s.error

\* The mode the entry code of a state sets.
ModeIn(state) == IF state \in {"LISTENING_1", "LISTENING_2"} THEN "RECEIVER" ELSE "SLEEP"

\* Entering the block of one state is all a transition does, unless the state it leads to has
\* another block further down that does something.
LEMMA OneBlock ==
    ASSUME NEW s, NEW msg, NEW s0, NEW u,
           Target(s, msg) # s.fsm, s0 = Transition(s, msg),
           \E i \in 1..8 : s0.fsm = FsmStates[i],
           u = Enter(s0), u.fsm = s0.fsm \/ Enter(u) = u
    PROVE  HandleWithFsm(s, msg) = u
<1>1. PICK k \in 1..8 : s0.fsm = FsmStates[k] OBVIOUS
<1>2. \A i, j \in 1..8 : FsmStates[i] = FsmStates[j] => i = j BY DEF FsmStates
<1>3. \A i \in 1..8 : i # k => Block(s0, i) = s0 BY <1>1, <1>2 DEF Block
<1>4. Block(s0, k) = u BY <1>1 DEF Block
<1>5. \A i \in 1..8 : i # k => Block(u, i) = u BY <1>1, <1>2 DEF Block
<1>6. Block(Block(Block(Block(Block(Block(Block(Block(s0, 1), 2), 3), 4), 5), 6), 7), 8) = u
  <2> HIDE DEF Block
  <2> QED BY <1>3, <1>4, <1>5
<1> QED BY <1>6 DEF HandleWithFsm

LEMMA OneBlockStays ==
    ASSUME NEW s, NEW msg, NEW s0,
           Target(s, msg) # s.fsm, s0 = Transition(s, msg),
           \E i \in 1..8 : s0.fsm = FsmStates[i], Enter(s0).fsm = s0.fsm
    PROVE  HandleWithFsm(s, msg) = Enter(s0)
<1> DEFINE u == Enter(s0)
<1>1. u.fsm = s0.fsm \/ Enter(u) = u OBVIOUS
<1>2. u = Enter(s0) OBVIOUS
<1> HIDE DEF u
<1>3. HandleWithFsm(s, msg) = u BY <1>1, <1>2, OneBlock
<1> QED BY <1>2, <1>3

LEMMA QuietUpdate ==
    ASSUME NEW s, s.rx = ReceptionStateOf(s), s.tx = TransmissionStateOf(s)
    PROVE  UpdateTransceiverState(s) = s
BY DEF UpdateTransceiverState, UpdateReceptionState, UpdateTransmissionState

\* A change between sleeping and listening: the radio tells LoRaMac, and all the rest is handleWithFsm.
LEMMA ModeChange ==
    ASSUME NEW s, Quiet(s), NEW mode \in {"SLEEP", "RECEIVER"}, s.mode \in {"SLEEP", "RECEIVER"} \ {mode}
    PROVE  \E told : /\ Quiet(told) /\ Same(s, told) /\ told.fsm = s.fsm /\ told.mode = mode
                     /\ Quiet(HandleWithFsm(told, "mediumStateChange")) =>
                            SetRadioMode(s, mode) = HandleWithFsm(told, "mediumStateChange")
<1> DEFINE m == [s EXCEPT !.mode = mode]
           rx == ReceptionStateOf(m)
           told == [[m EXCEPT !.rx = rx] EXCEPT !.macRx = rx]
<1>1. /\ IsState(m) /\ m.mode = mode /\ m.rx = s.rx /\ m.tx = s.tx /\ m.macRx = s.macRx
      /\ m.rxTimer = NoFrame /\ NoFrame \notin m.scheduled /\ m.channel = s.channel
  BY DEF Quiet, IsState, Fields
<1>2. rx = (IF mode = "RECEIVER" THEN s.channel ELSE "UNDEFINED") /\ m.rx # rx
  BY <1>1 DEF Quiet, ReceptionStateOf
<1>3. /\ IsState(told) /\ told.fsm = s.fsm /\ told.mode = mode /\ told.rx = rx /\ told.macRx = rx
      /\ told.tx = s.tx /\ told.macTx = s.macTx /\ told.rxTimer = s.rxTimer /\ told.txTimer = s.txTimer
  BY DEF Quiet, IsState, Fields
<1>4. Same(s, told) BY DEF Quiet, IsState, Fields, Same
<1> HIDE DEF told
<1>5. Quiet(told)
  BY <1>2, <1>3, <1>4 DEF Quiet, Same, ReceptionStateOf, TransmissionStateOf
<1>6. UpdateReceptionState(m) = HandleWithFsm(told, "mediumStateChange")
  BY <1>1, <1>2 DEF UpdateReceptionState, ReceptionStateChanged, Quiet, told, IsState, Fields
<1>7. SetRadioMode(s, mode) = UpdateTransceiverState(m)
  BY DEF SetRadioMode, CompleteRadioModeSwitch, StopReception, StopTransmission, Quiet
<1>8. ASSUME Quiet(HandleWithFsm(told, "mediumStateChange"))
      PROVE  SetRadioMode(s, mode) = HandleWithFsm(told, "mediumStateChange")
  BY <1>6, <1>7, <1>8 DEF UpdateTransceiverState, UpdateTransmissionState, Quiet
<1> QED BY <1>3, <1>4, <1>5, <1>8

-----------------------------------------------------------------------------
(***************************************************************************)
(* Where the state machine settles when the entry code of its state        *)
(* changes the radio mode: the change comes back as mediumStateChange, and *)
(* a state whose own timer is spent is left at once.                       *)
(***************************************************************************)
SettledLast(s) == IF s.l2 # Off THEN "LISTENING_2" ELSE "IDLE"
SettledBetween(s) == IF s.d2 # Off THEN "WAIT_DELAY_2" ELSE SettledLast(s)
SettledFirst(s) == IF s.l1 # Off THEN "LISTENING_1" ELSE SettledBetween(s)
Settled(s) ==
    CASE s.fsm = "LISTENING_1" -> SettledFirst(s)
      [] s.fsm = "WAIT_DELAY_2" -> SettledBetween(s)
      [] s.fsm = "LISTENING_2" -> SettledLast(s)
      [] OTHER -> s.fsm

Settles(s, u) == Quiet(u) /\ Same(s, u) /\ u.fsm = Settled(s) /\ u.mode = ModeIn(u.fsm)

\* The entry code of the state changes the mode.
Entering(s) ==
    /\ Quiet(s) /\ s.mode \in {"SLEEP", "RECEIVER"} /\ s.mode # ModeIn(s.fsm)
    /\ s.fsm \in {"IDLE", "WAIT_DELAY_1", "LISTENING_1", "WAIT_DELAY_2", "LISTENING_2"}
    /\ s.fsm = "WAIT_DELAY_1" => s.d1 # Off

NestedIdles == \A s, mode : s.mode = mode => Nested(s, mode) = s
NestedSettles(states) == \A s : Entering(s) /\ s.fsm \in states => Settles(s, Nested(s, ModeIn(s.fsm)))

LEMMA SettlesAtOnce ==
    ASSUME NEW s, Entering(s), Settled(s) = s.fsm
    PROVE  Settles(s, SetRadioMode(s, ModeIn(s.fsm)))
<1>1. ModeIn(s.fsm) \in {"SLEEP", "RECEIVER"} BY DEF ModeIn
<1>2. PICK told : /\ Quiet(told) /\ Same(s, told) /\ told.fsm = s.fsm /\ told.mode = ModeIn(s.fsm)
                  /\ Quiet(HandleWithFsm(told, "mediumStateChange")) =>
                         SetRadioMode(s, ModeIn(s.fsm)) = HandleWithFsm(told, "mediumStateChange")
  BY <1>1, ModeChange DEF Entering
<1>3. Target(told, "mediumStateChange") = told.fsm
  <2>1. told.rx # "RECEIVING" BY <1>2 DEF Quiet, ReceptionStateOf
  <2> QED BY <1>2, <2>1 DEF Target, Entering, Same, Settled, SettledFirst, SettledBetween, SettledLast
<1>4. HandleWithFsm(told, "mediumStateChange") = told BY <1>3 DEF HandleWithFsm
<1> QED BY <1>2, <1>4 DEF Settles

\* A transition whose target's entry code changes the mode settles where the nested call does.
LEMMA EntryCode ==
    ASSUME NestedIdles, NEW s, NEW msg, NEW s0,
           Target(s, msg) # s.fsm, s0 = Transition(s, msg),
           Entering(s0), NestedSettles({s0.fsm})
    PROVE  Settles(s0, HandleWithFsm(s, msg))
<1> DEFINE u == Nested(s0, ModeIn(s0.fsm))
<1>1. Settles(s0, u) BY DEF NestedSettles
<1>2. Enter(s0) = u BY DEF Enter, ModeIn, Entering
<1>3. u.fsm \in {"IDLE", "WAIT_DELAY_1", "LISTENING_1", "WAIT_DELAY_2", "LISTENING_2"}
  BY <1>1 DEF Settles, Entering, Settled, SettledFirst, SettledBetween, SettledLast
<1> HIDE DEF u
<1>4. Enter(u) = u BY <1>1, <1>3 DEF Enter, NestedIdles, Settles, ModeIn
<1>5. \E i \in 1..8 : s0.fsm = FsmStates[i]
  <2>1. /\ FsmStates[1] = "IDLE" /\ FsmStates[3] = "WAIT_DELAY_1" /\ FsmStates[4] = "LISTENING_1"
        /\ FsmStates[6] = "WAIT_DELAY_2" /\ FsmStates[7] = "LISTENING_2"
    BY DEF FsmStates
  <2> QED BY <2>1 DEF Entering
<1>6. HandleWithFsm(s, msg) = u
  <2>1. u = Enter(s0) BY <1>2
  <2> QED BY <1>4, <1>5, <2>1, OneBlock
<1> QED BY <1>1, <1>6

LEMMA Moves ==
    ASSUME NestedIdles, NEW s, Quiet(s), s.mode \in {"SLEEP", "RECEIVER"}, NEW msg,
           NEW next \in {"IDLE", "LISTENING_1", "WAIT_DELAY_2", "LISTENING_2"},
           Target(s, msg) = next, next # s.fsm, TransitionAction(s, msg) = s,
           s.mode # ModeIn(next), NestedSettles({next})
    PROVE  LET u == HandleWithFsm(s, msg)
           IN  /\ Quiet(u) /\ Same(s, u) /\ u.mode = ModeIn(u.fsm)
               /\ u.fsm = CASE next = "LISTENING_1" -> SettledFirst(s)
                            [] next = "WAIT_DELAY_2" -> SettledBetween(s)
                            [] next = "LISTENING_2" -> SettledLast(s)
                            [] OTHER -> "IDLE"
<1> DEFINE s0 == [s EXCEPT !.fsm = next]
<1>1. s0 = Transition(s, msg) BY DEF Transition
<1>2. Quiet(s0) /\ Same(s, s0) /\ s0.fsm = next /\ s0.mode = s.mode
  BY DEF Quiet, IsState, Fields, Same, TransmissionStateOf
<1> HIDE DEF s0
<1>3. Entering(s0) BY <1>2 DEF Entering
<1>4. Settles(s0, HandleWithFsm(s, msg))
  <2>1. Target(s, msg) # s.fsm OBVIOUS
  <2>2. NestedSettles({s0.fsm}) BY <1>2
  <2> QED BY <1>1, <1>3, <2>1, <2>2, EntryCode
<1> QED
  BY <1>2, <1>4 DEF Settles, Settled, SettledFirst, SettledBetween, SettledLast, Same

LEMMA SettlesBelow ==
    ASSUME NestedIdles, NEW s, Entering(s), Settled(s) # s.fsm,
           NEW next, next = CASE s.fsm = "LISTENING_1" -> "WAIT_DELAY_2"
                              [] s.fsm = "WAIT_DELAY_2" -> "LISTENING_2"
                              [] OTHER -> "IDLE",
           NestedSettles({next})
    PROVE  Settles(s, SetRadioMode(s, ModeIn(s.fsm)))
<1>1. ModeIn(s.fsm) \in {"SLEEP", "RECEIVER"} BY DEF ModeIn
<1>2. PICK told : /\ Quiet(told) /\ Same(s, told) /\ told.fsm = s.fsm /\ told.mode = ModeIn(s.fsm)
                  /\ Quiet(HandleWithFsm(told, "mediumStateChange")) =>
                         SetRadioMode(s, ModeIn(s.fsm)) = HandleWithFsm(told, "mediumStateChange")
  BY <1>1, ModeChange DEF Entering
<1>3. s.fsm \in {"LISTENING_1", "WAIT_DELAY_2", "LISTENING_2"}
  BY DEF Entering, Settled
<1>4. Target(told, "mediumStateChange") = next /\ next # told.fsm
  BY <1>2, <1>3 DEF Target, Same, Settled, SettledFirst, SettledBetween, SettledLast
<1>5. TransitionAction(told, "mediumStateChange") = told
  BY <1>2, <1>3 DEF TransitionAction
<1>6. /\ next \in {"IDLE", "LISTENING_1", "WAIT_DELAY_2", "LISTENING_2"} /\ told.mode # ModeIn(next)
      /\ told.mode \in {"SLEEP", "RECEIVER"}
  BY <1>1, <1>2, <1>3 DEF ModeIn
<1> DEFINE u == HandleWithFsm(told, "mediumStateChange")
<1>7. /\ Quiet(u) /\ Same(told, u) /\ u.mode = ModeIn(u.fsm)
      /\ u.fsm = CASE next = "LISTENING_1" -> SettledFirst(told)
                   [] next = "WAIT_DELAY_2" -> SettledBetween(told)
                   [] next = "LISTENING_2" -> SettledLast(told)
                   [] OTHER -> "IDLE"
  BY <1>2, <1>4, <1>5, <1>6, Moves
<1>8. u.fsm = Settled(s)
  BY <1>2, <1>3, <1>7 DEF Same, Settled, SettledFirst, SettledBetween, SettledLast
<1> QED BY <1>2, <1>7, <1>8 DEF Settles, Same

LEMMA SettlesFrom ==
    /\ \A s, mode : s.mode = mode => SetRadioMode(s, mode) = s
    /\ \A s : Entering(s) /\ s.fsm \in {"IDLE", "WAIT_DELAY_1"} => Settles(s, SetRadioMode(s, ModeIn(s.fsm)))
    /\ NestedIdles /\ NestedSettles({"IDLE"}) =>
           \A s : Entering(s) /\ s.fsm = "LISTENING_2" => Settles(s, SetRadioMode(s, ModeIn(s.fsm)))
    /\ NestedIdles /\ NestedSettles({"LISTENING_2"}) =>
           \A s : Entering(s) /\ s.fsm = "WAIT_DELAY_2" => Settles(s, SetRadioMode(s, ModeIn(s.fsm)))
    /\ NestedIdles /\ NestedSettles({"WAIT_DELAY_2"}) =>
           \A s : Entering(s) /\ s.fsm = "LISTENING_1" => Settles(s, SetRadioMode(s, ModeIn(s.fsm)))
<1>1. \A s, mode : s.mode = mode => SetRadioMode(s, mode) = s BY DEF SetRadioMode
<1>2. \A s : Entering(s) /\ s.fsm \in {"IDLE", "WAIT_DELAY_1"} => Settles(s, SetRadioMode(s, ModeIn(s.fsm)))
  BY SettlesAtOnce DEF Settled
<1>3. ASSUME NestedIdles, NestedSettles({"IDLE"}), NEW s, Entering(s), s.fsm = "LISTENING_2"
      PROVE  Settles(s, SetRadioMode(s, ModeIn(s.fsm)))
  BY <1>3, SettlesAtOnce, SettlesBelow
<1>4. ASSUME NestedIdles, NestedSettles({"LISTENING_2"}), NEW s, Entering(s), s.fsm = "WAIT_DELAY_2"
      PROVE  Settles(s, SetRadioMode(s, ModeIn(s.fsm)))
  BY <1>4, SettlesAtOnce, SettlesBelow
<1>5. ASSUME NestedIdles, NestedSettles({"WAIT_DELAY_2"}), NEW s, Entering(s), s.fsm = "LISTENING_1"
      PROVE  Settles(s, SetRadioMode(s, ModeIn(s.fsm)))
  BY <1>5, SettlesAtOnce, SettlesBelow
<1> QED BY <1>1, <1>2, <1>3, <1>4, <1>5

-----------------------------------------------------------------------------
(***************************************************************************)
(* The end of a reception: LoRaMac, whose copy is still RECEIVING, puts    *)
(* the radio to sleep from within the signal that tells it so.             *)
(***************************************************************************)
Receiving(s) ==
    /\ IsState(s) /\ s.mode = "RECEIVER" /\ s.channel \in {"IDLE", "BUSY"}
    /\ NoFrame \notin s.scheduled /\ s.txTimer = Off /\ s.tx = "UNDEFINED"
    /\ s.macTx # "TRANSMITTING" /\ s.macRx = "RECEIVING"
    /\ s.fsm \in {"RECEIVING_1", "RECEIVING_2"}

Asleep(s, u) == Quiet(u) /\ Same(s, u) /\ u.fsm = s.fsm /\ u.mode = "SLEEP"

\* The reception is over for the radio, not for LoRaMac.
Ended(s) == Receiving(s) /\ s.rxTimer = NoFrame /\ s.rx \in {"IDLE", "BUSY"}
NestedSleeps == \A s : Ended(s) => Asleep(s, Nested(s, "SLEEP"))

LEMMA SleepsWhenEnded ==
    ASSUME NestedIdles, NEW s, Ended(s)
    PROVE  Asleep(s, SetRadioMode(s, "SLEEP"))
<1> DEFINE m == [[s EXCEPT !.mode = "SLEEP"] EXCEPT !.rx = "UNDEFINED"]
           u == [m EXCEPT !.macRx = "UNDEFINED"]
<1>1. /\ IsState(u) /\ u.mode = "SLEEP" /\ u.rx = "UNDEFINED" /\ u.macRx = "UNDEFINED" /\ u.tx = "UNDEFINED"
      /\ u.rxTimer = NoFrame /\ u.txTimer = Off /\ u.macTx = s.macTx /\ u.fsm = s.fsm
  BY DEF Ended, Receiving, IsState, Fields
<1>2. Same(s, u) BY DEF Ended, Receiving, IsState, Fields, Same
<1>3. Asleep(s, u)
  BY <1>1, <1>2 DEF Asleep, Quiet, Same, Ended, Receiving, ReceptionStateOf, TransmissionStateOf
<1>4. Nested(m, "SLEEP") = m /\ m.macRx = "RECEIVING"
  BY DEF NestedIdles, Ended, Receiving, IsState, Fields
<1> HIDE DEF u
<1>5. HandleWithFsm(u, "mediumStateChange") = u
  BY <1>1 DEF HandleWithFsm, Target, Ended, Receiving
<1>6. UpdateReceptionState([s EXCEPT !.mode = "SLEEP"]) = u
  <2>1. /\ ReceptionStateOf([s EXCEPT !.mode = "SLEEP"]) = "UNDEFINED"
        /\ [s EXCEPT !.mode = "SLEEP"].rx # "UNDEFINED"
    BY DEF ReceptionStateOf, Ended, Receiving, IsState, Fields
  <2>2. ReceptionStateChanged(m, "UNDEFINED") = u
    BY <1>4, <1>5 DEF ReceptionStateChanged, u
  <2> QED BY <2>1, <2>2 DEF UpdateReceptionState
<1>7. UpdateTransmissionState(u) = u BY <1>1 DEF UpdateTransmissionState, TransmissionStateOf
<1>8. SetRadioMode(s, "SLEEP") = UpdateTransceiverState([s EXCEPT !.mode = "SLEEP"])
  BY DEF SetRadioMode, CompleteRadioModeSwitch, StopReception, StopTransmission, Ended, Receiving
<1> QED BY <1>3, <1>6, <1>7, <1>8 DEF UpdateTransceiverState

\* LoRaRadio forgets the reception and updates its state.
LEMMA ReceptionEnds ==
    ASSUME NestedSleeps, NEW s, Receiving(s), s.rxTimer = NoFrame, s.rx = "RECEIVING"
    PROVE  Asleep(s, UpdateTransceiverState(s))
<1> DEFINE m == [s EXCEPT !.rx = s.channel]
           v == Nested(m, "SLEEP")
           u == [v EXCEPT !.macRx = s.channel]
<1>1. Ended(m) /\ Same(s, m) /\ m.fsm = s.fsm /\ m.macRx = "RECEIVING"
  BY DEF Ended, Receiving, IsState, Fields, Same
<1>2. Asleep(m, v) BY <1>1 DEF NestedSleeps
<1>3. ReceptionStateOf(s) = s.channel /\ s.rx # s.channel
  BY DEF Receiving, ReceptionStateOf
<1> HIDE DEF m, v
<1>4. /\ IsState(u) /\ u.macRx = s.channel /\ u.fsm = s.fsm /\ u.mode = "SLEEP" /\ Same(v, u)
      /\ u.rx = v.rx /\ u.tx = v.tx /\ u.macTx = v.macTx /\ u.rxTimer = v.rxTimer /\ u.txTimer = v.txTimer
  BY <1>1, <1>2 DEF Asleep, Quiet, IsState, Fields, Same
<1>5. Asleep(s, u)
  BY <1>1, <1>2, <1>4 DEF Asleep, Quiet, Same, Receiving, ReceptionStateOf, TransmissionStateOf
<1> HIDE DEF u
<1>6. HandleWithFsm(u, "mediumStateChange") = u
  BY <1>4 DEF HandleWithFsm, Target, Receiving
<1>7. UpdateReceptionState(s) = u
  <2>1. ReceptionStateChanged(m, s.channel) = u
    BY <1>1, <1>6 DEF ReceptionStateChanged, u, v
  <2> QED BY <1>3, <2>1 DEF UpdateReceptionState, m
<1>8. UpdateTransmissionState(u) = u BY <1>5 DEF UpdateTransmissionState, Asleep, Quiet
<1> QED BY <1>5, <1>7, <1>8 DEF UpdateTransceiverState

\* setRadioMode aborts a reception that is in progress.
InProgress(s) == Receiving(s) /\ s.rxTimer # NoFrame /\ s.rx = "RECEIVING"
NestedAborts == \A s : InProgress(s) => Asleep(s, Nested(s, "SLEEP"))

LEMMA AbortsReception ==
    ASSUME NestedSleeps, NEW s, InProgress(s)
    PROVE  Asleep(s, SetRadioMode(s, "SLEEP"))
<1> DEFINE m == [s EXCEPT !.rxTimer = NoFrame]
           u == UpdateTransceiverState(m)
           w == [u EXCEPT !.mode = "SLEEP"]
<1>1. Receiving(m) /\ m.rxTimer = NoFrame /\ m.rx = "RECEIVING" /\ Same(s, m) /\ m.fsm = s.fsm
  BY DEF InProgress, Receiving, IsState, Fields, Same
<1> HIDE DEF m
<1>2. Asleep(m, u) BY <1>1, ReceptionEnds
<1> HIDE DEF u
<1>3. Asleep(s, w)
  <2>1. /\ IsState(w) /\ w.mode = "SLEEP" /\ w.fsm = u.fsm /\ Same(u, w) /\ w.rx = u.rx /\ w.tx = u.tx
        /\ w.macRx = u.macRx /\ w.macTx = u.macTx /\ w.rxTimer = u.rxTimer /\ w.txTimer = u.txTimer
    BY <1>2 DEF Asleep, Quiet, IsState, Fields, Same
  <2> HIDE DEF w
  <2> QED BY <1>1, <1>2, <2>1 DEF Asleep, Quiet, Same, ReceptionStateOf, TransmissionStateOf
<1>4. SetRadioMode(s, "SLEEP") = UpdateTransceiverState(w)
  <2>1. StopReception(s, "SLEEP") = u BY DEF StopReception, AbortReception, InProgress, u, m
  <2>2. StopTransmission(u, "SLEEP") = u BY <1>2 DEF StopTransmission, Asleep, Quiet
  <2> QED BY <2>1, <2>2 DEF SetRadioMode, CompleteRadioModeSwitch, InProgress, Receiving
<1> HIDE DEF w
<1>5. UpdateTransceiverState(w) = w BY <1>3, QuietUpdate DEF Asleep, Quiet, ReceptionStateOf
<1> QED BY <1>3, <1>4, <1>5

LEMMA BackToListening ==
    ASSUME NestedIdles, NestedSettles({"LISTENING_1"}), NestedSettles({"LISTENING_2"}),
           NEW s, Quiet(s), s.mode = "SLEEP", s.fsm \in {"RECEIVING_1", "RECEIVING_2"},
           NEW msg \in {"lowerNotForUs", "droppedPacket"}
    PROVE  LET u == HandleWithFsm(s, msg)
           IN  /\ Quiet(u) /\ Same(s, u) /\ u.mode = ModeIn(u.fsm)
               /\ u.fsm = IF s.fsm = "RECEIVING_1" THEN SettledFirst(s) ELSE SettledLast(s)
<1> DEFINE next == IF s.fsm = "RECEIVING_1" THEN "LISTENING_1" ELSE "LISTENING_2"
<1>1. Target(s, msg) = next /\ next # s.fsm BY DEF Target
<1>2. TransitionAction(s, msg) = s BY DEF TransitionAction
<1>3. /\ next \in {"LISTENING_1", "LISTENING_2"} /\ s.mode # ModeIn(next) /\ NestedSettles({next})
  BY DEF ModeIn
<1>4. next \in {"IDLE", "LISTENING_1", "WAIT_DELAY_2", "LISTENING_2"} BY <1>3
<1> DEFINE u == HandleWithFsm(s, msg)
<1> HIDE DEF next
<1>5. /\ Quiet(u) /\ Same(s, u) /\ u.mode = ModeIn(u.fsm)
      /\ u.fsm = CASE next = "LISTENING_1" -> SettledFirst(s)
                   [] next = "WAIT_DELAY_2" -> SettledBetween(s)
                   [] next = "LISTENING_2" -> SettledLast(s)
                   [] OTHER -> "IDLE"
  BY <1>1, <1>2, <1>3, <1>4, Moves
<1> QED BY <1>5 DEF next

LEMMA Dropped ==
    ASSUME NestedIdles, NestedAborts, NestedSettles({"LISTENING_1"}), NestedSettles({"LISTENING_2"}),
           NEW s, InProgress(s)
    PROVE  LET u == DroppedPacket(s)
           IN  /\ Quiet(u) /\ Same(s, u) /\ u.mode = ModeIn(u.fsm)
               /\ u.fsm = IF s.fsm = "RECEIVING_1" THEN SettledFirst(s) ELSE SettledLast(s)
<1> DEFINE v == Nested(s, "SLEEP")
<1>1. Asleep(s, v) BY DEF NestedAborts
<1> HIDE DEF v
<1>2. Quiet(v) /\ v.mode = "SLEEP" /\ v.fsm = s.fsm /\ v.fsm \in {"RECEIVING_1", "RECEIVING_2"} /\ Same(s, v)
  BY <1>1 DEF Asleep, InProgress, Receiving
<1> DEFINE u == HandleWithFsm(v, "droppedPacket")
<1>3. /\ Quiet(u) /\ Same(v, u) /\ u.mode = ModeIn(u.fsm)
      /\ u.fsm = IF v.fsm = "RECEIVING_1" THEN SettledFirst(v) ELSE SettledLast(v)
  BY <1>2, BackToListening
<1>4. DroppedPacket(s) = u BY DEF DroppedPacket, v
<1> HIDE DEF u
<1> QED BY <1>2, <1>3, <1>4 DEF Same, SettledFirst, SettledBetween, SettledLast

-----------------------------------------------------------------------------
(***************************************************************************)
(* A frame for us: the windows are cancelled, and the radio sleeps already. *)
(***************************************************************************)
LEMMA Received ==
    ASSUME NestedIdles, NEW s, Quiet(s), s.mode = "SLEEP", s.fsm \in {"RECEIVING_1", "RECEIVING_2"}
    PROVE  LET u == HandleWithFsm(s, "lowerForUs")
           IN  /\ Quiet(u) /\ u.fsm = "IDLE" /\ u.mode = "SLEEP"
               /\ u.received = s.received + 1 /\ u.l2 = Off /\ u.d1 = s.d1
               /\ s.fsm = "RECEIVING_1" => u.l1 = Off /\ u.d2 = Off
               /\ s.fsm = "RECEIVING_2" => u.l1 = s.l1 /\ u.d2 = s.d2
               /\ u.queue = s.queue /\ u.sent = s.sent /\ u.down = s.down /\ u.channel = s.channel
               /\ u.scheduled = s.scheduled /\ u.error = s.error
<1> DEFINE done == TransitionAction(s, "lowerForUs")
           u == [done EXCEPT !.fsm = "IDLE"]
<1>1. Target(s, "lowerForUs") = "IDLE" /\ "IDLE" # s.fsm BY DEF Target
<1>2. /\ IsState(done) /\ done.received = s.received + 1 /\ done.l2 = Off /\ done.d1 = s.d1
      /\ s.fsm = "RECEIVING_1" => done.l1 = Off /\ done.d2 = Off
      /\ s.fsm = "RECEIVING_2" => done.l1 = s.l1 /\ done.d2 = s.d2
      /\ done.queue = s.queue /\ done.sent = s.sent /\ done.down = s.down /\ done.channel = s.channel
      /\ done.scheduled = s.scheduled /\ done.error = s.error /\ done.mode = s.mode
      /\ done.rxTimer = s.rxTimer /\ done.txTimer = s.txTimer /\ done.rx = s.rx /\ done.tx = s.tx
      /\ done.macRx = s.macRx /\ done.macTx = s.macTx
  BY DEF TransitionAction, Quiet, IsState, Fields
<1> HIDE DEF done
<1>3. /\ IsState(u) /\ u.fsm = "IDLE" /\ Same(done, u) /\ u.mode = done.mode
      /\ u.rxTimer = done.rxTimer /\ u.txTimer = done.txTimer /\ u.rx = done.rx /\ u.tx = done.tx
      /\ u.macRx = done.macRx /\ u.macTx = done.macTx
  BY <1>2 DEF IsState, Fields, Same
<1> HIDE DEF u
<1>4. Quiet(u) BY <1>2, <1>3 DEF Quiet, Same, ReceptionStateOf, TransmissionStateOf
<1>5. Enter(u) = u BY <1>2, <1>3 DEF Enter, NestedIdles
<1>6. HandleWithFsm(s, "lowerForUs") = u
  <2>1. Target(s, "lowerForUs") # s.fsm BY <1>1
  <2>2. u = Transition(s, "lowerForUs") BY <1>1 DEF u, done, Transition
  <2>3. \E i \in 1..8 : u.fsm = FsmStates[i]
    <3>1. FsmStates[1] = "IDLE" BY DEF FsmStates
    <3> QED BY <1>3, <3>1
  <2> QED BY <1>5, <2>1, <2>2, <2>3, OneBlock
<1> QED BY <1>2, <1>3, <1>4, <1>6 DEF Same

-----------------------------------------------------------------------------
(***************************************************************************)
(* A transmission: the radio goes to TRANSMITTER and back to SLEEP.        *)
(***************************************************************************)
LEMMA SwitchesOn ==
    ASSUME NEW s, Quiet(s), s.mode = "SLEEP"
    PROVE  LET u == SetRadioMode(s, "TRANSMITTER")
           IN  Quiet(u) /\ Same(s, u) /\ u.fsm = s.fsm /\ u.mode = "TRANSMITTER" /\ u.macTx = "IDLE"
<1> DEFINE m == [s EXCEPT !.mode = "TRANSMITTER"]
           u == [[m EXCEPT !.tx = "IDLE"] EXCEPT !.macTx = "IDLE"]
<1>1. /\ IsState(m) /\ m.mode = "TRANSMITTER" /\ m.rx = "UNDEFINED" /\ m.tx = "UNDEFINED"
      /\ m.txTimer = Off /\ m.macTx # "TRANSMITTING"
  BY DEF Quiet, IsState, Fields, ReceptionStateOf, TransmissionStateOf
<1>2. /\ IsState(u) /\ u.fsm = s.fsm /\ u.mode = "TRANSMITTER" /\ u.rx = s.rx /\ u.tx = "IDLE"
      /\ u.macRx = s.macRx /\ u.macTx = "IDLE" /\ u.rxTimer = s.rxTimer /\ u.txTimer = s.txTimer
      /\ Same(s, u)
  BY DEF Quiet, IsState, Fields, Same
<1>3. SetRadioMode(s, "TRANSMITTER") = UpdateTransceiverState(m)
  BY DEF SetRadioMode, CompleteRadioModeSwitch, StopReception, StopTransmission, Quiet
<1>4. UpdateReceptionState(m) = m BY <1>1 DEF UpdateReceptionState, ReceptionStateOf
<1>5. UpdateTransmissionState(m) = u
  <2>1. TransmissionStateOf(m) = "IDLE" BY <1>1 DEF TransmissionStateOf
  <2>2. [m EXCEPT !.tx = "IDLE"].macTx # "TRANSMITTING" BY <1>1 DEF IsState, Fields
  <2> QED BY <1>1, <2>1, <2>2 DEF UpdateTransmissionState, TransmissionStateChanged
<1> HIDE DEF u, m
<1>6. Quiet(u) BY <1>2 DEF Quiet, Same, ReceptionStateOf, TransmissionStateOf
<1> QED BY <1>2, <1>3, <1>4, <1>5, <1>6 DEF UpdateTransceiverState

LEMMA SwitchesOff ==
    ASSUME NEW s, Quiet(s), s.mode = "TRANSMITTER"
    PROVE  Asleep(s, SetRadioMode(s, "SLEEP"))
<1> DEFINE m == [s EXCEPT !.mode = "SLEEP"]
           u == [[m EXCEPT !.tx = "UNDEFINED"] EXCEPT !.macTx = "UNDEFINED"]
<1>1. /\ IsState(m) /\ m.mode = "SLEEP" /\ m.rx = "UNDEFINED" /\ m.tx = "IDLE"
  BY DEF Quiet, IsState, Fields, ReceptionStateOf, TransmissionStateOf
<1>2. /\ IsState(u) /\ u.fsm = s.fsm /\ u.mode = "SLEEP" /\ u.rx = s.rx /\ u.tx = "UNDEFINED"
      /\ u.macRx = s.macRx /\ u.macTx = "UNDEFINED" /\ u.rxTimer = s.rxTimer /\ u.txTimer = s.txTimer
      /\ Same(s, u)
  BY DEF Quiet, IsState, Fields, Same
<1>3. SetRadioMode(s, "SLEEP") = UpdateTransceiverState(m)
  BY DEF SetRadioMode, CompleteRadioModeSwitch, StopReception, StopTransmission, Quiet
<1>4. UpdateReceptionState(m) = m BY <1>1 DEF UpdateReceptionState, ReceptionStateOf
<1>5. UpdateTransmissionState(m) = u
  BY <1>1 DEF UpdateTransmissionState, TransmissionStateOf, TransmissionStateChanged
<1> HIDE DEF u, m
<1>6. Quiet(u) BY <1>2 DEF Quiet, Same, ReceptionStateOf, TransmissionStateOf
<1> QED BY <1>2, <1>3, <1>4, <1>5, <1>6 DEF UpdateTransceiverState, Asleep

\* A frame handed down to a MAC that is idle.
NestedSwitchesOn ==
    \A s : Quiet(s) /\ s.mode = "SLEEP" =>
        LET u == Nested(s, "TRANSMITTER")
        IN  Quiet(u) /\ Same(s, u) /\ u.fsm = s.fsm /\ u.mode = "TRANSMITTER" /\ u.macTx = "IDLE"

LEMMA Transmits ==
    ASSUME NestedSwitchesOn, NEW s, Quiet(s), s.mode = "SLEEP", s.fsm = "IDLE"
    PROVE  LET u == HandleWithFsm(s, "upper")
           IN  /\ Quiet(u) /\ u.fsm = "TRANSMIT" /\ u.mode = "TRANSMITTER" /\ u.macTx = "IDLE"
               /\ u.down = Append(s.down, Head(s.queue))
               /\ u.d1 = s.d1 /\ u.l1 = s.l1 /\ u.d2 = s.d2 /\ u.l2 = s.l2
               /\ u.queue = s.queue /\ u.sent = s.sent /\ u.received = s.received
               /\ u.channel = s.channel /\ u.scheduled = s.scheduled /\ u.error = s.error
<1> DEFINE s0 == [s EXCEPT !.fsm = "TRANSMIT"]
           on == Nested(s0, "TRANSMITTER")
           u == [on EXCEPT !.down = Append(@, Head(on.queue))]
<1>1. Target(s, "upper") = "TRANSMIT" /\ TransitionAction(s, "upper") = s
  BY DEF Target, TransitionAction
<1>2. Quiet(s0) /\ Same(s, s0) /\ s0.fsm = "TRANSMIT" /\ s0.mode = "SLEEP"
  BY DEF Quiet, IsState, Fields, Same, ReceptionStateOf, TransmissionStateOf
<1>3. Enter(s0) = u BY <1>2 DEF Enter
<1>4. s0 = Transition(s, "upper") BY <1>1 DEF Transition
<1> HIDE DEF s0
<1>5. Quiet(on) /\ Same(s0, on) /\ on.fsm = "TRANSMIT" /\ on.mode = "TRANSMITTER" /\ on.macTx = "IDLE"
  BY <1>2 DEF NestedSwitchesOn
<1> HIDE DEF on
<1>6. /\ IsState(u) /\ u.fsm = "TRANSMIT" /\ u.mode = "TRANSMITTER" /\ u.down = Append(on.down, Head(on.queue))
      /\ u.d1 = on.d1 /\ u.l1 = on.l1 /\ u.d2 = on.d2 /\ u.l2 = on.l2
      /\ u.queue = on.queue /\ u.sent = on.sent /\ u.received = on.received
      /\ u.channel = on.channel /\ u.scheduled = on.scheduled /\ u.error = on.error
      /\ u.rx = on.rx /\ u.tx = on.tx /\ u.macRx = on.macRx /\ u.macTx = on.macTx
      /\ u.rxTimer = on.rxTimer /\ u.txTimer = on.txTimer
  BY <1>5 DEF Quiet, IsState, Fields
<1> HIDE DEF u
<1>7. Quiet(u) BY <1>5, <1>6 DEF Quiet, ReceptionStateOf, TransmissionStateOf
<1>8. HandleWithFsm(s, "upper") = u
  <2>1. Target(s, "upper") # s.fsm BY <1>1
  <2>2. u = Enter(s0) /\ u.fsm = s0.fsm BY <1>2, <1>3, <1>6
  <2>3. \E i \in 1..8 : s0.fsm = FsmStates[i]
    <3>1. FsmStates[2] = "TRANSMIT" BY DEF FsmStates
    <3> QED BY <1>2, <3>1
  <2>4. Enter(s0).fsm = s0.fsm BY <2>2
  <2>5. HandleWithFsm(s, "upper") = Enter(s0) BY <1>4, <2>1, <2>3, <2>4, OneBlockStays
  <2> QED BY <2>2, <2>5
<1> QED BY <1>2, <1>5, <1>6, <1>7, <1>8 DEF Same

\* The radio, in transmitter mode, with a frame to send or one that has been sent.
Sending(s) ==
    /\ IsState(s) /\ s.mode = "TRANSMITTER" /\ s.channel \in {"IDLE", "BUSY"}
    /\ s.rxTimer = NoFrame /\ NoFrame \notin s.scheduled /\ s.rx = "UNDEFINED"
    /\ s.macRx # "RECEIVING" /\ s.fsm = "TRANSMIT"

LEMMA TransmissionStarts ==
    ASSUME NEW s, Sending(s), s.txTimer # Off, s.tx = "IDLE", s.macTx # "TRANSMITTING"
    PROVE  LET u == UpdateTransceiverState(s)
           IN  /\ Same(s, u) /\ u.fsm = s.fsm /\ u.mode = s.mode /\ u.rxTimer = s.rxTimer
               /\ u.txTimer = s.txTimer /\ u.rx = s.rx /\ u.macRx = s.macRx
               /\ u.tx = "TRANSMITTING" /\ u.macTx = "TRANSMITTING"
<1> DEFINE u == [[s EXCEPT !.tx = "TRANSMITTING"] EXCEPT !.macTx = "TRANSMITTING"]
<1>1. UpdateReceptionState(s) = s BY DEF UpdateReceptionState, ReceptionStateOf, Sending
<1>2. UpdateTransmissionState(s) = u
  BY DEF UpdateTransmissionState, TransmissionStateOf, TransmissionStateChanged, Sending
<1>3. UpdateTransceiverState(s) = u BY <1>1, <1>2 DEF UpdateTransceiverState
<1> QED BY <1>3 DEF Sending, IsState, Fields, Same

NestedSwitchesOff == \A s : Quiet(s) /\ s.mode = "TRANSMITTER" => Asleep(s, Nested(s, "SLEEP"))

LEMMA TransmissionEnds ==
    ASSUME NestedIdles, NestedSwitchesOff, NEW s, Sending(s), s.txTimer = Off,
           s.tx = "TRANSMITTING", s.macTx = "TRANSMITTING",
           s.d1 = Off, s.l1 = Off, s.d2 = Off, s.l2 = Off
    PROVE  LET u == UpdateTransceiverState(s)
           IN  /\ Quiet(u) /\ u.fsm = "WAIT_DELAY_1" /\ u.mode = "SLEEP"
               /\ u.d1 = waitDelay1Time /\ u.l1 = waitDelay1Time + listening1Time
               /\ u.d2 = waitDelay1Time + listening1Time + waitDelay2Time
               /\ u.l2 = waitDelay1Time + listening1Time + waitDelay2Time + listening2Time
               /\ u.queue = Tail(s.queue) /\ u.sent = s.sent + 1 /\ u.received = s.received
               /\ u.down = s.down /\ u.channel = s.channel /\ u.scheduled = s.scheduled
               /\ u.error = FALSE
<1> DEFINE m == [s EXCEPT !.tx = "IDLE"]
           done == FinishCurrentTransmission(m)
           s0 == [[done EXCEPT !.sent = m.sent + 1] EXCEPT !.fsm = "WAIT_DELAY_1"]
           v == Nested(s0, "SLEEP")
           u == [v EXCEPT !.macTx = "IDLE"]
<1>1. /\ IsState(m) /\ Same(s, m) /\ m.fsm = "TRANSMIT" /\ m.mode = "TRANSMITTER" /\ m.tx = "IDLE"
      /\ m.rx = "UNDEFINED" /\ m.macRx = s.macRx /\ m.macTx = s.macTx /\ m.rxTimer = NoFrame
      /\ m.txTimer = Off
  BY DEF Sending, IsState, Fields, Same
<1>2. UpdateReceptionState(s) = s BY DEF UpdateReceptionState, ReceptionStateOf, Sending
<1>3. UpdateTransmissionState(s) = TransmissionStateChanged(m, "IDLE")
  BY DEF UpdateTransmissionState, TransmissionStateOf, Sending
<1> HIDE DEF m
<1>4. Target(m, "endTransmission") = "WAIT_DELAY_1" BY <1>1 DEF Target
<1>5. s0 = Transition(m, "endTransmission")
  BY <1>1, <1>4 DEF TransitionAction, Transition
<1>6. /\ IsState(done) /\ done.fsm = m.fsm /\ done.mode = m.mode /\ done.tx = m.tx /\ done.rx = m.rx
      /\ done.macRx = m.macRx /\ done.macTx = m.macTx /\ done.rxTimer = m.rxTimer /\ done.txTimer = m.txTimer
      /\ done.d1 = waitDelay1Time /\ done.l1 = waitDelay1Time + listening1Time
      /\ done.d2 = waitDelay1Time + listening1Time + waitDelay2Time
      /\ done.l2 = waitDelay1Time + listening1Time + waitDelay2Time + listening2Time
      /\ done.queue = Tail(m.queue) /\ done.received = m.received /\ done.down = m.down
      /\ done.channel = m.channel /\ done.scheduled = m.scheduled /\ done.error = FALSE
  <2>1. (\E t \in {m.d1, m.l1, m.d2, m.l2} : t # Off) = FALSE BY <1>1 DEF Same
  <2> QED BY <1>1, <2>1 DEF FinishCurrentTransmission, IsState, Fields
<1> HIDE DEF done
<1>7. /\ IsState(s0) /\ s0.fsm = "WAIT_DELAY_1" /\ s0.mode = "TRANSMITTER" /\ s0.tx = "IDLE"
      /\ s0.rx = "UNDEFINED" /\ s0.macRx = s.macRx /\ s0.macTx = s.macTx /\ s0.rxTimer = NoFrame
      /\ s0.txTimer = Off /\ s0.d1 = done.d1 /\ s0.l1 = done.l1 /\ s0.d2 = done.d2 /\ s0.l2 = done.l2
      /\ s0.queue = Tail(s.queue) /\ s0.sent = s.sent + 1 /\ s0.received = s.received
      /\ s0.down = s.down /\ s0.channel = s.channel /\ s0.scheduled = s.scheduled /\ s0.error = FALSE
  BY <1>1, <1>6 DEF IsState, Fields, Same
<1> HIDE DEF s0
<1>8. Quiet(s0) BY <1>7 DEF Quiet, Sending, ReceptionStateOf, TransmissionStateOf
<1>9. Asleep(s0, v) BY <1>7, <1>8 DEF NestedSwitchesOff
<1>10. Enter(s0) = v BY <1>7 DEF Enter
<1> HIDE DEF v
<1>11. HandleWithFsm(m, "endTransmission") = v
  <2>1. Target(m, "endTransmission") # m.fsm BY <1>1, <1>4
  <2>2. v = Enter(s0) /\ v.fsm = s0.fsm BY <1>9, <1>10 DEF Asleep
  <2>3. \E i \in 1..8 : s0.fsm = FsmStates[i]
    <3>1. FsmStates[3] = "WAIT_DELAY_1" BY DEF FsmStates
    <3> QED BY <1>7, <3>1
  <2>4. Enter(s0).fsm = s0.fsm BY <2>2
  <2>5. HandleWithFsm(m, "endTransmission") = Enter(s0) BY <1>5, <2>1, <2>3, <2>4, OneBlockStays
  <2> QED BY <2>2, <2>5
<1>12. TransmissionStateChanged(m, "IDLE") = u
  <2>1. Nested(v, "SLEEP") = v BY <1>9 DEF Asleep, NestedIdles
  <2> QED BY <1>1, <1>11, <2>1 DEF TransmissionStateChanged
<1>13. /\ IsState(u) /\ Same(v, u) /\ u.fsm = v.fsm /\ u.mode = v.mode /\ u.rx = v.rx /\ u.tx = v.tx
       /\ u.macRx = v.macRx /\ u.macTx = "IDLE" /\ u.rxTimer = v.rxTimer /\ u.txTimer = v.txTimer
  BY <1>9 DEF Asleep, Quiet, IsState, Fields, Same
<1> HIDE DEF u
<1>14. Quiet(u)
  BY <1>9, <1>13 DEF Asleep, Quiet, Same, ReceptionStateOf, TransmissionStateOf
<1>15. UpdateTransceiverState(s) = u BY <1>2, <1>3, <1>12 DEF UpdateTransceiverState
<1> QED BY <1>6, <1>7, <1>9, <1>13, <1>14, <1>15 DEF Asleep, Same

-----------------------------------------------------------------------------
(***************************************************************************)
(* The radio listens: a frame it attempts takes LoRaMac to RECEIVING_x,    *)
(* and a channel that becomes busy or idle leaves it where it is.          *)
(***************************************************************************)
Listening(s) ==
    /\ IsState(s) /\ s.mode = "RECEIVER" /\ s.channel \in {"IDLE", "BUSY"}
    /\ NoFrame \notin s.scheduled /\ s.txTimer = Off /\ s.tx = "UNDEFINED"
    /\ s.macTx # "TRANSMITTING" /\ s.macRx # "RECEIVING" /\ s.rx \in {"IDLE", "BUSY"}
    /\ \/ s.fsm = "LISTENING_1" /\ s.l1 # Off
       \/ s.fsm = "LISTENING_2" /\ s.l2 # Off

LEMMA ReceptionStarts ==
    ASSUME NEW s, Listening(s), s.rxTimer \in s.scheduled
    PROVE  LET u == UpdateTransceiverState(s)
           IN  /\ Same(s, u) /\ u.mode = s.mode /\ u.rxTimer = s.rxTimer /\ u.txTimer = s.txTimer
               /\ u.tx = s.tx /\ u.macTx = s.macTx /\ u.rx = "RECEIVING" /\ u.macRx = "RECEIVING"
               /\ u.fsm = IF s.fsm = "LISTENING_1" THEN "RECEIVING_1" ELSE "RECEIVING_2"
<1> DEFINE next == IF s.fsm = "LISTENING_1" THEN "RECEIVING_1" ELSE "RECEIVING_2"
           told == [[s EXCEPT !.rx = "RECEIVING"] EXCEPT !.macRx = "RECEIVING"]
           u == [told EXCEPT !.fsm = next]
<1>1. /\ IsState(told) /\ Same(s, told) /\ told.fsm = s.fsm /\ told.mode = s.mode /\ told.rx = "RECEIVING"
      /\ told.macRx = "RECEIVING" /\ told.tx = s.tx /\ told.macTx = s.macTx
      /\ told.rxTimer = s.rxTimer /\ told.txTimer = s.txTimer
  BY DEF Listening, IsState, Fields, Same
<1>2. ReceptionStateOf(s) = "RECEIVING" /\ s.rx # "RECEIVING"
      /\ [s EXCEPT !.rx = "RECEIVING"].macRx # "RECEIVING"
  BY DEF Listening, ReceptionStateOf, IsState, Fields
<1>3. UpdateReceptionState(s) = HandleWithFsm(told, "mediumStateChange")
  BY <1>2 DEF UpdateReceptionState, ReceptionStateChanged
<1> HIDE DEF told
<1>4. Target(told, "mediumStateChange") = next /\ next # told.fsm
  BY <1>1 DEF Target, Listening, Same
<1>5. TransitionAction(told, "mediumStateChange") = told BY <1>1 DEF TransitionAction, Listening
<1>6. /\ IsState(u) /\ Same(told, u) /\ u.fsm = next /\ u.mode = told.mode /\ u.rx = told.rx
      /\ u.macRx = told.macRx /\ u.tx = told.tx /\ u.macTx = told.macTx
      /\ u.rxTimer = told.rxTimer /\ u.txTimer = told.txTimer
  BY <1>1 DEF IsState, Fields, Same
<1>7. u = Transition(told, "mediumStateChange")
  BY <1>4, <1>5 DEF Transition
<1> HIDE DEF u
<1>8. Enter(u) = u BY <1>6 DEF Enter
<1>9. HandleWithFsm(told, "mediumStateChange") = u
  <2>1. Target(told, "mediumStateChange") # told.fsm BY <1>4
  <2>2. \E i \in 1..8 : u.fsm = FsmStates[i]
    <3>1. FsmStates[5] = "RECEIVING_1" /\ FsmStates[8] = "RECEIVING_2" BY DEF FsmStates
    <3> QED BY <1>6, <3>1
  <2> QED BY <1>7, <1>8, <2>1, <2>2, OneBlock
<1>10. UpdateTransmissionState(u) = u
  BY <1>1, <1>6 DEF UpdateTransmissionState, TransmissionStateOf, Listening
<1>11. UpdateTransceiverState(s) = u BY <1>3, <1>9, <1>10 DEF UpdateTransceiverState
<1> QED BY <1>1, <1>6, <1>11 DEF Same

LEMMA ChannelChanges ==
    ASSUME NEW s, Listening(s), s.rxTimer = NoFrame
    PROVE  LET u == UpdateTransceiverState(s)
           IN  Quiet(u) /\ Same(s, u) /\ u.fsm = s.fsm /\ u.mode = s.mode
<1> DEFINE told == [[s EXCEPT !.rx = s.channel] EXCEPT !.macRx = s.channel]
<1>1. ReceptionStateOf(s) = s.channel BY DEF ReceptionStateOf, Listening
<1>2. CASE s.rx = s.channel
  <2>1. Quiet(s) BY <1>1, <1>2 DEF Quiet, Listening, TransmissionStateOf
  <2> QED BY <1>1, <1>2, <2>1, QuietUpdate DEF Quiet, Same
<1>3. CASE s.rx # s.channel
  <2>1. /\ IsState(told) /\ Same(s, told) /\ told.fsm = s.fsm /\ told.mode = s.mode /\ told.rx = s.channel
        /\ told.macRx = s.channel /\ told.tx = s.tx /\ told.macTx = s.macTx
        /\ told.rxTimer = s.rxTimer /\ told.txTimer = s.txTimer
        /\ [s EXCEPT !.rx = s.channel].macRx # "RECEIVING"
    BY DEF Listening, IsState, Fields, Same
  <2>2. UpdateReceptionState(s) = HandleWithFsm(told, "mediumStateChange")
    BY <1>1, <1>3, <2>1 DEF UpdateReceptionState, ReceptionStateChanged
  <2> HIDE DEF told
  <2>3. Target(told, "mediumStateChange") = told.fsm
    BY <2>1 DEF Target, Listening, Same
  <2>4. UpdateReceptionState(s) = told BY <2>2, <2>3 DEF HandleWithFsm
  <2>5. Quiet(told)
    BY <2>1 DEF Quiet, Listening, Same, ReceptionStateOf, TransmissionStateOf
  <2>6. UpdateTransceiverState(s) = told
    BY <2>4, <2>5 DEF UpdateTransceiverState, UpdateTransmissionState, Quiet
  <2> QED BY <2>1, <2>5, <2>6
<1> QED BY <1>2, <1>3

\* The radio updates its states while nothing is on the air for it.
LEMMA Refreshes ==
    ASSUME NEW s, Quiet(s), s.mode = "RECEIVER" => Listening(s)
    PROVE  LET u == UpdateTransceiverState(s)
           IN  Quiet(u) /\ Same(s, u) /\ u.fsm = s.fsm /\ u.mode = s.mode
<1>1. CASE s.mode = "RECEIVER"
  BY <1>1, ChannelChanges DEF Quiet
<1>2. CASE s.mode # "RECEIVER"
  <2>1. s.rx = ReceptionStateOf(s) BY <1>2 DEF Quiet, ReceptionStateOf
  <2> QED BY <2>1, QuietUpdate DEF Quiet, Same
<1> QED BY <1>1, <1>2
=============================================================================
