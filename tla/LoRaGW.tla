------------------------------- MODULE LoRaGW -------------------------------
(***************************************************************************)
(* A gateway on the medium: the radio LoRa/LoRaGWRadio.cc, which receives  *)
(* many frames at once but not while it transmits, the duty cycle of       *)
(* LoRa/LoRaGWMac.cc above it, and LoRa/PacketForwarder.cc on top.         *)
(*                                                                         *)
(* The radio asks the medium twice about a frame: isReceptionAttempted     *)
(* when it starts and getReceptionDecision when it ends, each time about   *)
(* the transmissions the medium still knows of.  In between the frame is   *)
(* known by the address of its reception timer only.                       *)
(***************************************************************************)
EXTENDS LoRaMedium, LoRaReceiver, FiniteSets

CONSTANTS
    gateway,                 \* the radio modelled here
    NodeFrames,              \* what nodes and other gateways transmit
    Downlinks,               \* what the network server hands to this gateway
    PartsChoices,            \* the values of LoRaGWRadio's parameter separateReceptionParts
    WarmupPeriod,
    MaxSent, MaxDownlinks, LastStart, \* bounds: transmissions heard, downlinks, latest start
    MaxTime                  \* bound: the simulation's sim-time-limit

NoTimer == 0                 \* the null receptionTimer
NotCached == {0}             \* no cached interference

ASSUME GatewayAssumption == gateway \in Radios /\ gateway # "node"
ASSUME FramesAssumption ==
    \A f \in NodeFrames \union Downlinks :
        IsFrame(f) /\ f.preamble \in Nat /\ f.preamble < f.duration /\ f.uplink \in BOOLEAN
\* LoRaGWMac's delta is ten times the time on air (PauseCoversDownlink in LoRaGW_proofs).
ASSUME DutyCycleAssumption == \A f \in Downlinks : f.delta \in Nat /\ f.delta > f.duration
ASSUME TimeAssumption == MaxTime \in Nat
ASSUME PartsAssumption == PartsChoices \subseteq BOOLEAN

VARIABLES
    separateReceptionParts, \* read by initialize
    reception,            \* of every transmission: how far its reception here has come
    timer,                \* of every transmission: the address of its reception timer
    interference,         \* of every transmission: its cached interference
    concurrentReceptions, receptionTimer,
    iAmTransmiting, transmissionTimer,
    waitingForDC, dutyCycleTimer, GW_forwardedDown, GW_droppedDC,
    toRadio, toForwarder, \* frames on their way down and up
    numCollisions, rcvBelowSensitivity, \* of every transmission: what it has added to the counter
    mistaken,             \* history: ignored when they started, but with the address of a listed timer
    delivered, forwarded, \* what the radio sent up, what the forwarder sent to the server
    counterOfSentPacketsFromNodes, counterOfReceivedPackets

radioVars == <<separateReceptionParts, reception, timer, interference, concurrentReceptions, receptionTimer>>
transmitVars == <<iAmTransmiting, transmissionTimer>>
macVars == <<waitingForDC, dutyCycleTimer, GW_forwardedDown, GW_droppedDC>>
linkVars == <<toRadio, toForwarder>>
tallyVars == <<numCollisions, rcvBelowSensitivity>>
countVars == <<tallyVars, mistaken, delivered>>
forwarderVars == <<forwarded, counterOfSentPacketsFromNodes, counterOfReceivedPackets>>
vars == <<now, mediumVars, radioVars, transmitVars, macVars, linkVars, countVars, forwarderVars>>

Init ==
    /\ MediumInit
    /\ separateReceptionParts \in PartsChoices
    /\ reception = <<>> /\ timer = <<>> /\ interference = <<>>
    /\ concurrentReceptions = {} /\ receptionTimer = NoTimer
    /\ iAmTransmiting = FALSE /\ transmissionTimer = Off
    /\ waitingForDC = FALSE /\ dutyCycleTimer = Off /\ GW_forwardedDown = 0 /\ GW_droppedDC = 0
    /\ toRadio = <<>> /\ toForwarder = <<>>
    /\ numCollisions = <<>> /\ rcvBelowSensitivity = <<>> /\ mistaken = {}
    /\ delivered = {} /\ forwarded = {}
    /\ counterOfSentPacketsFromNodes = 0 /\ counterOfReceivedPackets = 0

-----------------------------------------------------------------------------
\* The signal of transmission t as it arrives at the gateway.
Signal(t) ==
    LET f == sent[t].frame IN
    [sf |-> f.sf, cf |-> f.cf, rssi |-> f.rssi, csBegin |-> ArrivalStart(gateway, t) + f.csBegin,
     start |-> ArrivalStart(gateway, t), end |-> ArrivalEnd(gateway, t)]

Signals(ts) == {Signal(u) : u \in ts}
IsUplink(t) == sent[t].frame.uplink

Parts == {"WHOLE", "PREAMBLE", "HEADER", "DATA"}
FirstPart == IF separateReceptionParts THEN "PREAMBLE" ELSE "WHOLE"
NextPart == [PREAMBLE |-> "HEADER", HEADER |-> "DATA"]
InReception(t) == reception[t] \in Parts

\* When the part of t that is being received ends; header and payload take half the rest each.
PartEnd(t) ==
    ArrivalStart(gateway, t) +
    LET f == sent[t].frame IN
    CASE reception[t] = "PREAMBLE" -> f.preamble
      [] reception[t] = "HEADER" -> f.preamble + (f.duration - f.preamble) \div 2
      [] OTHER -> f.duration

\* The addresses `new' may give the timer of t: a fresh one, or that of a timer deleted since.
Addresses(t) ==
    {t} \union
    ({timer[u] : u \in {v \in DOMAIN timer : reception[v] = "ENDED"}}
        \ {timer[u] : u \in {v \in DOMAIN timer : InReception(v)}})

\* The frame enters the medium; its reception here is still to come.
EntersMedium(from, frame, first) ==
    /\ AddTransmission(from, frame)
    /\ reception' = Append(reception, first)
    /\ timer' = Append(timer, NoTimer)
    /\ interference' = Append(interference, NotCached)
    /\ numCollisions' = Append(numCollisions, 0)
    /\ rcvBelowSensitivity' = Append(rcvBelowSensitivity, 0)

\* A node transmits; its application has just emitted LoRa_AppPacketSent.
NodeTransmits(frame) ==
    /\ Len(sent) < MaxSent + MaxDownlinks /\ now <= LastStart
    /\ Cardinality({t \in DOMAIN sent : sent[t].from # gateway}) < MaxSent
    /\ EntersMedium("node", frame, "ARRIVING")
    /\ counterOfSentPacketsFromNodes' =
        counterOfSentPacketsFromNodes + IF frame.uplink /\ now >= WarmupPeriod THEN 1 ELSE 0
    /\ UNCHANGED <<now, separateReceptionParts, concurrentReceptions, receptionTimer, transmitVars, macVars, linkVars,
                   mistaken, delivered, forwarded, counterOfReceivedPackets>>

-----------------------------------------------------------------------------
\* LoRaReceiver::computeIsReceptionAttempted counts the uplinks it finds collided.
CountCollision(t, collided) ==
    numCollisions' = [numCollisions EXCEPT ![t] = IF collided /\ IsUplink(t) THEN @ + 1 ELSE @]

\* medium->isReceptionAttempted: the interference is computed afresh.
IsCollidedNowUnchecked(t) == FALSE
IsCollidedNow(t) == IsPacketCollided(Signal(t), Signals(Interference(gateway, t)))

\* What the radio looks at when a reception starts, goes on or ends; the mode is always TRANSCEIVER.
AlwaysReceives == TRUE
CanReceive == ~iAmTransmiting

\* handleLowerPacket and startReception.
StartReception(t) ==
    /\ reception[t] = "ARRIVING" /\ now = ArrivalStart(gateway, t)
    /\ \E a \in Addresses(t) :
        /\ timer' = [timer EXCEPT ![t] = a]
        /\ IF CanReceive /\ ~IsCollidedNow(t)
           THEN /\ concurrentReceptions' = concurrentReceptions \union {a}
                /\ receptionTimer' = a
                /\ UNCHANGED mistaken
           ELSE /\ mistaken' = IF a \in concurrentReceptions THEN mistaken \union {t} ELSE mistaken
                /\ UNCHANGED <<concurrentReceptions, receptionTimer>>
    /\ CountCollision(t, CanReceive /\ IsCollidedNow(t))
    /\ reception' = [reception EXCEPT ![t] = FirstPart]
    /\ UNCHANGED <<now, mediumVars, separateReceptionParts, interference, transmitVars, macVars, linkVars,
                   rcvBelowSensitivity, delivered, forwarderVars>>

\* continueReception and endReception look the timer up in the list first.
FoundOnlyLast(t) == timer[t] = receptionTimer
Found(t) == timer[t] \in concurrentReceptions \union {receptionTimer}

\* getInterference: computed at its first use and cached.
InterferenceOf(t) ==
    IF interference[t] = NotCached THEN Interference(gateway, t) ELSE interference[t]

ForgetTimerOnly(t) == receptionTimer' = NoTimer /\ UNCHANGED concurrentReceptions
ForgetListOnly(t) ==
    /\ concurrentReceptions' = concurrentReceptions \ {timer[t]}
    /\ UNCHANGED receptionTimer
Forget(t) ==
    /\ receptionTimer' = NoTimer
    /\ concurrentReceptions' = concurrentReceptions \ {timer[t]}

\* continueReception: isReceptionSuccessful, always true, caches the interference; the next part
\* is attempted if nothing known now collides.
ContinueReception(t) ==
    /\ reception[t] \in {"PREAMBLE", "HEADER"} /\ now = PartEnd(t)
    /\ reception' = [reception EXCEPT ![t] = NextPart[reception[t]]]
    /\ IF Found(t) /\ CanReceive
       THEN /\ interference' = [interference EXCEPT ![t] = InterferenceOf(t)]
            /\ CountCollision(t, IsCollidedNow(t))
            /\ IF IsCollidedNow(t) THEN Forget(t)
               ELSE receptionTimer' = timer[t] /\ UNCHANGED concurrentReceptions
       ELSE /\ receptionTimer' = IF Found(t) THEN timer[t] ELSE receptionTimer
            /\ UNCHANGED <<interference, concurrentReceptions, numCollisions>>
    /\ UNCHANGED <<now, mediumVars, separateReceptionParts, timer, transmitVars, macVars, linkVars,
                   rcvBelowSensitivity, mistaken, delivered, forwarderVars>>

\* endReception of a frame that is ignored; a timer found in the list is deleted but stays there.
EndReceptionIgnored(t) ==
    /\ reception[t] \in {"WHOLE", "DATA"} /\ now = PartEnd(t)
    /\ ~(Found(t) /\ CanReceive)
    /\ receptionTimer' = IF Found(t) THEN timer[t] ELSE receptionTimer
    /\ reception' = [reception EXCEPT ![t] = "ENDED"]
    /\ UNCHANGED <<now, mediumVars, separateReceptionParts, timer, interference, concurrentReceptions, transmitVars,
                   macVars, linkVars, countVars, forwarderVars>>

\* endReception of a frame that is decided: getReceptionDecision, and sendUp if successful.
EndReceptionDecided(t) ==
    LET possible == IsReceptionPossible(Signal(t))
        collided == IsPacketCollided(Signal(t), Signals(InterferenceOf(t)))
    IN
    /\ reception[t] \in {"WHOLE", "DATA"} /\ now = PartEnd(t)
    /\ Found(t) /\ CanReceive
    /\ interference' = [interference EXCEPT ![t] = InterferenceOf(t)]
    /\ rcvBelowSensitivity' = [rcvBelowSensitivity EXCEPT ![t] = IF possible THEN @ ELSE @ + 1]
    /\ CountCollision(t, possible /\ collided)
    /\ IF possible /\ ~collided
       THEN delivered' = delivered \union {t} /\ toForwarder' = Append(toForwarder, t)
       ELSE UNCHANGED <<delivered, toForwarder>>
    /\ Forget(t)
    /\ reception' = [reception EXCEPT ![t] = "ENDED"]
    /\ UNCHANGED <<now, mediumVars, separateReceptionParts, timer, transmitVars, macVars, toRadio, mistaken,
                   forwarderVars>>

\* LoRaGWMac passes on what is broadcast, and PacketForwarder asks the same again.
PassedOnAll(t) == TRUE
PassedOn(t) == IsUplink(t)

\* LoRaGWMac::handleLowerPacket; PacketForwarder::processLoraMACPacket sends it to the server.
ForwardUp ==
    /\ toForwarder # <<>>
    /\ toForwarder' = Tail(toForwarder)
    /\ IF PassedOn(Head(toForwarder))
       THEN /\ forwarded' = forwarded \union {Head(toForwarder)}
            /\ counterOfReceivedPackets' =
                counterOfReceivedPackets + IF now >= WarmupPeriod THEN 1 ELSE 0
       ELSE UNCHANGED <<forwarded, counterOfReceivedPackets>>
    /\ UNCHANGED <<now, mediumVars, radioVars, transmitVars, macVars, toRadio, countVars,
                   counterOfSentPacketsFromNodes>>

-----------------------------------------------------------------------------
\* How long LoRaGWMac waits after a downlink: delta.
DutyCycleHalf(frame) == frame.duration \div 2
DutyCycle(frame) == frame.delta

\* PacketForwarder passes a frame of the server down, LoRaGWMac::handleUpperPacket takes it.
DownlinkArrives(frame) ==
    /\ GW_forwardedDown + GW_droppedDC < MaxDownlinks /\ now <= LastStart
    /\ IF waitingForDC
       THEN /\ GW_droppedDC' = GW_droppedDC + 1
            /\ UNCHANGED <<toRadio, waitingForDC, dutyCycleTimer, GW_forwardedDown>>
       ELSE /\ toRadio' = Append(toRadio, frame)
            /\ waitingForDC' = TRUE
            /\ dutyCycleTimer' = now + DutyCycle(frame)
            /\ GW_forwardedDown' = GW_forwardedDown + 1
            /\ UNCHANGED GW_droppedDC
    /\ UNCHANGED <<now, mediumVars, radioVars, transmitVars, toForwarder, countVars, forwarderVars>>

DutyCycleEnds ==
    /\ dutyCycleTimer = now
    /\ dutyCycleTimer' = Off /\ waitingForDC' = FALSE
    /\ UNCHANGED <<now, mediumVars, radioVars, transmitVars, GW_forwardedDown, GW_droppedDC,
                   linkVars, countVars, forwarderVars>>

\* handleUpperPacket and startTransmission of the radio; a frame that finds it transmitting is deleted.
StartTransmission ==
    /\ toRadio # <<>>
    /\ toRadio' = Tail(toRadio)
    /\ IF iAmTransmiting
       THEN UNCHANGED <<mediumVars, reception, timer, interference, transmitVars, tallyVars>>
       ELSE /\ EntersMedium(gateway, Head(toRadio), "NONE")
            /\ iAmTransmiting' = TRUE
            /\ transmissionTimer' = now + Head(toRadio).duration
    /\ UNCHANGED <<now, separateReceptionParts, concurrentReceptions, receptionTimer, macVars, toForwarder,
                   mistaken, delivered, forwarderVars>>

EndTransmission ==
    /\ transmissionTimer = now
    /\ iAmTransmiting' = FALSE /\ transmissionTimer' = Off
    /\ UNCHANGED <<now, mediumVars, radioVars, macVars, linkVars, countVars, forwarderVars>>

\* LoRaMedium::handleMessage.
RemovalTimerFires ==
    /\ RemoveNonInterferingTransmissions
    /\ UNCHANGED <<radioVars, transmitVars, macVars, linkVars, countVars, forwarderVars>>

\* Time passes when no event of this instant is left.
Tick ==
    /\ now < MaxTime
    /\ toRadio = <<>> /\ toForwarder = <<>>
    /\ now \notin {transmissionTimer, dutyCycleTimer, removeNonInterferingTransmissionsTimer}
    /\ \A t \in DOMAIN sent :
        /\ reception[t] = "ARRIVING" => now < ArrivalStart(gateway, t)
        /\ InReception(t) => now < PartEnd(t)
    /\ now' = now + 1
    /\ UNCHANGED <<mediumVars, radioVars, transmitVars, macVars, linkVars, countVars, forwarderVars>>

Radio ==
    \/ \E t \in DOMAIN sent : StartReception(t) \/ ContinueReception(t)
                              \/ EndReceptionIgnored(t) \/ EndReceptionDecided(t)
    \/ StartTransmission \/ EndTransmission
Handlers == Radio \/ ForwardUp \/ DutyCycleEnds \/ RemovalTimerFires
Environment ==
    \/ \E f \in NodeFrames : NodeTransmits(f)
    \/ \E f \in Downlinks : DownlinkArrives(f)
Next == Handlers \/ Environment \/ Tick

Spec == Init /\ [][Next]_vars
\* The scheduler runs every event and simulated time goes on.
FairSpec == Spec /\ WF_vars(Handlers) /\ WF_vars(Tick)

-----------------------------------------------------------------------------
TypeOK ==
    /\ now \in 0..MaxTime
    /\ DOMAIN reception = DOMAIN sent /\ DOMAIN timer = DOMAIN sent
    /\ DOMAIN interference = DOMAIN sent /\ DOMAIN interferenceEndTime = DOMAIN sent
    /\ KnownTransmissions \subseteq DOMAIN sent
    /\ \A t \in DOMAIN sent :
        /\ reception[t] \in Parts \union {"NONE", "ARRIVING", "ENDED"}
        /\ timer[t] \in DOMAIN sent \union {NoTimer}
        /\ interference[t] = NotCached \/ interference[t] \subseteq DOMAIN sent
        /\ numCollisions[t] \in Nat /\ rcvBelowSensitivity[t] \in Nat
    /\ DOMAIN numCollisions = DOMAIN sent /\ DOMAIN rcvBelowSensitivity = DOMAIN sent
    /\ concurrentReceptions \subseteq DOMAIN sent /\ mistaken \subseteq DOMAIN sent
    /\ receptionTimer \in concurrentReceptions \union {NoTimer}
    /\ iAmTransmiting = (transmissionTimer # Off) /\ waitingForDC = (dutyCycleTimer # Off)

\* All that ever interferes with t at the gateway, forgotten by the medium or not.
Interferers(t) == {u \in DOMAIN sent : IsInterfering(gateway, t, u)}
TrulyCollided(t) == IsPacketCollided(Signal(t), Signals(Interferers(t)))

\* The times at which the gateway transmits.
OwnTransmissions == {u \in DOMAIN sent : sent[u].from = gateway}
OwnStart(u) == sent[u].start
OwnEnd(u) == sent[u].start + sent[u].frame.duration

(***************************************************************************)
(* What LoRaReceiver's comment says of computeIsReceptionSuccessful: the   *)
(* collision check stands for the SINR check, so a frame that LoRaGWRadio  *)
(* sends up has collided with no transmission at all.  It does not hold: a *)
(* timer found while the gateway transmits is deleted but stays in the     *)
(* list, and the timer of one that collided at its start may reuse it.     *)
(***************************************************************************)
DeliveredUncollided == \A t \in delivered : ~TrulyCollided(t)

(***************************************************************************)
(* How far that holds: a frame sent up that was not mistaken for one in    *)
(* reception has collided with nothing, although the medium forgets        *)
(* transmissions while others are still received.  isReceptionAttempted    *)
(* sees those forgotten before the end, the final decision those that      *)
(* started later.  Of a frame received in parts the interference is cached *)
(* when its preamble has ended, and only what began before is sure to be   *)
(* seen: the check between header and data is skipped while the gateway    *)
(* transmits, and nothing looks during the data.                           *)
(***************************************************************************)
DeliveredUncollidedAsChecked ==
    \A t \in delivered \ mistaken :
        ~IsPacketCollided(Signal(t), Signals(
            {u \in Interferers(t) : separateReceptionParts
                                    => ArrivalStart(gateway, u)
                                       < ArrivalStart(gateway, t) + sent[t].frame.preamble}))

(***************************************************************************)
(* Every uplink that collided with nothing, is strong enough and meets no  *)
(* transmission of the gateway when it starts or ends reaches the server,  *)
(* however many receptions overwrite receptionTimer meanwhile and whatever *)
(* addresses the timers get.                                               *)
(***************************************************************************)
HeardIsForwarded ==
    toForwarder = <<>> =>
        \A t \in DOMAIN sent :
            (/\ reception[t] = "ENDED" /\ IsUplink(t)
             /\ IsReceptionPossible(Signal(t)) /\ ~TrulyCollided(t)
             /\ \A u \in OwnTransmissions :
                    /\ ArrivalStart(gateway, t) \notin OwnStart(u)..OwnEnd(u)
                    /\ ArrivalEnd(gateway, t) \notin OwnStart(u)..OwnEnd(u))
            => t \in forwarded

(***************************************************************************)
(* What iAmTransmiting gives: a frame sent up does not end inside a        *)
(* transmission of the gateway, and starts inside one only if it was       *)
(* mistaken for another by the address of its timer.  (One that contains a *)
(* whole transmission of the gateway is sent up: it is not looked at       *)
(* between.)                                                               *)
(***************************************************************************)
HalfDuplexAtEnds ==
    \A t \in delivered, u \in OwnTransmissions :
        /\ t \notin mistaken => ~(OwnStart(u) < ArrivalStart(gateway, t) /\ ArrivalStart(gateway, t) < OwnEnd(u))
        /\ ~(OwnStart(u) < ArrivalEnd(gateway, t) /\ ArrivalEnd(gateway, t) < OwnEnd(u))

(***************************************************************************)
(* removeNonInterferingTransmissions deletes a transmission only after it  *)
(* has arrived completely at every radio: no reception timer is left that  *)
(* points to it.                                                           *)
(***************************************************************************)
RemovedAfterArrival ==
    \A t \in DOMAIN sent \ KnownTransmissions :
        /\ reception[t] \in {"NONE", "ENDED"}
        /\ \A r \in Radios : ArrivalEnd(r, t) < now

(***************************************************************************)
(* A downlink counted in GW_forwardedDown is transmitted: the duty cycle   *)
(* keeps the next one away until the radio is free again, so the deletion  *)
(* in LoRaGWRadio::startTransmission is never reached.                     *)
(***************************************************************************)
ForwardedDownIsTransmitted ==
    GW_forwardedDown = Cardinality(OwnTransmissions) + Len(toRadio)

(***************************************************************************)
(* LoRaReceiver counts a frame at most once, as collided or as too weak,   *)
(* although it may look at it at its start, at every part and at its end,  *)
(* and never one that the radio sent up.  Only a frame that is mistaken    *)
(* for another by the address of its timer comes to a second verdict.      *)
(***************************************************************************)
Verdicts(t) == numCollisions[t] + rcvBelowSensitivity[t] + IF t \in delivered THEN 1 ELSE 0
CollisionCountedOnce == \A t \in DOMAIN sent : Verdicts(t) <= IF t \in mistaken THEN 2 ELSE 1

(***************************************************************************)
(* LoRa_GW_DER of PacketForwarder is a ratio: no frame is counted as       *)
(* received that was not counted as sent, and none twice.  (With a warm-up *)
(* period it is not: sent frames pass it when they are sent, received ones *)
(* after their time on air.)                                               *)
(***************************************************************************)
GatewayRatio == counterOfReceivedPackets <= counterOfSentPacketsFromNodes

(***************************************************************************)
(* The medium does not grow for ever: removal by the front only, with one  *)
(* timer, gets to every transmission.                                      *)
(***************************************************************************)
MediumEmpties == []<>(transmissions = <<>>)
=============================================================================
