# Specifications of the LoRa stack in LoRa-INET

The repository is a copy of the INET 3.6 framework for OMNeT++ to which a LoRaWAN
stack was added: end devices that open two receive windows after each frame they send,
gateways, a network server, and a medium that knows about spreading factors (SF), in one variant fed by the OPAL ray tracer. The
stack is in `src/inet/src/inet/LoRa`, `LoRaApp`, `LoRaPhy` and `LoRaEnergyModules`; all
paths below without a directory are in one of these. This directory holds TLA+
specifications of the stack, their TLC configurations, and proofs.

Contents: [the system](#the-system), [the modules](#the-modules),
[the runs](#the-runs), [bounds](#bounds), [fairness](#fairness),
[what is proved](#what-is-proved), [what is only model-checked](#what-is-only-model-checked),
[disagreements found](#disagreements-found), [what is left out](#what-is-left-out),
[plan](#plan), [running](#running).

## The system

```
   SimpleLoRaApp                                     NetworkServerApp
        |  packets, TXCONFIG                               |  UDP
     LoRaMac                                        PacketForwarder      (one per gateway)
        |  direct calls, signals                           |
     LoRaRadio                                        LoRaGWMac
        |                                                  |
        |                                              LoRaGWRadio
        +----------------- LoRaMedium ---------------------+
                 (or OpalLoRaRadioMedium)
```

An end device sends a frame and then opens two receive windows. Every gateway in
reach forwards a copy to the server. The server collects the copies for 1.2 s, counts
the frame, and may answer it (ADR, adaptive data rate) through the gateway that heard
it best; the answer has to meet one of the two windows. `LoRa_AppPacketSent`, a signal
of the applications, goes around the network: the server and the gateways subscribe
to it and compute delivery ratios from it.

OMNeT++ runs one event at a time. There are no threads: interleaving is the order of
the events of one instant and of overlapping frames, and the nested calls that a
handler makes into another module and that come back through signals.

### Components

| component | state | operations | correct when |
|---|---|---|---|
| `LoRaMac` | FSM of eight states, four window timers, queue of one frame, copies of the radio's reception and transmission state | packet from the application, frame from the radio, four timers, two radio signals | radio and timers are always in step with the FSM; every cycle ends; a reception begins in a window, or overlaps one that did and replaces it |
| `LoRaRadio` | mode, reception timer, transmission timer, reception and transmission states | transmit, start, continue and end of a reception, mode change | a reception that the MAC was told about is concluded |
| `SimpleLoRaApp` | SF, power, `ADR_ACK_CNT`, pending request | send a packet, take a downlink | asks before raising its SF, raises only when not answered |
| `NetworkServerApp` | known nodes with last sequence number, ADR counters and SNIR list; open windows; statistics | copy of a frame, end of a window, signal of the nodes | every frame counted once; best gateway; an answer per 20 frames; ratios are ratios |
| `PacketForwarder` | counters | uplink to the server, downlink to the MAC | forwards each frame once; `LoRa_GW_DER` is a ratio |
| `LoRaGWMac` | `waitingForDC`, duty cycle timer | downlink, uplink, timer, end of transmission | no transmission within the off time of the last one |
| `LoRaGWRadio` | `concurrentReceptions`, `iAmTransmiting` | as LoRaRadio, several receptions at once | half duplex: nothing is received while transmitting |
| `LoRaReceiver` | none, reads the medium and the application | reception possible, attempted, successful; listening | power and collision rule decide alike for both frames of a collision |
| `LoRaMedium`, `LoRaMediumCache` | transmissions, radios, cached arrivals, interference and decisions, removal timer | add and remove radio, add transmission, removal timer, queries | nothing is removed that can still interfere; no stale cached result; sends to the radios there are |
| `VectorCommunicationCache` (INET) | entries of radios, and of receptions per transmission, indexed by radio id | add and remove radio, add and remove transmission | an arrival is found under its radio's index |
| `LoRaNeighborCache` | neighbour list per radio, update timer | add and remove radio, update, send to neighbours | lists hold the radios in range |
| `OpalLoRaRadioMedium`, `OpalLoRaAnalogModel` | callback per receiver, cached powers | transmission, callback, reception | each transmission gets the power computed for it |
| `LoRaTransmitter`, `LoRaTransmission`, `LoRaModulation` | none | time on air | arithmetic |
| `LoRaReception`, `LoRaBandListening` | none | accessors | value objects |
| `LoRaAnalogModel`, path loss models | none | signal power, noise | floating point |
| `LoRaEnergyConsumer` | power drawn now, energy | radio signals | power fits the radio's states |
| `DevAddr` | an address | formatting, parsing, comparison | conversions |
| the rest of INET, `FSMA.h` | | | third-party; the macros of `FSMA.h` are modelled, the MAC runs on them |

The state machine of the MAC is:

```
 IDLE -> TRANSMIT -> WAIT_DELAY_1 -> LISTENING_1 -> WAIT_DELAY_2 -> LISTENING_2 -> IDLE
                                       |    ^                         |    ^
                                       v    |  not for us, dropped    v    |
                                     RECEIVING_1                    RECEIVING_2
                                       |  for us                      |  for us
                                       +-> IDLE                       +-> IDLE
```

### What is hard here

`PROJECT.json` lists every hazard with its line. In short:

* **Nested calls.** `setRadioMode` makes the radio emit `receptionStateChanged`;
  `LoRaMac::receiveSignal` handles it with the FSM, whose entry code calls
  `setRadioMode` again; the outer call then stores a state that is already old
  (LoRaMac.cc:303-330).
* **Timers against frames.** A window's timer fires while a frame is received; its
  event is ignored in `RECEIVING_x`, and the state entered afterwards has to notice
  that its timer is gone (`endX->isScheduled() == false`).
* **Overlapping frames.** A second frame replaces the reception timer of the first
  (LoRaRadio.cc:405-412), so a chain of frames carries a reception on after its window.
* **Copies.** Copies of a frame come from several gateways in any order, those of
  other nodes' frames between them; a window closes 1.2 s after the first.
* **Two clocks for one statistic.** Sent and received frames pass the warm-up filter
  at different times, and the SF reported for a frame is read after a call that may
  change it.
* **Timers known by address.** `LoRaGWRadio` keeps its concurrent receptions as
  pointers to their timers; a reception that ends while the gateway transmits leaves the
  pointer there and deletes the timer (LoRaGWRadio.cc:220-247).
* **A question asked twice.** Whether a frame collides is asked when it starts, when a
  part of it ends, and when it ends, about the transmissions known at that moment;
  whether the gateway transmits, at the same moments only.
* **Forgetting by the front.** The medium removes transmissions in the order they were
  added, with one timer set for the first (LoRaMedium.cc:212-232).
* **Indices from ids.** The medium's list of radios and the communication cache subtract
  ids, and removals at the front shift both by different rules.
* **Callbacks that name a transmitter only.** Opal reports powers by transmitter;
  transmissions overlap, and whoever asks for a reception takes the power that is there.
* **A loop of two counters.** The node counts frames without an answer, the server
  counts frames since its last answer, and the command computed from one frame takes
  effect after the node's state has moved on.

## The modules

| module | models | composed of |
|---|---|---|
| `LoRaMac` | `LoRaMac` and `LoRaRadio` of one device, the packet schedule of `SimpleLoRaApp` | |
| `LoRaCascade` | the synchronous calls between `LoRaMac` and `LoRaRadio` and the macros of `FSMA.h`, as operators, with lemmas about them | |
| `LoRaMacReentrant` | the same device as `LoRaMac`, with these calls spelled out | EXTENDS `LoRaMac`, INSTANCE `LoRaCascade` |
| `FrameCounter` | abstract: what the server promises about frames | |
| `NetworkServerApp` | the server; nodes, gateways and IP network as environment | INSTANCE `FrameCounter` |
| `SimpleLoRaApp` | ADR half of the application | |
| `AdrLoop` | applications and server together | EXTENDS `NetworkServerApp`, INSTANCE `SimpleLoRaApp` |
| `LoRaReceiver` | the collision rule and the sensitivities, as operators | |
| `LoRaMedium` | the medium's transmissions, its removal timer, interference | |
| `LoRaGW` | one gateway on the medium: `LoRaGWRadio`, `LoRaGWMac`, `PacketForwarder` | EXTENDS `LoRaMedium`, `LoRaReceiver` |
| `LoRaTransmitter` | time on air and the gateway's table of pauses, as operators | |
| `LoRaNeighborCache` | neighbour lists and their refill timer | |
| `LoRaMediumRadios` | radios of the medium and rows of its communication cache | EXTENDS `LoRaNeighborCache` |
| `OpalLoRaRadioMedium` | callbacks of the ray tracer and the receptions that take their powers | |
| `*_proofs` | theorems about the module of that name (`LoRaMac_proofs` about `LoRaMacReentrant` too, `Adr_proofs` about the ADR half of `NetworkServerApp` and about `AdrLoop`) | EXTENDS it |
| `MC*` | model values and symmetry for TLC | |

Names are those of the source. `PROJECT.json` maps every definition to its lines. A
definition that no specification uses and that stands before a similar one
(`PopNothing` before `PopTransmissionQueue`) is the one a plausible bug would put in
its place; substituting it makes the property named under `mutants` fail.

### LoRaMac

Time is a set of countdowns. `Tick` lowers them all and is disabled as long as an event
of the current instant is pending, so the events of one instant happen in every order
(OMNeT++ orders them by insertion; the model allows every order).

| model | code |
|---|---|
| `fsm`, `endDelay_1` ... `endListening_2`, `transmissionQueue` | members of LoRaMac |
| `radioMode`, `receptionTimer`, `transmissionTimer` | members of LoRaRadio |
| `air`, `part`, `receiver` | the reception timers scheduled by startReception, one per frame the node can hear |
| `down`, `up` | messages on the gates between MAC and radio |
| `aborted` | `error(...)` at LoRaMac.cc:168, `cRuntimeError` of a radio that already transmits |
| `HandleUpperPacket`, `HandleLowerPacket`, `FireEnd...` | handleUpperPacket, handleLowerPacket, handleSelfMessage |
| `EndTransmission` | LoRaRadio::endTransmission, the signal, finishCurrentTransmission |
| `StartReception`, `ContinueReception`, `EndReception...` | the reception handlers of LoRaRadio with the signals the MAC answers |

A frame has any duration of `AirTimes`, any addressee, and starts at any time.
`attempted` in `StartReception` and the choice between `EndReceptionSuccess` and
`EndReceptionDropped` stand for what `LoRaReceiver` decides from powers and
interference: every outcome is allowed.

An action is a handler with the cascade of nested calls run to its end.
`EnterListening_1` and its relatives say in which state the machine settles, and
`EntryMode` in which mode the radio is left. That this summary is right is what
`LoRaMacReentrant` shows: there a handler calls the operators of `LoRaCascade`, which follow
the source statement by statement (`SetRadioMode`, `UpdateTransceiverState`, the signal
handlers, `HandleWithFsm`), with the radio's states, the MAC's copies of them and the
order of the `FSMA_State` blocks. Each takes the state of MAC and radio when it is called to
the state when it returns. They are mutually recursive in the code, and every cycle of calls
goes through `setRadioMode`; so `LoRaCascade` is one level of the recursion, with the
`setRadioMode` called from within it as the parameter `Nested`, and `LoRaMacReentrant` stacks
five instances, `Level0` on top. Below the last one stands `TooDeep`, which reports an
error. It is never reached: the deepest cascade is that of a device that enters
`LISTENING_1` with all its timers spent and runs on through `WAIT_DELAY_2` and `LISTENING_2` to `IDLE`,
four nested calls. `ImplementsLoRaMac` says that every handler is a step of `LoRaMac`, in which
nothing like `TooDeep` exists; `CopiesAgree` that after each handler the MAC's copies of the
two states are `RECEIVING` and `TRANSMITTING`, the values `receiveSignal` tests for, exactly when the
radio's own states are (a copy may still be `UNDEFINED` where the radio's state is `IDLE`). Both are checked
and proved.

### NetworkServerApp

`SendFrame` is the environment: a node sends a frame, any set of gateways hears it with
any SNIR, and each copy arrives after the air time plus a delay of its own. A copy that
is lost is one no gateway heard. `HandleFrame` is the handler of a message from UDP
(`updateKnownNodes`, then `processLoraMACPacket`), `ProcessScheduledPacket` the end of a
waiting window with `evaluateADR`. `heard` and `counted` are history variables for
`FrameCounter`; `commands` are the ADR packets sent.

`evaluateADR` computes a margin from the SNIR list and takes it down in steps of 3 dB.
The model keeps when it answers, to whom, through which gateway and what it remembers,
and chooses the SF freely among those the code can produce: never above the SF of the
frame answered. `nodeIndex`, which the code does not set on one of the paths that use
it, is a free choice on that path (`CountADRPacket`).

### SimpleLoRaApp and AdrLoop

`SimpleLoRaApp` has the two handlers that matter to ADR: `SendJoinRequest`, in the
order of the source (frame built, counter moved, SF perhaps raised, signal emitted with
the SF it has then), and `HandleDownlink`. `AdrLoop` joins them with the server: the
node's frame is the server's uplink, the signal's value is the node's, and a command
of the server gets to the node in the windows of the frame it answers, and only if the
node still listens in the SF of that frame (`Listens`; LoRaReceiver.cc:69-76), or never.

### LoRaReceiver, LoRaMedium and LoRaGW

`LoRaReceiver` holds `isPacketCollided` as a predicate on signals, with the code's table of
capture thresholds (`nonOrthDelta`, six by six, in dB) and its sensitivities; a signal
has an SF, a frequency, a power, two times and the time from which a collision counts
(the last six preamble symbols).

`LoRaMedium` is the record of transmissions. `sent` is a history variable: all of them.
`transmissions` is what the medium still knows, `Interference` what it would say now of
a reception, `IsInterfering` what is true. The time at which a transmission can be
forgotten is cached when it is added, and the removal takes the longest prefix that
has got there (`Removable`).

`LoRaGW` puts one gateway on it:

| model | code |
|---|---|
| `reception[t]` | how far the reception timer of `t` has come: ARRIVING, one of the parts, ENDED |
| `timer[t]` | the address of that timer; `Addresses` lets `new` return any that was deleted and is not in use |
| `mistaken` | history: receptions not attempted whose timer has an address that is still in the list |
| `concurrentReceptions`, `receptionTimer`, `iAmTransmiting`, `transmissionTimer` | members of LoRaGWRadio |
| `interference[t]` | the communication cache's interference, computed at its first use |
| `waitingForDC`, `dutyCycleTimer`, `GW_forwardedDown`, `GW_droppedDC` | members of LoRaGWMac |
| `toRadio`, `toForwarder` | messages on the gates |
| `StartReception`, `ContinueReception`, `EndReceptionIgnored`, `EndReceptionDecided` | the reception handlers of LoRaGWRadio, with the questions to medium and receiver |
| `StartTransmission`, `EndTransmission` | startTransmission with `addTransmission`, endTransmission |
| `DownlinkArrives`, `DutyCycleEnds`, `ForwardUp` | the handlers of LoRaGWMac, with what PacketForwarder does |
| `NodeTransmits` | a node, or another gateway, puts a frame on the air |
| `RemovalTimerFires` | LoRaMedium::handleMessage |

The events of one instant come in any order, as in `LoRaMac`. `DutyCycleAssumption`
(a pause longer than the time on air) is not assumed of the code: `LoRaTransmitter`
computes both in microseconds from the code's formulas and table, and
`PauseCoversDownlink` in `LoRaGW_proofs` proves it.

### LoRaNeighborCache and LoRaMediumRadios

Radios are on a line and move at most `Speed[r]` per unit. `LoRaMediumRadios` follows
`addRadio` and `removeRadio` through the medium and both caches. `radios` is the
vector with null pointers; `radioCache` and `receptionCache` are the vectors of
`VectorCommunicationCache`, with the stale entries at the front dropped and `baseRadioId`
moved. `IdsTaken` is two for a `LoRaRadio`: its member initializer takes an id from the
counter from which its base class `Radio` has taken one (LoRaRadio.h:44). `corrupted`
says that a vector was used outside its bounds or a radio that was deleted.

### OpalLoRaRadioMedium

| model | code |
|---|---|
| `radios`, `callback` | `receiversRadios` and its OpalReceiverCallback objects |
| `sent[t].power` | what Opal computes for transmission `t`; free choice, fixed by `gain` in a static scene |
| `transmissions` | the medium's transmissions |
| `reception[t][r]` | the power of the cached reception |
| `mapReceptions` | the powers kept in static mode |
| `TransmitPacket` | transmitPacket: Opal's call of all callbacks, or the replay of the map, then sendToRadio |
| `GetReception` | LoRaMedium::getReception when nobody was called back |
| `thrown` | a `cRuntimeError`, `std::out_of_range` or null pointer |

Positions, rays and the scene are Opal's and external.

## The runs

Passing runs:

| run | configuration | properties | what it shows |
|---|---|---|---|
| `mac_single` | one frame at a time, packets 8-9 s apart | `TypeOK`, `NeverAborts`, `ReturnsToIdle` | every cycle ends, before the next packet |
| `mac_overlap` | two overlapping frames, receptions in parts | `RadioFollowsMac`, `TimersFollowMac`, `QueueIsCurrentTransmission`, `OneDownlinkPerUplink`, `ReceptionsChainFromWindow` | radio, timers and queue stay in step however frames overlap; what the MAC takes goes back to a frame that began in a window, one downlink per uplink |
| `mac_reentrant` | the same | `CopiesAgree`, `ImplementsLoRaMac` | the nested calls amount to the atomic handlers |
| `server_frames` | two nodes, two gateways | `ImplementsFrameCounter`, `EveryFrameCounted`, `DeliveryRatio` | frames counted once and in the end, in whatever order copies come |
| `server_adr` | one node, two gateways, two SFs and SNIRs | `TypeOK`, `BestGateway`, `AdrPace`, `AdrPacketsCounted`, `DeliveryRatioPerSF` | when, through whom and how often the server answers |
| `app_adr` | any downlink at any time | `TypeOK`, `RequestNotLost`, `RaiseOnlyUnanswered`, `SilenceEndsInSF12` | the node asks first, raises last, and ends in SF 12 if nobody answers |
| `adr_loop` | node and server, both halves of ADR on | `RequestsAnswered`, `CommandsOnlyLowerSF`, `RaiseNotUndone` | requests are answered; a stale command does not move a node the wrong way |
| `gateway` | two frames of four kinds and two downlinks, receptions whole and in parts, timers at fresh and at reused addresses | `TypeOK`, `DeliveredUncollidedAsChecked`, `HeardIsForwarded`, `HalfDuplexAtEnds`, `RemovedAfterArrival`, `ForwardedDownIsTransmitted`, `CollisionCountedOnce`, `GatewayRatio`, `MediumEmpties` | what the gateway delivers and what it does not; the medium forgets neither too early nor never |
| `opal` | three radios of which one comes and leaves, three transmissions, static and not | `ThrowsOnlyAfterRemoval`, `ReceptionHasItsPower` | every reception gets the power of its own transmission (in static mode, of its transmitter's first) |
| `radios` | four radios, one late, one moving, all may leave | `ReceiversAreRadios`, `ArrivalsFound`, `NeighborsComplete` | the list is that of the radios there are, no arrival is lost or found in another's place, no radio comes into range unnoticed |

The other two, `mac_abort` and `loop_node_index`, check one property each that a comment or a
name in the repository promises and the code does not keep. Further configurations, not part of the regular set,
demonstrate more such cases; see [disagreements](#disagreements-found).

Why these properties are not obvious from the code:

* `RadioFollowsMac` in `LISTENING_x` and `RECEIVING_x` depends on a mode change inside a
  signal handler inside a mode change; a `RECEIVING_x` whose reception never ends would
  hang the device.
* `TimersFollowMac` needs the order of the four timers and the `cancelEvent` calls of both
  windows; `scheduleAt` on a timer left over from a previous cycle stops the simulation.
* `ImplementsFrameCounter` needs that the copies of a frame arrive closer together than
  the window is long: `isPacketProcessed` (NetworkServerApp.cc:153) lets a copy of the
  latest frame through even if it was counted.
* `RaiseNotUndone` holds because of the receiver, not of the ADR code: the answer to the
  frame with which a node raised its SF carries the lower SF and would set it without
  a comparison, but leaves in the SF the node no longer listens to.
* `DeliveredUncollidedAsChecked` compares the gateway's answer, from what the medium knew
  at two or more moments, with all transmissions ever made. At the first moment the
  later ones have not begun; at the last one the earlier ones may be forgotten.
* `HeardIsForwarded` is the other direction: no uplink that was heard well is dropped
  because another reception overwrote `receptionTimer` (LoRaGWRadio.cc:159, 183, 221).
* `MediumEmpties` needs that the single timer, set for the front, is set again when the
  front leaves, and that a long frame at the front holds the others only for a while.
* `ReceptionHasItsPower` holds although Opal names no transmission: all callbacks are
  called, and their powers taken, before `transmitPacket` returns.
* `ReceptionsChainFromWindow` is what is left of "a device receives in its windows only": in
  `RECEIVING_x` the window's timer may have fired, and the radio still takes a frame that
  overlaps the one it receives. The first of such a chain began in the window, each other one
  during the one before, and only the last one is finished.
* `HalfDuplexAtEnds`, `DeliveredUncollidedAsChecked` and `CollisionCountedOnce` set a frame apart only
  if it is `mistaken`: ignored or collided when it started, but with a timer at an address that
  the list still holds. `HeardIsForwarded` holds without that exception.
* `ArrivalsFound` relates the row of a transmission, as long as the highest id was when
  it began, to indices that shift when radios at the front leave while it is on the air. Every radio but
  the transmitter must be found: no arrival lost, none at two places.

## Bounds

One unit of the MAC's time is one second, as in `LoRaMac.cc:55-58`: the delays and windows
are the code's own values, except where said below. The code's other constants are scaled
down with their relations kept.

| constant | value | why it is enough |
|---|---|---|
| `Frames` | 1 or 2 | two frames overlap in every way a pair can; a frame can end and be heard again, so chains of receptions occur |
| levels of nested calls | 5 | the deepest cascade needs four, which is proved (`Implements`) |
| `AirTimes` | {1, 2} | shorter than, equal to and longer than a window |
| `listening1Time` | 1; 4 in the overlap runs | 4 lets a frame in three parts begin and end inside the window, and another one follow |
| `MinGap`, `MaxGap` | 8, 9; 12 in the overlap runs | uplink 1, windows 4, a frame 2: the smallest gap with which the MAC is back in time (see `NeverAbortsWithoutOverlap`); SimpleLoRaApp.cc:111-123 keeps packets at least 7.8 s apart |
| `numberOfPacketsToSend` | 2 or 3 | the second cycle meets what the first left over |
| `MaxFrames` | 2 (two nodes), 5 (one) | consecutive frames of a node whose copies overlap; two ADR rounds less one frame |
| `MinGap` of the server | 6 | air time, jitter and window fit between two frames, as they do in the code |
| `MaxJitter`, `Window` | 1, 2 | `MaxJitter < Window`, the relation the code relies on (IP delays below 1.2 s) |
| `AdrFrames` | 3 for 20 (2 or 10 where ADR must be absent or rare) | the list limit and the counter limit are still two different events |
| `MaxSNIR` | 0 or 1 | a better, a worse and an equal gateway |
| `ADR_ACK_LIMIT`, `ADR_ACK_DELAY` | 3 and 2; 1 and 1 in the loop (64 and 32 in the code) | `LIMIT` > 1 for the application alone, the smallest cycle for the loop, where requests and raises occur in five frames |
| `RxWindows` | 5 | the node's two windows and the uplink |
| `NodeFrames` (gateway) | four kinds: SF 7 strong; SF 7 of another gateway, captured or capturing by order of arrival; SF 12 that both drown; SF 12 below the sensitivity | every branch of the collision rule, uplinks and frames that are not, durations 4 and 8, arrival at once and delayed |
| `MaxSent`, `MaxDownlinks`, `LastStart`, `MaxTime` | 2, 2, 3, 15 | two receptions and two transmissions overlap in every way within four instants; the second downlink meets the duty cycle of the first or its end; `MaxTime` is past the last removal, so `MediumEmpties` is about every transmission |
| `maxTransmissionDuration` | 1 | as short as the model allows, the worst case for forgetting too early: the medium keeps a transmission this much longer than its arrival |
| `Radios`, `MaxTransmissions` (opal) | 3, 3 | two transmissions of one radio around one of another, with a third radio to hear them |
| `TransmissionPowers`, `Gains` | {1, 2}, {0, 1} | two powers that differ, and none |
| `Radios`, `Places`, `MaxTime` (radios) | 4, 0..3, 4 | two nodes and a gateway to begin with and a node that comes late; each of them may leave, also the last; places out of range 1 of each other; two refills (`refillPeriod` 2) |
| `Speed`, `OnlyFirstLeaves` | one radio moves; TRUE | see `MCLoRaMediumRadios_moving` and `_removed` for the other cases |

Deadlock is checked in every run but five. In `mac_overlap` and `mac_reentrant` a reception
given up between two parts leaves the MAC in `RECEIVING_x`, the next packet stops the
simulation, and a stopped simulation takes no step. `gateway` and `radios` end at
`MaxTime`, the simulation's time limit; `opal` has no clock and ends when its transmissions
are made and forgotten, or when the simulation stops with an error.

## Fairness

`FairSpec` of `LoRaMac` asks for weak fairness of the MAC's and the radio's pending
handlers and of `Tick`; `FairSpec` of `NetworkServerApp` of `Receive`, `EndOfWaiting` and
`Tick`; `FairSpec` of `SimpleLoRaApp` of each application's own timer; `FairSpec` of `LoRaGW`
of `Handlers` (any pending event of radio, MAC, forwarder and medium) and of `Tick`. All say the
same of the code: the event loop does not stop while an event is scheduled. Nothing is
assumed about the environment: no frame has to arrive, no copy has to get through, no
downlink has to come, and no node of `NetworkServerApp` or around `LoRaGW` has to send.

`SilenceEndsInSF12` is therefore of the form "either downlinks keep coming that
change something, or the SF stays 12 from some time on".

## What is proved

By TLAPS, for every value of the constants that the assumptions of the module admit
(durations are naturals, positive where the code needs it; `Frames`, `Nodes`, `Gateways`
are any sets, finite or not).

### LoRaMac_proofs

`InductiveInvariant: Spec => []IInv`, with

```
IInv == TypeOK /\ TimerOrder /\ TimersSpent /\ TimersFollowMac
        /\ RadioFollowsMac /\ PartInv /\ CountInv /\ QueueIsCurrentTransmission
```

None of the properties is inductive alone. That `LISTENING_2` has its timer needs that
the timer of the second window fires after that of the delay before it (`TimerOrder`).
That an idle MAC has no timer left needs to know in every state which timers are off
(`TimersSpent`). `OneDownlinkPerUplink` needs that a cycle still open has one uplink in
hand (`CountInv`). `PartInv` says that without `separateReceptionParts` no frame is in
parts. There is a lemma per part of the invariant with a step per action.

| theorem | says | assumptions |
|---|---|---|
| `TypeCorrect`, `RadioCorrect`, `TimersCorrect`, `DownlinksCorrect`, `QueueCorrect` | the invariants of `mac_single` and `mac_overlap` | none |
| `WindowsCorrect` | the action property `ReceptionsChainFromWindow` | none |
| `NeverAbortsWithoutOverlap` | no packet meets a busy MAC | `Frames = {f}`, no parts, `MinGap > UplinkAirTime + RxWindows + d` for every air time `d` |

The last one gives a condition under which "it should not happen" is true, and
the two configurations that violate `NeverAborts` drop one assumption each (`mac_abort` the single frame, `MCLoRaMac_stuck` the undivided receptions). Its invariant
`GapInv` bounds the time to the next packet from below by the rest of the transmission,
then of the windows, then of the frame being received.

The second half of the module is about `LoRaMacReentrant`:

| theorem | says | assumptions |
|---|---|---|
| `Implements` | `ImplementsLoRaMac`: the initial states are those of `LoRaMac`, and every handler with all the calls nested in it is one of its steps | none |
| `CopiesCorrect` | `CopiesAgree` | none |
| `ReentrantInvariant` | `RIInv`, the invariant behind both | none |

Through `Implements`, all that is proved of `LoRaMac` holds of the code's nested calls.

The argument goes up the levels. A state of MAC and radio is `Quiet` if the radio neither
receives nor transmits, its states are those of its mode and the MAC's copies are not
those of a reception or a transmission that is over. From a quiet state, the entry code of a
state of the FSM leads to where the timers say that the machine settles (`Settles`): `LISTENING_1` stays
if its timer runs, else it is `WAIT_DELAY_2`, and so on. What `SetRadioMode` of one level
settles follows from what the level below it settles (`SettlesFrom` in `LoRaCascade`): the
lowest only `IDLE` and `WAIT_DELAY_1`, which are never left at once, the next one `LISTENING_2` in
addition, then `WAIT_DELAY_2`, then `LISTENING_1` (`Level4Settles` to `Level1Settles`). The calls made
when a reception ends, is given up or dropped (`SleepsWhenEnded`, `AbortsReception`) and when a transmission starts or ends
(`SwitchesOn`, `SwitchesOff`) are brought back to a quiet state in the same way. The handlers then have
a lemma each (`UpperPacket` to `FrameEnds`), which shows the step of `LoRaMac` it is.

`RIInv` joins `LoRaMac`'s `IInv`, which the refinement carries over, with `StatesInv`: the radio's
states fit mode and timers between handlers, and the copies agree. `StatesInv` is needed because
the radio only emits a signal when its state has changed; that a stale copy is
harmless is the content of `CopiesAgree`, since the copy decides whether
the next signal puts the radio to sleep.

### NetworkServerApp_proofs

| theorem | says | assumptions |
|---|---|---|
| `TypeCorrect` | `TypeOK`; needs that an open window holds a reading, so that a gateway can be picked (`PickedGatewayIsBest`, from the least-element lemma `LeastNatural`) | none |
| `ServerImplementsFrameCounter` | the refinement, hence no frame is counted twice | `MaxJitter < Window` |
| `DeliveryRatioCorrect` | `LoRa_NS_DER` is at most one | `MaxJitter < Window`, `WarmupPeriod = 0` |

`CountInv` is the invariant behind the refinement. Copies on their way belong to frames
that are not counted (`CopiesNew`); two copies of one frame are at most `MaxJitter` apart
(`CopiesTogether`); a copy whose frame has an open window arrives before it closes
(`CopiesInWindow`); a window is of a frame heard and not counted (`WindowsNew`); a frame has
one window (`OneWindow`). `CopiesInWindow` is where `MaxJitter < Window` is used, and
`CopiesNew` after the end of a window is what it is needed for. The ratio follows because
the counted frames are among those sent (`RatioInv`, by cardinality).

### Adr_proofs

About `NetworkServerApp`. All four need `CountInv`, hence `MaxJitter < Window`.

| theorem | says | further assumptions |
|---|---|---|
| `AnswersKeepPace` | `AdrPace`: one answer per `AdrFrames` counted frames, and the SNIR list as long as it should be (not which values it holds) | none |
| `AnswersAreCounted` | `AdrPacketsCounted`; the property itself speaks of runs without warm-up and without requests | none |
| `AnswersThroughBestGateway` | `BestGateway` | none |
| `DeliveryRatioPerSFCorrect` | the ratio of each SF is at most one where frames are reported with the SF they are sent in | `WarmupPeriod = 0` |

`PaceInv` adds that nothing on its way asks for an answer (where `AdrPace` claims
something) and that every command answers a counted frame, so that a new command is a
new element of `commands`. `BestInv` ties the readings of an open window to the copies that
came: every copy not on its way any more is a reading (`NoneMissing`), every reading was
heard (`ReadingsAreHeard`), and the window is that of the node's last frame
(`LastIsCurrent`). `PerSFInv` counts for each SF: frames counted plus frames pending are
no more than frames sent.

About `AdrLoop`: `EveryRequestAnswered`, `OnlyNodesRaise` and `RaisesStand`, from `LoopAssumption` only: not even
`MaxJitter < Window`. `LoopInv` has the parts `FramesOfNodes` (a copy or reading on its way
carries what the node sent), `CommandsForNodes` (a command lowers or keeps the SF of the
frame it answers), `CountedAreSent` and `RaiseKept` (a node that raised its SF with its last
frame has the raised one). The composition is the point: `CommandsOnlyLowerSF` is about
the node, its reason is in the server and in `Listens`.

### SimpleLoRaApp_proofs

`TypeCorrect`, `RequestKept` and `RaiseIsLastResort`, from `AppInv` (`TypeOK`, `RequestNotLost`
and that the counter stays 0 without `evaluateADRinNode`). No assumption beyond the module's.

### LoRaGW_proofs

| theorem | says | assumptions |
|---|---|---|
| `DownlinksTransmitted` | `ForwardedDownIsTransmitted` | none |
| `MediumForgetsLate` | `RemovedAfterArrival` | none |
| `TypeCorrect` | `TypeOK`: the lists hold timers of started receptions, `receptionTimer` is one of them or null | none |
| `DeliveryRatio` | `GatewayRatio`: `LoRa_GW_DER` is at most one | `WarmupPeriod = 0` |
| `NoCollidedFrameIsDelivered` | `DeliveredUncollidedAsChecked` | none |
| `WhatIsHeardIsForwarded` | `HeardIsForwarded`, the converse | none |
| `CollisionsCountedOnce` | `CollisionCountedOnce` | none |
| `HalfDuplex` | `HalfDuplexAtEnds` | none |

They hold for any frames, powers, delays and durations, any number of them, and any addresses
that the allocator gives their timers.
`DownInv` says that while the radio transmits or a frame is on its way to it, the duty
cycle timer is later than the transmission's end (`Covered`). `MediumInv` says that what is
known is a suffix of what was sent, and gives each transmission's cached end of
interference in terms of its arrivals. `HeardInv` is the argument about the two
moments: a reception in the list that is not `mistaken` was free of what had begun when it was last looked at
(`AttemptedChecked`), a cached interference holds everything that can still matter
(`CachedInv`), because what interferes with something still arriving is still known
(`StillKnown`). `HalfInv` says the same of the gateway's own transmissions.
`AddressInv` is where the addresses come in: the timers of receptions in progress have
addresses of their own, but the list may also hold the address of a timer that was deleted. A
reception is `Listed` while its own timer's address is in it; either the radio attempted it when
it started, or it is `mistaken`.

`CleanInv` is the converse. A frame is `Clean` as long as nothing has collided with it and
the gateway was silent when it arrived, which can only change from true to false
(`CleanBefore`); a clean frame that is being received is in `concurrentReceptions`, and one
that ended in silence and is strong enough has been delivered. It holds because only its
own timer takes a frame out of the list, whatever the others do to `receptionTimer`, and
because what the medium and the cache offer as interference does interfere
(`LookedAt`). `OnAir` says that a radio that transmits has one of its transmissions on the air. What has
been delivered is then forwarded or waits for the MAC (`UpInv`), each frame once:
that is also what `DeliveryRatio` needs, whose counters are the numbers of forwarded
and of sent uplinks (`Counters`).

`CollisionInv` counts for each frame by itself: none before its reception has started, none as long as
it is listed, or one if it is mistaken (it was counted as collided when it started), and after that one
verdict, or two. Being taken off the list is what pays for the one time a
reception can still be counted.

`TenPercent`: the six constants of `LoRaGWMac` are exactly ten times the time on air of a
downlink of that SF at coding rate 4. `PauseCoversDownlink`: the pause is longer than
the time on air for every SF and coding rate. It discharges `DutyCycleAssumption`.

### LoRaMediumRadios_proofs

| theorem | says | assumptions |
|---|---|---|
| `ListHoldsTheRadios` | `ReceiversAreRadios` | `OnlyFirstLeaves = TRUE` |
| `CacheFindsArrivals` | `ArrivalsFound` | `OnlyFirstLeaves = TRUE` |
| `ListsAreComplete` | `NeighborsComplete` | none |

For any radios, speeds, ranges and refill periods. `RadiosInv` has the parts `IdInv` (ids are given
out in order and belong to one radio), `CacheInv` (what lies in front of `baseRadioId` in
the two vectors of the communication cache is gone, and the rest is at its radio's index, in
whatever order radios leave), `NeighborType` (among others: the maximum speed is a number as long as a radio of the
beginning is there) and `ReachInv` (how far two radios can have come since
the lists were filled, which is what the margin of the neighbour cache must cover). `ListInv` is the
part about the medium's own list: that its index is the id less the number of ids gone needs that
radios leave in the order of their ids, which `OnlyFirstLeaves` says and
`MCLoRaMediumRadios_removed` shows to be necessary. `ArrivalInv` joins the two: `addTransmission` makes an arrival for
each radio of the medium's list, and so one for each radio there is only while the list is right; every
row has the arrival of every radio but the transmitter at that radio's place, `RowsExtended` and
`RowsCut` say what a radio that comes and one that leaves do to a row.

### OpalLoRaRadioMedium_proofs

`ThrowsAfterRemovalOnly` and `ReceptionsHaveTheirPower`, for `radioModeFilter = FALSE`
(RadioMedium.ned:54 has it so and no configuration sets it). In static mode both take the
reuse of a transmitter's first powers for granted. `OpalInv`: no callback holds a
power between events (`NoPowerLeftOver`); a reception not computed yet is one of no
power (`ReceptionInv`); in a static scene the map holds all powers of the first frame of
every transmitter (`MapInv`); a transmitter that is gone while the medium knows a
transmission of it has left a pending one (`KnownOrPending`).

## What is only model-checked

* Liveness: `ReturnsToIdle`, `EveryFrameCounted`, `SilenceEndsInSF12`, `MediumEmpties`. TLAPS
  does not prove properties that rest on fairness.

## Disagreements found

In each of these the code does not do what a comment, a name or a documented interface says of it:

| run or configuration | line | what happens |
|---|---|---|
| `mac_abort` | LoRaMac.cc:165 | Frames for others that overlap the end of the second window keep the MAC in `RECEIVING_2` until the next packet, and the simulation stops with "Wrong, it should not happen" |
| `MCLoRaMac_stuck` | LoRaRadio.cc:441 | With `separateReceptionParts`, a frame given up between two parts is not reported; the MAC stays in `RECEIVING_x` for ever and the next packet ends in the same error |
| `loop_node_index` | NetworkServerApp.cc:376 | An answer to a request increments the entry `nodeIndex`, which was not set: "Send ADR for node" misses the packet or counts it for another node |
| `MCLoRaGW_address` | LoRaGWRadio.cc:220 | The address of a timer deleted while the gateway transmitted (246) stays in `concurrentReceptions`; a new timer at that address is taken for an attempted reception, and a frame that collided can be sent up (the comment at LoRaReceiver.cc:241 lets the collision check stand for the SINR) |
| `MCOpalLoRaRadioMedium_removed` | OpalLoRaRadioMedium.cc:595 | "Transmitter may have been removed" (578): the pointer of a removed transmitter is never null, so the lookup throws; `pendingTransmissions` is filled but never read |
| `MCLoRaMediumRadios_removed` | LoRaMedium.cc:418 | Radios that leave out of order: a `LoRaRadio` takes two ids, the index is wrong, and a removed radio keeps getting transmissions or the vector is used outside its bounds (IRadioMedium.h:119-124 promise the opposite) |
| `MCLoRaMediumRadios_neighbors` | LoRaNeighborCache.cc:143 | `removeRadioFromNeighborLists` erases from copies: `sendToNeighbors` sends to a radio that was removed and deleted, until the next refill (3000 s in loraNetwork_skeleton.ini), or for good if nothing moves (same promise) |
| `MCLoRaMediumRadios_moving` | LoRaNeighborCache.cc:93 | The margin is one radio's movement; if both move, a radio within range is not sent to (INeighborCache.h:38-39) |

Of these the repository says nothing:

| configuration | line | what happens |
|---|---|---|
| `MCNetworkServerApp_warmup` | NetworkServerApp.cc:259 | A frame sent before the end of the warm-up and counted after it makes `LoRa_NS_DER` exceed one |
| `MCAdrLoop_raised_sf` | SimpleLoRaApp.cc:201 | The frame with which a node raises its SF is reported as sent in the new SF and received in the old one: `DER SFx` exceeds one |
| `MCOpalLoRaRadioMedium_static` | OpalLoRaRadioMedium.cc:412 | In static mode a transmitter that changes its power, as ADR does, is still received with the powers of its first frame |

Two more are part of the model and of no property. When the last radio leaves,
`LoRaMedium::removeRadio` looks at the entry after the last of `radios` before it asks whether there is one
(LoRaMedium.cc:421); `corrupted` is then true, and `ReceiversAreRadios` is about a medium with a radio left.
And the maximum speed of no radio is not a number (LoRaMediumCache.cc:144-152): a first radio that
comes to an empty medium starts the refills whether it moves or not, and the lists stay empty until they are made again after a
second one has come (LoRaNeighborCache.cc:93, 112-114); `NeighborsComplete` is about the radios of the beginning.

`mac_abort` and `loop_node_index` are runs of the regular set and findings in `PROJECT.json`; the others are
configurations that TLC finds violated in the same way.

The configurations in the repository set `separateReceptionParts = false`, so `MCLoRaMac_stuck`
concerns a documented parameter nobody uses there; radios do not leave during a simulation of the
repository's examples. `mac_abort`, `MCLoRaGW_address` and `MCNetworkServerApp_warmup` need nothing special;
`loop_node_index` and `MCAdrLoop_raised_sf` need `evaluateADRinNode`.

## What is left out

* Of `LoRaRadio`: nonzero `switchingTimes` (all configurations use zero),
  `separateTransmissionParts`, node start, shutdown and crash, and a `radioModeFilter` that
  delivers a frame already under way when the receiver is switched on.
* Of `LoRaMac`: `sendAckFrame`, which nothing calls.
* Of `LoRaGWRadio` and `LoRaGWMac`: `separateTransmissionParts`; `abortReception`,
  `sendPacketBack`, `createFakeLoRaMacFrame` and the MAC's `receiveSignal`, which nothing
  calls or nothing triggers.
* Of `LoRaReceiver`: indications, listenings, the sensitivities at 250 and 500 kHz. Below an
  end device the decisions are the free choices `attempted` and success of `LoRaMac`; the SF
  a device listens with is in `AdrLoop` only.
* Of `LoRaMedium`: filters by listening, MAC address and range, logs.
* Of `LoRaMediumCache`: limits other than the speed and the longest transmission; of
  `VectorCommunicationCache`: the base index of transmissions.
* Of `OpalLoRaRadioMedium`: scene, rays, positions; a floating-point power is a natural number.
* Transmission power, in the application and in ADR commands; the margin arithmetic of
  `evaluateADR`.
* Vectors, histograms, the placement of nodes, scalars recorded at the end.
* `LoRaEnergyConsumer`: sums of floating-point products, with no state that acts back on
  the radio. Path loss and analog models: floating point, partly random.
* `LoRaTransmission`, `LoRaReception`, `LoRaModulation`, `LoRaBandListening`, `DevAddr`: value objects.
* INET itself: some 2000 of the repository's C++ files, from TCP to OSPF and SCTP, are a
  vendored copy of a general framework of which a LoRa simulation uses the event kernel,
  the UDP/IP path between gateways and server and the mobility modules. It is the
  environment here, which is why the mapped lines are a small part of all lines of the
  repository although they are most of the stateful code of the LoRa stack.

## Plan

Done, in this order: `LoRaMac`, `LoRaMacReentrant`, `NetworkServerApp` with
`FrameCounter`, `SimpleLoRaApp`, `AdrLoop`, `LoRaReceiver` with `LoRaMedium` and `LoRaGW`,
`LoRaTransmitter`, `LoRaNeighborCache` with `LoRaMediumRadios`, `OpalLoRaRadioMedium`; the
proofs listed above.

What would come next, most important first:

1. The downlink path: `AdrLoop` with the gateway's duty cycle and the device's windows,
   which tells whether an answer 1.2 s after the first copy meets a window.
2. The margin loop of `evaluateADR` against its closed form.
3. Start, shutdown and crash of a node, of which the radio's handlers are in the code but
   no configuration uses them.

## Running

```
tlc -workers 2 -config MCLoRaGW_gateway.cfg MCLoRaGW.tla     # one run
tlapm LoRaGW_proofs.tla                                      # one module of proofs
```

Each module of proofs takes between a few seconds and four minutes. The largest runs, `opal`
(1.4 million distinct states) and `radios` (826 thousand), take about a minute each; `gateway` and
`server_adr` (367 thousand) take less.
