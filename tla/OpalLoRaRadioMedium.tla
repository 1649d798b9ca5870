------------------------ MODULE OpalLoRaRadioMedium ------------------------
(***************************************************************************)
(* LoRaPhy/OpalLoRaRadioMedium.cc: how the powers that the ray tracer Opal *)
(* computes get to the receptions they belong to.                          *)
(*                                                                         *)
(* Opal knows transmitters and receivers, not transmissions: while a radio *)
(* transmits it calls the callback of every receiver it reaches with the   *)
(* power and the id of the transmitter.  The callback remembers both and   *)
(* asks the medium for the reception of the transmission it was told of    *)
(* last, and computing that reception takes the power out of the callback. *)
(* The medium may also ask for a reception on its own, of any transmission *)
(* it still knows.  In static mode Opal is asked once per transmitter.     *)
(***************************************************************************)
EXTENDS Integers, Sequences

CONSTANTS
    Radios, InitialRadios,   \* all radios, those there when the simulation starts
    Removable,               \* those that may leave
    radioModeFilter,         \* whether the medium leaves receivers out that are switched off
    TransmissionPowers,      \* powers a frame is sent with
    Gains,                   \* what is left of it on a way; 0 if no ray gets there
    MaxTransmissions         \* bound

NotComputed == -1
NoTransmission == 0
NoPowers == [r \in {} |-> 0]   \* an empty map

ASSUME RadiosAssumption == InitialRadios \subseteq Radios /\ Removable \subseteq Radios
ASSUME PowersAssumption == TransmissionPowers \subseteq Nat \ {0} /\ Gains \subseteq Nat
ASSUME FilterAssumption == radioModeFilter \in BOOLEAN

VARIABLES
    isStatic,             \* read by initialize
    gain,                 \* of a static scene, from radio to radio
    radios,               \* the keys of receiversRadios
    left,                 \* radios that are gone
    callback,             \* of every radio: OpalReceiverCallback
    sent,                 \* all transmissions: [transmitter, power], power as Opal computes it
    transmissions,        \* LoRaMedium::transmissions, as places in sent
    reception,            \* of every transmission and radio: the power of the cached reception
    mapReceptions,        \* static mode: of every transmitter, the powers of its first frame
    pendingTransmissions, \* transmissions of radios that have left
    thrown                \* a cRuntimeError or a null pointer has stopped the simulation

vars == <<isStatic, gain, radios, left, callback, sent, transmissions, reception, mapReceptions, pendingTransmissions, thrown>>

\* The constructor and reset() of OpalReceiverCallback; reset() keeps the transmission.
Nobody == "nobody"
NewCallback == [hasReceivedPower |-> FALSE, lastPower |-> 0, lastTransmitterId |-> Nobody,
                transmission |-> NoTransmission]
Reset(c) == [c EXCEPT !.hasReceivedPower = FALSE, !.lastPower = 0, !.lastTransmitterId = Nobody]

Init ==
    /\ isStatic \in BOOLEAN
    /\ gain \in IF isStatic THEN {g \in [Radios -> [Radios -> Gains]] : \A r \in Radios : g[r][r] = 0} ELSE {<<>>}
    /\ radios = InitialRadios /\ left = {}
    /\ callback = [r \in Radios |-> NewCallback]
    /\ sent = <<>> /\ transmissions = <<>> /\ reception = <<>>
    /\ mapReceptions = NoPowers /\ pendingTransmissions = {}
    /\ thrown = FALSE

-----------------------------------------------------------------------------
\* opalComputeReception at r of a transmission of tx, with r's callback c: when it throws, ...
ComputeThrows(r, tx, c) ==
    \/ tx \notin radios
    \/ c.hasReceivedPower /\ (c.lastTransmitterId # tx \/ r = tx)

\* ... the power it finds, and the callback it leaves.
PowerIn(c) == IF c.hasReceivedPower THEN c.lastPower ELSE 0
AfterCompute(c) == IF c.hasReceivedPower THEN Reset(c) ELSE c

\* The powers `found' added to those known already, which stay.
Completed(known, found) ==
    [r \in DOMAIN known \union DOMAIN found |-> IF r \in DOMAIN known THEN known[r] ELSE found[r]]

\* mapReceptions with the powers `found' of a transmitter added, and with an entry for tx.
WithPowers(map, tx, found) ==
    IF isStatic /\ tx \in DOMAIN map THEN [map EXCEPT ![tx] = Completed(@, found)] ELSE map
WithEntry(map, tx) == Completed(map, [x \in {tx} |-> NoPowers])

\* createReception: the power is stored, then the reception computed unless it is cached.
CreateReceptionStores(r, c, computed) == FALSE
CreateReceptionComputes(r, c, computed) ==
    c.transmission # NoTransmission /\ computed[c.transmission][r] = NotComputed

\* The frame is on its way to the radios in `listeners'; sendToRadio tells their callbacks.
ToldOnce(r, t, listeners) ==
    [callback[r] EXCEPT !.transmission = IF r \in listeners /\ @ = NoTransmission THEN t ELSE @]
Told(r, t, listeners) ==
    [callback[r] EXCEPT !.transmission = IF r \in listeners THEN t ELSE @]

\* transmitPacket: Opal, or in static mode the powers of the first frame, call `called'.
TransmitPacket(tx, power, listeners) ==
    LET t == Len(sent) + 1
        computed == Append(reception, [r \in Radios |-> NotComputed])
        replayed == isStatic /\ tx \in DOMAIN mapReceptions
        powers == IF replayed THEN mapReceptions[tx] ELSE power
        called == {r \in DOMAIN powers : powers[r] # 0}
        after == [r \in called |->
                    [Told(r, t, listeners) EXCEPT !.hasReceivedPower = TRUE, !.lastPower = powers[r],
                                                  !.lastTransmitterId = tx]]
        computes == {r \in called : CreateReceptionComputes(r, after[r], computed)}
        Of(r) == after[r].transmission
        stops == \/ called \ radios # {}
                 \/ \E r \in called \cap radios :
                        \/ Of(r) \notin {transmissions[i] : i \in DOMAIN transmissions} \union {t}
                        \/ r \in computes
                           /\ ComputeThrows(r, IF Of(r) = t THEN tx ELSE sent[Of(r)].transmitter, after[r])
    IN
    IF stops
    THEN thrown' = TRUE /\ UNCHANGED <<callback, sent, transmissions, reception, mapReceptions>>
    ELSE /\ sent' = Append(sent, [transmitter |-> tx, power |-> power])
         /\ transmissions' = Append(transmissions, t)
         /\ callback' = [r \in Radios |->
                            IF r \in computes THEN AfterCompute(after[r])
                            ELSE IF r \in called THEN after[r] ELSE Told(r, t, listeners)]
         /\ reception' = [u \in DOMAIN computed |-> [r \in Radios |->
                            IF r \in computes /\ Of(r) = u THEN PowerIn(after[r]) ELSE computed[u][r]]]
         /\ mapReceptions' =
                IF isStatic
                THEN WithPowers(WithEntry(mapReceptions, tx), tx, [r \in computes |-> PowerIn(after[r])])
                ELSE mapReceptions
         /\ UNCHANGED thrown

\* What Opal computes for a frame of tx sent with tp: a free choice unless the scene is static.
PowersOf(tx, tp) ==
    LET others == radios \ {tx} IN
    IF isStatic THEN {[r \in others |-> tp * gain[tx][r]]}
    ELSE {[r \in others |-> tp * g[r]] : g \in [others -> Gains]}

Transmit(tx) ==
    /\ ~thrown /\ tx \in radios /\ Len(sent) < MaxTransmissions
    /\ \E tp \in TransmissionPowers :
        \E power \in PowersOf(tx, tp),
           listeners \in IF radioModeFilter THEN SUBSET (radios \ {tx}) ELSE {radios \ {tx}} :
            TransmitPacket(tx, power, listeners)
    /\ UNCHANGED <<isStatic, gain, radios, left, pendingTransmissions>>

\* getReception not from a callback: a reception starts, or a transmission interferes with one.
GetReception(r, t) ==
    LET tx == sent[t].transmitter IN
    /\ ~thrown /\ r \in radios \intersect DOMAIN sent[t].power
    /\ \E i \in DOMAIN transmissions : transmissions[i] = t
    /\ reception[t][r] = NotComputed
    /\ IF ComputeThrows(r, tx, callback[r])
       THEN thrown' = TRUE /\ UNCHANGED <<callback, reception, mapReceptions>>
       ELSE /\ reception' = [reception EXCEPT ![t][r] = PowerIn(callback[r])]
            /\ mapReceptions' = WithPowers(mapReceptions, tx, [x \in {r} |-> PowerIn(callback[r])])
            /\ callback' = [callback EXCEPT ![r] = AfterCompute(@)]
            /\ UNCHANGED thrown
    /\ UNCHANGED <<isStatic, gain, radios, left, sent, transmissions, pendingTransmissions>>

\* LoRaMedium::removeNonInterferingTransmissions.
ForgetTransmission ==
    /\ ~thrown /\ transmissions # <<>>
    /\ transmissions' = Tail(transmissions)
    /\ UNCHANGED <<isStatic, gain, radios, left, callback, sent, reception, mapReceptions, pendingTransmissions, thrown>>

-----------------------------------------------------------------------------
AddRadio(r) ==
    /\ ~thrown /\ r \in Radios \ (radios \union left)
    /\ radios' = radios \union {r}
    /\ callback' = [callback EXCEPT ![r] = NewCallback]
    /\ UNCHANGED <<isStatic, gain, left, sent, transmissions, reception, mapReceptions, pendingTransmissions, thrown>>

\* The first transmission of r that the medium knows is kept as a pending one.
RemoveRadio(r) ==
    LET own == {i \in DOMAIN transmissions : sent[transmissions[i]].transmitter = r} IN
    /\ ~thrown /\ r \in radios \intersect Removable
    /\ radios' = radios \ {r} /\ left' = left \union {r}
    /\ pendingTransmissions' = pendingTransmissions \union
            {transmissions[i] : i \in {j \in own : \A k \in own : j <= k}}
    /\ callback' = [callback EXCEPT ![r] = NewCallback]
    /\ UNCHANGED <<isStatic, gain, sent, transmissions, reception, mapReceptions, thrown>>

Next ==
    \/ \E r \in Radios : Transmit(r) \/ AddRadio(r) \/ RemoveRadio(r)
    \/ \E r \in Radios, t \in DOMAIN sent : GetReception(r, t)
    \/ ForgetTransmission
Spec == Init /\ [][Next]_vars

-----------------------------------------------------------------------------
\* The first transmission of the transmitter of t.
FirstOf(t) ==
    CHOOSE u \in DOMAIN sent :
        /\ sent[u].transmitter = sent[t].transmitter
        /\ \A v \in DOMAIN sent : sent[v].transmitter = sent[t].transmitter => u <= v

(***************************************************************************)
(* None of the errors of opalComputeReception is raised as long as no      *)
(* radio leaves: the power in a callback is of the transmission whose      *)
(* reception is computed, although Opal names only the transmitter and     *)
(* transmissions overlap.  A radio that leaves does harm only with a       *)
(* transmission of its own still known, or in static mode.                 *)
(***************************************************************************)
ThrowsOnlyAfterRemoval ==
    thrown => pendingTransmissions # {} \/ (isStatic /\ left # {})

(***************************************************************************)
(* What the comment "Transmitter may have been removed" and the list of    *)
(* pending transmissions are for: a reception can still be computed when   *)
(* its transmitter is gone.  (It cannot, even where no power is replayed.)  *)
(***************************************************************************)
RemovedTransmitterServed == isStatic \/ ~thrown

(***************************************************************************)
(* Whoever asks first for a reception, it has the power that Opal computed *)
(* for this transmission and this receiver, zero if no ray gets there; in  *)
(* static mode the power of the first frame of the transmitter, or, at a   *)
(* radio that came later, none.                                            *)
(***************************************************************************)
ReceptionHasItsPower ==
    \A t \in DOMAIN sent, r \in Radios :
        reception[t][r] # NotComputed =>
            LET u == IF isStatic THEN FirstOf(t) ELSE t IN
            reception[t][r] = IF r \in DOMAIN sent[u].power THEN sent[u].power[r] ELSE 0

(***************************************************************************)
(* No power outlives the call of Opal that brought it: hasReceivedPower    *)
(* left set would be taken by the next reception computed at this radio.   *)
(***************************************************************************)
NoPowerLeftOver == \A r \in Radios : ~callback[r].hasReceivedPower

(***************************************************************************)
(* What static mode speeds up is unchanged by it: a reception has the      *)
(* power of its own transmission.  (Not with different transmission        *)
(* powers.)                                                                *)
(***************************************************************************)
PowerOfThisTransmission ==
    \A t \in DOMAIN sent : \A r \in DOMAIN sent[t].power :
        reception[t][r] # NotComputed => reception[t][r] = sent[t].power[r]
=============================================================================
