---------------------------- MODULE LoRaGW_proofs ----------------------------
(***************************************************************************)
(* Theorems about LoRaGW for any frames, downlinks, delays and durations:  *)
(* the duty cycle keeps downlinks apart, the medium forgets nothing too    *)
(* early, the radio sends up every frame that did not collide and no frame *)
(* that did, and comes to one verdict on each.  Two timers in use have two *)
(* addresses; a new one may get that of any deleted one, and the frames    *)
(* that are mistaken for another by it are named.                          *)
(***************************************************************************)
EXTENDS LoRaGW, LoRaTransmitter, FiniteSetTheorems, SequenceTheorems, TLAPS

Sent == [from : {gateway, "node"}, start : Nat, frame : NodeFrames \union Downlinks]

(***************************************************************************)
(* The way down.                                                           *)
(***************************************************************************)
DownType ==
    /\ now \in Nat
    /\ sent \in Seq(Sent)
    /\ toRadio \in Seq(Downlinks) /\ Len(toRadio) \in {0, 1}
    /\ GW_forwardedDown \in Nat
    /\ iAmTransmiting \in BOOLEAN /\ waitingForDC \in BOOLEAN
    /\ transmissionTimer \in Nat \union {Off} /\ dutyCycleTimer \in Nat \union {Off}
    /\ waitingForDC <=> dutyCycleTimer # Off
    /\ iAmTransmiting <=> transmissionTimer # Off

\* While a downlink is handed over or on the air, the duty cycle lasts longer than it.
Covered ==
    /\ iAmTransmiting => /\ toRadio = <<>> /\ waitingForDC
                         /\ now <= transmissionTimer /\ transmissionTimer < dutyCycleTimer
    /\ toRadio # <<>> => waitingForDC /\ now + Head(toRadio).duration < dutyCycleTimer

DownInv == DownType /\ Covered /\ IsFiniteSet(OwnTransmissions) /\ ForwardedDownIsTransmitted

LEMMA OffNotNat == Off \notin Nat
BY DEF Off

LEMMA DownlinkTimes ==
    ASSUME NEW f \in Downlinks
    PROVE  f.duration \in Nat \ {0} /\ f.delta \in Nat /\ f.delta > f.duration
BY FramesAssumption, DutyCycleAssumption DEF IsFrame

\* Appending to sent adds the new transmission to the gateway's own, if it is one.
LEMMA OwnAppend ==
    ASSUME sent \in Seq(Sent), NEW e \in Sent, sent' = Append(sent, e)
    PROVE  /\ sent' \in Seq(Sent)
           /\ e.from # gateway => OwnTransmissions' = OwnTransmissions
           /\ e.from = gateway => OwnTransmissions' = OwnTransmissions \union {Len(sent) + 1}
           /\ Len(sent) + 1 \notin OwnTransmissions
<1>1. /\ sent' \in Seq(Sent)
      /\ Len(sent') = Len(sent) + 1 /\ Len(sent) \in Nat
      /\ DOMAIN sent = 1..Len(sent) /\ DOMAIN sent' = 1..(Len(sent) + 1)
      /\ \A t \in 1..Len(sent) : sent'[t] = sent[t]
      /\ sent'[Len(sent) + 1] = e
  OBVIOUS
<1>2. QED BY <1>1 DEF OwnTransmissions

LEMMA DownInitial == Init => DownInv
<1> SUFFICES ASSUME Init PROVE DownInv OBVIOUS
<1> USE DEF Init, MediumInit
<1>1. /\ <<>> \in Seq(Sent) /\ <<>> \in Seq(Downlinks) /\ Len(toRadio) = 0 OBVIOUS
<1>2. DownType BY <1>1, OffNotNat DEF DownType
<1>3. OwnTransmissions = {} BY DEF OwnTransmissions
<1>4. QED BY <1>1, <1>2, <1>3, FS_EmptySet DEF DownInv, Covered, ForwardedDownIsTransmitted

downVars == <<now, sent, toRadio, GW_forwardedDown, iAmTransmiting, waitingForDC, transmissionTimer, dutyCycleTimer>>

LEMMA DownUnchanged == DownInv /\ UNCHANGED downVars => DownInv'
BY DEF downVars, DownInv, DownType, Covered, OwnTransmissions, ForwardedDownIsTransmitted

LEMMA DownNodeTransmits ==
    ASSUME DownInv, NEW f \in NodeFrames, NodeTransmits(f)
    PROVE  DownInv'
<1>1. /\ sent' = Append(sent, [from |-> "node", start |-> now, frame |-> f])
      /\ UNCHANGED <<now, toRadio, GW_forwardedDown, iAmTransmiting, waitingForDC, transmissionTimer, dutyCycleTimer>>
  BY DEF NodeTransmits, EntersMedium, AddTransmission, linkVars, macVars, transmitVars
<1> DEFINE e == [from |-> "node", start |-> now, frame |-> f]
<1>a. e \in Sent /\ e.from # gateway BY GatewayAssumption DEF Sent, DownInv, DownType
<1>2. sent' \in Seq(Sent) /\ OwnTransmissions' = OwnTransmissions
  <2> HIDE DEF e
  <2>1. sent' = Append(sent, e) BY <1>1 DEF e
  <2>2. QED BY <1>a, <2>1, OwnAppend DEF DownInv, DownType
<1>3. QED BY <1>1, <1>2 DEF DownInv, DownType, Covered, ForwardedDownIsTransmitted

LEMMA DownDownlinkArrives ==
    ASSUME DownInv, NEW f \in Downlinks, DownlinkArrives(f)
    PROVE  DownInv'
<1>1. CASE waitingForDC
  BY <1>1, DownUnchanged DEF DownlinkArrives, downVars, mediumVars, transmitVars
<1>2. CASE ~waitingForDC
  <2>1. toRadio = <<>> /\ ~iAmTransmiting BY <1>2 DEF DownInv, Covered
  <2>2. /\ toRadio' = Append(toRadio, f) /\ waitingForDC' = TRUE
        /\ dutyCycleTimer' = now + f.delta /\ GW_forwardedDown' = GW_forwardedDown + 1
        /\ UNCHANGED <<now, sent, iAmTransmiting, transmissionTimer>>
    BY <1>2 DEF DownlinkArrives, DutyCycle, mediumVars, transmitVars
  <2>3. /\ toRadio' = <<f>> /\ Len(toRadio) = 0
        /\ Len(toRadio') = 1 /\ Head(toRadio') = f /\ toRadio' \in Seq(Downlinks)
    <3>1. toRadio' = Append(<<>>, f) BY <2>1, <2>2
    <3>2. toRadio' = <<f>> BY <3>1
    <3>3. <<f>> \in Seq(Downlinks) /\ Len(<<f>>) = 1 /\ Head(<<f>>) = f OBVIOUS
    <3>4. QED BY <2>1, <3>2, <3>3
  <2>4. UNCHANGED OwnTransmissions BY <2>2 DEF OwnTransmissions
  <2>5. DownType'
    <3>1. now + f.delta \in Nat /\ now + f.delta # Off BY DownlinkTimes, OffNotNat DEF DownInv, DownType
    <3>2. QED BY <2>2, <2>3, <3>1 DEF DownInv, DownType
  <2>6. Covered' BY <2>1, <2>2, <2>3, DownlinkTimes DEF DownInv, DownType, Covered
  <2>7. ForwardedDownIsTransmitted'
    <3>1. Cardinality(OwnTransmissions) \in Nat BY FS_CardinalityType DEF DownInv
    <3>2. QED BY <2>2, <2>3, <2>4, <3>1 DEF DownInv, DownType, ForwardedDownIsTransmitted
  <2>8. QED BY <2>4, <2>5, <2>6, <2>7 DEF DownInv
<1>3. QED BY <1>1, <1>2

LEMMA DownDutyCycleEnds == DownInv /\ DutyCycleEnds => DownInv'
<1> SUFFICES ASSUME DownInv, DutyCycleEnds PROVE DownInv' OBVIOUS
<1>1. /\ dutyCycleTimer = now /\ dutyCycleTimer' = Off /\ waitingForDC' = FALSE
      /\ UNCHANGED <<now, sent, toRadio, GW_forwardedDown, iAmTransmiting, transmissionTimer>>
  BY DEF DutyCycleEnds, mediumVars, transmitVars, linkVars
<1>2. ~iAmTransmiting
  BY <1>1, OffNotNat DEF DownInv, DownType, Covered
<1>3. toRadio = <<>>
  <2> SUFFICES ASSUME toRadio # <<>> PROVE FALSE OBVIOUS
  <2>1. Head(toRadio) \in Downlinks BY DEF DownInv, DownType
  <2>2. QED BY <1>1, <2>1, DownlinkTimes DEF DownInv, DownType, Covered
<1>4. UNCHANGED OwnTransmissions BY <1>1 DEF OwnTransmissions
<1>5. QED BY <1>1, <1>2, <1>3, <1>4 DEF DownInv, DownType, Covered, ForwardedDownIsTransmitted

LEMMA DownStartTransmission == DownInv /\ StartTransmission => DownInv'
<1> SUFFICES ASSUME DownInv, StartTransmission PROVE DownInv' OBVIOUS
<1> DEFINE f == Head(toRadio)
<1>1. toRadio # <<>> /\ ~iAmTransmiting BY DEF StartTransmission, DownInv, Covered
<1>2. /\ sent' = Append(sent, [from |-> gateway, start |-> now, frame |-> f])
      /\ iAmTransmiting' = TRUE /\ transmissionTimer' = now + f.duration /\ toRadio' = Tail(toRadio)
      /\ UNCHANGED <<now, GW_forwardedDown, waitingForDC, dutyCycleTimer>>
  BY <1>1 DEF StartTransmission, EntersMedium, AddTransmission, macVars
<1>3. f \in Downlinks /\ Len(toRadio) = 1 /\ toRadio' = <<>> /\ Len(toRadio') = 0 /\ toRadio' \in Seq(Downlinks)
  BY <1>1, <1>2 DEF DownInv, DownType
<1>4. f.duration \in Nat \ {0} BY <1>3, DownlinkTimes
<1> DEFINE e == [from |-> gateway, start |-> now, frame |-> f]
<1>a. e \in Sent /\ e.from = gateway BY <1>3 DEF Sent, DownInv, DownType
<1>5. /\ sent' \in Seq(Sent) /\ OwnTransmissions' = OwnTransmissions \union {Len(sent) + 1}
      /\ Len(sent) + 1 \notin OwnTransmissions
  <2> HIDE DEF e
  <2>1. sent' = Append(sent, e) BY <1>2 DEF e
  <2>2. QED BY <1>a, <2>1, OwnAppend DEF DownInv, DownType
<1>6. /\ IsFiniteSet(OwnTransmissions') /\ Cardinality(OwnTransmissions') = Cardinality(OwnTransmissions) + 1
      /\ Cardinality(OwnTransmissions) \in Nat
  BY <1>5, FS_AddElement, FS_CardinalityType DEF DownInv
<1>7. DownType'
  <2>1. now + f.duration \in Nat /\ now + f.duration # Off BY <1>4, OffNotNat DEF DownInv, DownType
  <2>2. QED BY <1>2, <1>3, <1>5, <2>1 DEF DownInv, DownType
<1>8. Covered'
  <2>1. waitingForDC /\ now + f.duration < dutyCycleTimer BY <1>1 DEF DownInv, Covered
  <2>2. QED BY <1>2, <1>3, <1>4, <2>1 DEF DownInv, DownType, Covered
<1>9. ForwardedDownIsTransmitted'
  <2>1. GW_forwardedDown = Cardinality(OwnTransmissions) + 1 BY <1>3 DEF DownInv, ForwardedDownIsTransmitted
  <2>2. GW_forwardedDown' = Cardinality(OwnTransmissions') + Len(toRadio') BY <1>2, <1>3, <1>6, <2>1
  <2>3. QED BY <2>2 DEF ForwardedDownIsTransmitted
<1>10. QED BY <1>6, <1>7, <1>8, <1>9 DEF DownInv

LEMMA DownEndTransmission == DownInv /\ EndTransmission => DownInv'
<1> SUFFICES ASSUME DownInv, EndTransmission PROVE DownInv' OBVIOUS
<1>1. /\ iAmTransmiting' = FALSE /\ transmissionTimer' = Off
      /\ UNCHANGED <<now, sent, toRadio, GW_forwardedDown, waitingForDC, dutyCycleTimer>>
  BY DEF EndTransmission, mediumVars, macVars, linkVars
<1>2. UNCHANGED OwnTransmissions BY <1>1 DEF OwnTransmissions
<1>3. QED BY <1>1, <1>2 DEF DownInv, DownType, Covered, ForwardedDownIsTransmitted

LEMMA DownTick == DownInv /\ Tick => DownInv'
<1> SUFFICES ASSUME DownInv, Tick PROVE DownInv' OBVIOUS
<1>1. /\ toRadio = <<>> /\ now # transmissionTimer /\ now' = now + 1
      /\ UNCHANGED <<sent, toRadio, GW_forwardedDown, iAmTransmiting, waitingForDC, transmissionTimer, dutyCycleTimer>>
  BY DEF Tick, mediumVars, transmitVars, macVars, linkVars
<1>2. UNCHANGED OwnTransmissions BY <1>1 DEF OwnTransmissions
<1>3. QED BY <1>1, <1>2, OffNotNat DEF DownInv, DownType, Covered, ForwardedDownIsTransmitted

\* Everything else leaves the way down alone.
LEMMA DownElsewhere ==
    ASSUME DownInv,
           \/ \E t \in DOMAIN sent : \/ StartReception(t) \/ ContinueReception(t)
                                     \/ EndReceptionIgnored(t) \/ EndReceptionDecided(t)
           \/ ForwardUp \/ RemovalTimerFires
    PROVE  DownInv'
<1> USE DEF downVars, mediumVars, radioVars, transmitVars, macVars, linkVars
<1>1. CASE \E t \in DOMAIN sent : StartReception(t)
  BY <1>1, DownUnchanged DEF StartReception
<1>2. CASE \E t \in DOMAIN sent : ContinueReception(t)
  BY <1>2, DownUnchanged DEF ContinueReception
<1>3. CASE \E t \in DOMAIN sent : EndReceptionIgnored(t)
  BY <1>3, DownUnchanged DEF EndReceptionIgnored
<1>4. CASE \E t \in DOMAIN sent : EndReceptionDecided(t)
  BY <1>4, DownUnchanged DEF EndReceptionDecided
<1>5. CASE ForwardUp BY <1>5, DownUnchanged DEF ForwardUp
<1>6. CASE RemovalTimerFires
  BY <1>6, DownUnchanged DEF RemovalTimerFires, RemoveNonInterferingTransmissions
<1>7. QED BY <1>1, <1>2, <1>3, <1>4, <1>5, <1>6

LEMMA DownStep == DownInv /\ [Next]_vars => DownInv'
<1> SUFFICES ASSUME DownInv, [Next]_vars PROVE DownInv' OBVIOUS
<1>1. CASE \E t \in DOMAIN sent : \/ StartReception(t) \/ ContinueReception(t)
                                  \/ EndReceptionIgnored(t) \/ EndReceptionDecided(t)
  BY <1>1, DownElsewhere
<1>2. CASE StartTransmission BY <1>2, DownStartTransmission
<1>3. CASE EndTransmission BY <1>3, DownEndTransmission
<1>4. CASE ForwardUp \/ RemovalTimerFires BY <1>4, DownElsewhere
<1>5. CASE DutyCycleEnds BY <1>5, DownDutyCycleEnds
<1>6. CASE \E f \in NodeFrames : NodeTransmits(f) BY <1>6, DownNodeTransmits
<1>7. CASE \E f \in Downlinks : DownlinkArrives(f) BY <1>7, DownDownlinkArrives
<1>8. CASE Tick BY <1>8, DownTick
<1>9. CASE UNCHANGED vars
  BY <1>9, DownUnchanged DEF vars, downVars, mediumVars, transmitVars, macVars, linkVars
<1>10. QED
  BY <1>1, <1>2, <1>3, <1>4, <1>5, <1>6, <1>7, <1>8, <1>9 DEF Next, Handlers, Radio, Environment

(***************************************************************************)
(* Every downlink that LoRaGWMac counts in GW_forwardedDown reaches the    *)
(* air: LoRaGWRadio::startTransmission never finds the radio transmitting. *)
(***************************************************************************)
THEOREM DownlinksTransmitted == Spec => []ForwardedDownIsTransmitted
<1>1. DownInv => ForwardedDownIsTransmitted BY DEF DownInv
<1>2. QED BY <1>1, DownInitial, DownStep, PTL DEF Spec

-----------------------------------------------------------------------------
(***************************************************************************)
(* The medium: what it has forgotten is a prefix of what was sent, and has *)
(* arrived everywhere.                                                     *)
(***************************************************************************)
ReceptionStates == Parts \union {"NONE", "ARRIVING", "ENDED"}

MediumType ==
    /\ interferenceEndTime \in Seq(Nat) /\ Len(interferenceEndTime) = Len(sent)
    /\ reception \in Seq(ReceptionStates) /\ Len(reception) = Len(sent)
    /\ transmissions \in Seq(Nat) /\ Len(transmissions) <= Len(sent)

\* The medium knows the last transmissions, in order.
KnownLast ==
    \A i \in 1..Len(transmissions) : transmissions[i] = Len(sent) - Len(transmissions) + i

Forgotten == 1..(Len(sent) - Len(transmissions))

MediumTimes ==
    /\ \A t \in 1..Len(sent), r \in Radios : ArrivalEnd(r, t) + maxTransmissionDuration <= interferenceEndTime[t]
    /\ \A t \in Forgotten : interferenceEndTime[t] <= now

\* No event of a reception is overdue.
ReceptionTimes ==
    \A t \in 1..Len(sent) :
        /\ reception[t] = "ARRIVING" => now <= ArrivalStart(gateway, t)
        /\ InReception(t) => now <= PartEnd(t)

MediumInv == MediumType /\ KnownLast /\ MediumTimes /\ ReceptionTimes

LEMMA FrameTimes ==
    ASSUME NEW f \in NodeFrames \union Downlinks
    PROVE  /\ f.duration \in Nat \ {0} /\ f.preamble \in Nat /\ f.preamble < f.duration
           /\ \A r \in Radios : f.delay[r] \in Nat
           /\ \E far \in Radios : \A r \in Radios : f.delay[r] <= f.delay[far]
BY FramesAssumption DEF IsFrame

LEMMA Arrivals ==
    ASSUME DownInv, NEW t \in 1..Len(sent), NEW r \in Radios
    PROVE  /\ sent[t].start \in Nat /\ sent[t].frame \in NodeFrames \union Downlinks
           /\ ArrivalStart(r, t) \in Nat /\ sent[t].start <= ArrivalStart(r, t)
           /\ ArrivalEnd(r, t) \in Nat /\ ArrivalEnd(r, t) = ArrivalStart(r, t) + sent[t].frame.duration
<1>1. sent[t] \in Sent BY DEF DownInv, DownType
<1>2. sent[t].start \in Nat /\ sent[t].frame \in NodeFrames \union Downlinks BY <1>1 DEF Sent
<1>3. sent[t].frame.duration \in Nat /\ sent[t].frame.delay[r] \in Nat BY <1>2, FrameTimes
<1>4. QED BY <1>2, <1>3, SMTT(40) DEF ArrivalStart, ArrivalEnd

LEMMA PartEnds ==
    ASSUME DownInv, NEW t \in 1..Len(sent)
    PROVE  /\ PartEnd(t) \in Nat
           /\ ArrivalStart(gateway, t) + sent[t].frame.preamble <= PartEnd(t)
           /\ PartEnd(t) <= ArrivalEnd(gateway, t)
           /\ reception[t] = "PREAMBLE" => PartEnd(t) = ArrivalStart(gateway, t) + sent[t].frame.preamble
           /\ reception[t] \in {"WHOLE", "DATA"} => PartEnd(t) = ArrivalEnd(gateway, t)
<1> DEFINE p == sent[t].frame.preamble
           d == sent[t].frame.duration
           half == (d - p) \div 2
<1>1. ArrivalStart(gateway, t) \in Nat /\ ArrivalEnd(gateway, t) = ArrivalStart(gateway, t) + d
  BY Arrivals, GatewayAssumption
<1>2. p \in Nat /\ d \in Nat /\ p < d BY Arrivals, FrameTimes, GatewayAssumption
<1>3. half \in Nat /\ p + half <= d BY <1>2, SMTT(40)
<1>4. PartEnd(t) = ArrivalStart(gateway, t) + CASE reception[t] = "PREAMBLE" -> p
                                                [] reception[t] = "HEADER" -> p + half
                                                [] OTHER -> d
  BY DEF PartEnd
<1> HIDE DEF p, d, half
<1>5. CASE reception[t] = "PREAMBLE"
  <2>1. PartEnd(t) = ArrivalStart(gateway, t) + p BY <1>4, <1>5
  <2>2. QED BY <1>1, <1>2, <1>5, <2>1 DEF p
<1>6. CASE reception[t] = "HEADER"
  <2>1. PartEnd(t) = ArrivalStart(gateway, t) + (p + half) BY <1>4, <1>6
  <2>2. PartEnd(t) \in Nat BY <1>1, <1>2, <1>3, <2>1
  <2>3. ArrivalStart(gateway, t) + p <= PartEnd(t) BY <1>1, <1>2, <1>3, <2>1
  <2>4. PartEnd(t) <= ArrivalEnd(gateway, t) BY <1>1, <1>2, <1>3, <2>1
  <2>5. QED BY <1>6, <2>2, <2>3, <2>4 DEF p
<1>7. CASE reception[t] \notin {"PREAMBLE", "HEADER"}
  <2>1. PartEnd(t) = ArrivalStart(gateway, t) + d BY <1>4, <1>7
  <2>2. QED BY <1>1, <1>2, <1>7, <2>1 DEF p
<1>8. QED BY <1>5, <1>6, <1>7

LEMMA EndOfInterferenceBounds ==
    ASSUME now \in Nat, NEW f \in NodeFrames \union Downlinks
    PROVE  /\ EndOfInterference(f) \in Nat
           /\ \A r \in Radios : now + f.delay[r] + f.duration + maxTransmissionDuration <= EndOfInterference(f)
<1> DEFINE delays == {f.delay[r] : r \in Radios}
           last == Latest(delays)
<1>1. \E t \in delays : \A u \in delays : u <= t BY FrameTimes
<1>2. last \in delays /\ \A u \in delays : u <= last BY <1>1 DEF Latest
<1>3. last \in Nat /\ \A r \in Radios : f.delay[r] <= last /\ f.delay[r] \in Nat
  BY <1>2, FrameTimes
<1>4. EndOfInterference(f) = now + f.duration + last + maxTransmissionDuration BY DEF EndOfInterference
<1>5. f.duration \in Nat /\ maxTransmissionDuration \in Nat BY FrameTimes, DurationAssumption
<1> HIDE DEF last
<1>6. QED BY <1>3, <1>4, <1>5

LEMMA MediumInitial == Init => MediumInv
<1> SUFFICES ASSUME Init PROVE MediumInv OBVIOUS
<1>1. sent = <<>> /\ transmissions = <<>> /\ interferenceEndTime = <<>> /\ reception = <<>>
  BY DEF Init, MediumInit
<1>2. Len(sent) = 0 /\ Len(transmissions) = 0 /\ transmissions \in Seq(Nat) /\ 1..0 = {} BY <1>1
<1>3. <<>> \in Seq(Nat) /\ <<>> \in Seq(ReceptionStates) OBVIOUS
<1>4. QED BY <1>1, <1>2, <1>3 DEF MediumInv, MediumType, KnownLast, MediumTimes, ReceptionTimes, Forgotten

arrivalVars == <<now, sent, transmissions, interferenceEndTime, reception>>

LEMMA MediumUnchanged == MediumInv /\ UNCHANGED arrivalVars => MediumInv'
BY DEF arrivalVars, MediumInv, MediumType, KnownLast, MediumTimes, ReceptionTimes, Forgotten,
       ArrivalStart, ArrivalEnd, PartEnd, InReception

LEMMA MediumEnters ==
    ASSUME DownInv, MediumInv, NEW f \in NodeFrames \union Downlinks, NEW from \in {gateway, "node"},
           NEW first \in {"NONE", "ARRIVING"}, EntersMedium(from, f, first), now' = now
    PROVE  MediumInv'
<1> DEFINE e == [from |-> from, start |-> now, frame |-> f]
<1>0. PICK n \in Nat : n = Len(sent) BY DEF DownInv, DownType
<1>1. /\ sent' = Append(sent, e)
      /\ transmissions' = Append(transmissions, Len(sent'))
      /\ interferenceEndTime' = Append(interferenceEndTime, EndOfInterference(f))
      /\ reception' = Append(reception, first)
  BY DEF EntersMedium, AddTransmission
<1>2. e \in Sent /\ sent \in Seq(Sent) /\ n = Len(sent) /\ now \in Nat BY <1>0 DEF Sent, DownInv, DownType
<1>a. /\ interferenceEndTime \in Seq(Nat) /\ Len(interferenceEndTime) = n
      /\ reception \in Seq(ReceptionStates) /\ Len(reception) = n
  BY <1>0 DEF MediumInv, MediumType
<1> HIDE DEF e
<1>3. /\ Len(sent') = n + 1 /\ \A t \in 1..n : sent'[t] = sent[t]
      /\ sent'[n + 1] = e
  BY <1>1, <1>2, AppendProperties
<1>4. /\ EndOfInterference(f) \in Nat
      /\ \A r \in Radios : now + f.delay[r] + f.duration + maxTransmissionDuration <= EndOfInterference(f)
  BY <1>2, EndOfInterferenceBounds
<1>5. /\ interferenceEndTime' \in Seq(Nat) /\ Len(interferenceEndTime') = n + 1
      /\ \A t \in 1..n : interferenceEndTime'[t] = interferenceEndTime[t]
      /\ interferenceEndTime'[n + 1] = EndOfInterference(f)
  BY <1>1, <1>4, <1>a, AppendProperties
<1>6. /\ reception' \in Seq(ReceptionStates) /\ Len(reception') = n + 1
      /\ \A t \in 1..n : reception'[t] = reception[t]
      /\ reception'[n + 1] = first
  <2>1. first \in ReceptionStates BY DEF ReceptionStates
  <2>2. QED BY <1>1, <1>a, <2>1, AppendProperties
<1>7. /\ transmissions' \in Seq(Nat) /\ Len(transmissions') = Len(transmissions) + 1
      /\ \A i \in 1..Len(transmissions) : transmissions'[i] = transmissions[i]
      /\ transmissions'[Len(transmissions) + 1] = n + 1
      /\ Len(transmissions) \in Nat /\ Len(transmissions) <= n
  <2>1. transmissions' = Append(transmissions, n + 1) /\ n + 1 \in Nat BY <1>1, <1>2, <1>3
  <2>2. transmissions \in Seq(Nat) BY DEF MediumInv, MediumType
  <2>3. QED BY <1>2, <2>1, <2>2, AppendProperties DEF MediumInv, MediumType
<1>8. MediumType' BY <1>2, <1>3, <1>5, <1>6, <1>7 DEF MediumType
<1>9. KnownLast'
  <2> SUFFICES ASSUME NEW i \in 1..(Len(transmissions) + 1)
               PROVE  transmissions'[i] = n + 1 - (Len(transmissions) + 1) + i
    BY <1>3, <1>7 DEF KnownLast
  <2>1. CASE i \in 1..Len(transmissions) BY <1>2, <1>7, <2>1 DEF MediumInv, KnownLast
  <2>2. CASE i = Len(transmissions) + 1 BY <1>2, <1>7, <2>2
  <2>3. QED BY <1>7, <2>1, <2>2
<1>10. Forgotten' = Forgotten /\ Forgotten \subseteq 1..n BY <1>2, <1>3, <1>7 DEF Forgotten
<1>11. \A t \in 1..n, r \in Radios : /\ ArrivalStart(r, t)' = ArrivalStart(r, t)
                                     /\ ArrivalEnd(r, t)' = ArrivalEnd(r, t)
  BY <1>3, <1>2 DEF ArrivalStart, ArrivalEnd
<1>12. \A r \in Radios : /\ ArrivalStart(r, n + 1)' = now + f.delay[r]
                         /\ ArrivalEnd(r, n + 1)' = now + f.delay[r] + f.duration
  BY <1>3, <1>2 DEF ArrivalStart, ArrivalEnd, e
<1>13. MediumTimes'
  <2>1. ASSUME NEW t \in 1..(n + 1), NEW r \in Radios
        PROVE  ArrivalEnd(r, t)' + maxTransmissionDuration <= interferenceEndTime'[t]
    <3>1. CASE t \in 1..n BY <1>2, <1>5, <1>11, <3>1 DEF MediumInv, MediumTimes
    <3>2. CASE t = n + 1 BY <1>4, <1>5, <1>12, <3>2
    <3>3. QED BY <1>2, <3>1, <3>2
  <2>2. \A t \in Forgotten : interferenceEndTime'[t] <= now BY <1>5, <1>10 DEF MediumInv, MediumTimes
  <2>3. QED BY <1>3, <1>10, <2>1, <2>2 DEF MediumTimes
<1>14. ReceptionTimes'
  <2> SUFFICES ASSUME NEW t \in 1..(n + 1)
               PROVE  /\ reception'[t] = "ARRIVING" => now <= ArrivalStart(gateway, t)'
                      /\ InReception(t)' => now <= PartEnd(t)'
    BY <1>3 DEF ReceptionTimes
  <2>1. CASE t \in 1..n
    <3>1. PartEnd(t)' = PartEnd(t) /\ InReception(t)' = InReception(t)
      BY <1>3, <1>6, <2>1 DEF PartEnd, InReception, ArrivalStart
    <3>2. QED BY <1>2, <1>6, <1>11, <2>1, <3>1, GatewayAssumption DEF MediumInv, ReceptionTimes
  <2>2. CASE t = n + 1
    <3>1. ~InReception(t)' BY <1>6, <2>2 DEF InReception, Parts
    <3>2. now <= now + f.delay[gateway] BY <1>2, FrameTimes, GatewayAssumption
    <3>3. QED BY <1>12, <2>2, <3>1, <3>2, GatewayAssumption
  <2>3. QED BY <1>2, <2>1, <2>2
<1>15. QED BY <1>8, <1>9, <1>13, <1>14 DEF MediumInv

\* One reception goes on to a part that is not over, or ends.
LEMMA MediumReception ==
    ASSUME DownInv, MediumInv, NEW t \in 1..Len(sent), NEW next \in Parts \union {"ENDED"},
           UNCHANGED <<now, sent, transmissions, interferenceEndTime>>,
           reception' = [reception EXCEPT ![t] = next],
           next # "ENDED" => now <= PartEnd(t)'
    PROVE  MediumInv'
<1>1. next \in ReceptionStates BY DEF ReceptionStates
<1>2. /\ reception'[t] = next /\ reception' \in Seq(ReceptionStates) /\ Len(reception') = Len(sent)
      /\ \A u \in 1..Len(sent) : u # t => reception'[u] = reception[u]
  BY <1>1, ExceptSeq DEF MediumInv, MediumType
<1>3. MediumType' /\ KnownLast' BY <1>2 DEF MediumInv, MediumType, KnownLast
<1>4. MediumTimes' BY DEF MediumInv, MediumTimes, Forgotten, ArrivalEnd, ArrivalStart
<1>5. ReceptionTimes'
  <2> SUFFICES ASSUME NEW u \in 1..Len(sent)
               PROVE  /\ reception'[u] = "ARRIVING" => now <= ArrivalStart(gateway, u)'
                      /\ InReception(u)' => now <= PartEnd(u)'
    BY DEF ReceptionTimes
  <2>1. CASE u = t
    <3>1. next # "ARRIVING" BY DEF Parts
    <3>2. QED BY <1>2, <2>1, <3>1 DEF InReception, Parts
  <2>2. CASE u # t
    <3>1. PartEnd(u)' = PartEnd(u) /\ InReception(u)' = InReception(u)
          /\ ArrivalStart(gateway, u)' = ArrivalStart(gateway, u)
      BY <1>2, <2>2 DEF PartEnd, InReception, ArrivalStart
    <3>2. QED BY <1>2, <2>2, <3>1 DEF MediumInv, ReceptionTimes
  <2>3. QED BY <2>1, <2>2
<1>6. QED BY <1>3, <1>4, <1>5 DEF MediumInv

LEMMA MediumRemoval ==
    ASSUME DownInv, MediumInv, RemoveNonInterferingTransmissions, reception' = reception
    PROVE  MediumInv'
<1>1. PICK n \in 0..Len(transmissions) :
        Removable(n) /\ transmissions' = SubSeq(transmissions, n + 1, Len(transmissions))
  BY DEF RemoveNonInterferingTransmissions
<1>2. UNCHANGED <<now, sent, interferenceEndTime>> BY DEF RemoveNonInterferingTransmissions
<1>3. PICK all \in Nat, known \in Nat : all = Len(sent) /\ known = Len(transmissions) /\ known <= all
  BY DEF DownInv, DownType, MediumInv, MediumType
<1>4. /\ transmissions' \in Seq(Nat) /\ Len(transmissions') = known - n
      /\ \A i \in 1..(known - n) : transmissions'[i] = transmissions[n + i]
  <2>1. \A i \in (n + 1)..known : transmissions[i] \in Nat BY <1>3, ElementOfSeq DEF MediumInv, MediumType
  <2>2. n + 1 \in Int /\ known \in Int BY <1>1, <1>3
  <2>3. transmissions' = SubSeq(transmissions, n + 1, known) BY <1>1, <1>3
  <2>4. /\ transmissions' \in Seq(Nat)
        /\ Len(transmissions') = IF n + 1 <= known THEN known - (n + 1) + 1 ELSE 0
        /\ \A i \in 1..(known - (n + 1) + 1) : transmissions'[i] = transmissions[n + 1 + i - 1]
    BY <2>1, <2>2, <2>3, SubSeqProperties
  <2>5. n \in Nat /\ n <= known BY <1>1, <1>3
  <2>6. Len(transmissions') = known - n BY <1>3, <2>4, <2>5
  <2>7. ASSUME NEW i \in 1..(known - n) PROVE transmissions'[i] = transmissions[n + i]
    <3>1. i \in 1..(known - (n + 1) + 1) /\ n + 1 + i - 1 = n + i BY <1>3, <2>5
    <3>2. QED BY <2>4, <3>1
  <2>8. QED BY <2>4, <2>6, <2>7
<1>5. n \in Nat /\ n <= known BY <1>1, <1>3
<1>6. MediumType' BY <1>2, <1>3, <1>4, <1>5 DEF MediumInv, MediumType
<1>7. KnownLast'
  <2> SUFFICES ASSUME NEW i \in 1..(known - n)
               PROVE  transmissions'[i] = all - (known - n) + i
    BY <1>2, <1>3, <1>4 DEF KnownLast
  <2>1. n + i \in 1..known BY <1>3, <1>5
  <2>2. transmissions[n + i] = all - known + (n + i) BY <1>3, <2>1 DEF MediumInv, KnownLast
  <2>3. QED BY <1>3, <1>4, <1>5, <2>2
<1>8. MediumTimes'
  <2>1. \A t \in 1..all, r \in Radios :
          ArrivalEnd(r, t)' + maxTransmissionDuration <= interferenceEndTime'[t]
    BY <1>2, <1>3 DEF MediumInv, MediumTimes, ArrivalEnd, ArrivalStart
  <2>2. ASSUME NEW t \in 1..(all - (known - n)) PROVE interferenceEndTime'[t] <= now
    <3>1. CASE t <= all - known
      BY <1>2, <1>3, <1>5, <3>1 DEF MediumInv, MediumTimes, Forgotten
    <3>2. CASE t > all - known
      <4>1. PICK i \in 1..n : t = all - known + i
        <5>1. t - (all - known) \in 1..n BY <1>3, <1>5, <3>2
        <5>2. t = all - known + (t - (all - known)) BY <1>3
        <5>3. QED BY <5>1, <5>2
      <4>2. i \in 1..known BY <1>3, <1>5
      <4>3. transmissions[i] = t BY <1>3, <4>1, <4>2 DEF MediumInv, KnownLast
      <4>4. QED BY <1>1, <1>2, <4>3 DEF Removable
    <3>3. QED BY <1>3, <1>5, <3>1, <3>2
  <2>3. QED BY <1>2, <1>3, <1>4, <2>1, <2>2 DEF MediumTimes, Forgotten
<1>9. ReceptionTimes'
  BY <1>2 DEF MediumInv, ReceptionTimes, ArrivalStart, PartEnd, InReception
<1>10. QED BY <1>6, <1>7, <1>8, <1>9 DEF MediumInv

LEMMA MediumStartReception ==
    ASSUME DownInv, MediumInv, NEW t \in 1..Len(sent), StartReception(t)
    PROVE  MediumInv'
<1>1. /\ now = ArrivalStart(gateway, t) /\ reception' = [reception EXCEPT ![t] = FirstPart]
      /\ UNCHANGED <<now, sent, transmissions, interferenceEndTime>>
  BY DEF StartReception, mediumVars
<1>2. FirstPart \in Parts BY DEF FirstPart, Parts
<1>3. reception'[t] = FirstPart BY <1>1, ExceptSeq DEF MediumInv, MediumType
<1>4. /\ ArrivalStart(gateway, t) \in Nat /\ sent[t].frame.preamble \in Nat /\ sent[t].frame.duration \in Nat
  BY Arrivals, FrameTimes, GatewayAssumption
<1>5. now <= PartEnd(t)'
  <2>1. PartEnd(t)' = now + IF FirstPart = "PREAMBLE" THEN sent[t].frame.preamble ELSE sent[t].frame.duration
    BY <1>1, <1>3 DEF PartEnd, ArrivalStart, FirstPart
  <2>2. QED BY <1>1, <1>4, <2>1
<1>6. QED BY <1>1, <1>2, <1>5, MediumReception

LEMMA MediumContinueReception ==
    ASSUME DownInv, MediumInv, NEW t \in 1..Len(sent), ContinueReception(t)
    PROVE  MediumInv'
<1> DEFINE next == NextPart[reception[t]]
<1>1. /\ reception[t] \in {"PREAMBLE", "HEADER"} /\ now = PartEnd(t)
      /\ reception' = [reception EXCEPT ![t] = next]
      /\ UNCHANGED <<now, sent, transmissions, interferenceEndTime>>
  BY DEF ContinueReception, mediumVars
<1>2. /\ reception[t] = "PREAMBLE" => next = "HEADER"
      /\ reception[t] = "HEADER" => next = "DATA"
      /\ next \in Parts
  BY <1>1 DEF NextPart, Parts
<1>3. reception'[t] = next BY <1>1, <1>2, ExceptSeq DEF MediumInv, MediumType, ReceptionStates
<1> DEFINE p == sent[t].frame.preamble
           d == sent[t].frame.duration
           half == (d - p) \div 2
           a == ArrivalStart(gateway, t)
<1>4. a \in Nat /\ p \in Nat /\ d \in Nat /\ p < d BY Arrivals, FrameTimes, GatewayAssumption
<1>5. half \in Nat /\ p + half <= d BY <1>4, SMTT(40)
<1>6. /\ reception[t] = "PREAMBLE" => PartEnd(t) = a + p /\ PartEnd(t)' = a + (p + half)
      /\ reception[t] = "HEADER" => PartEnd(t) = a + (p + half) /\ PartEnd(t)' = a + d
  BY <1>1, <1>2, <1>3 DEF PartEnd, ArrivalStart
<1>7. now <= PartEnd(t)'
  <2> HIDE DEF a, p, d, half
  <2>1. QED BY <1>1, <1>4, <1>5, <1>6
<1>8. QED BY <1>1, <1>2, <1>7, MediumReception

LEMMA MediumEndReception ==
    ASSUME DownInv, MediumInv, NEW t \in 1..Len(sent), EndReceptionIgnored(t) \/ EndReceptionDecided(t)
    PROVE  MediumInv'
<1>1. /\ reception' = [reception EXCEPT ![t] = "ENDED"]
      /\ UNCHANGED <<now, sent, transmissions, interferenceEndTime>>
  BY DEF EndReceptionIgnored, EndReceptionDecided, mediumVars
<1>2. QED BY <1>1, MediumReception

LEMMA MediumTick == DownInv /\ MediumInv /\ Tick => MediumInv'
<1> SUFFICES ASSUME DownInv, MediumInv, Tick PROVE MediumInv' OBVIOUS
<1>1. /\ now' = now + 1 /\ now \in Nat
      /\ UNCHANGED <<sent, transmissions, interferenceEndTime, reception>>
      /\ \A t \in DOMAIN sent : /\ reception[t] = "ARRIVING" => now < ArrivalStart(gateway, t)
                                /\ InReception(t) => now < PartEnd(t)
  BY DEF Tick, mediumVars, radioVars, DownInv, DownType
<1>2. DOMAIN sent = 1..Len(sent) BY DEF DownInv, DownType
<1>3. MediumType' /\ KnownLast' BY <1>1 DEF MediumInv, MediumType, KnownLast
<1>4. MediumTimes'
  <2>1. \A t \in 1..Len(sent), r \in Radios :
          ArrivalEnd(r, t)' + maxTransmissionDuration <= interferenceEndTime'[t]
    BY <1>1 DEF MediumInv, MediumTimes, ArrivalEnd, ArrivalStart
  <2>2. ASSUME NEW t \in Forgotten PROVE interferenceEndTime[t] <= now + 1
    <3>1. t \in 1..Len(interferenceEndTime) BY <1>2 DEF Forgotten, MediumInv, MediumType, DownInv, DownType
    <3>2. interferenceEndTime[t] \in Nat BY <3>1, ElementOfSeq DEF MediumInv, MediumType
    <3>3. interferenceEndTime[t] <= now BY DEF MediumInv, MediumTimes
    <3>4. QED BY <1>1, <3>2, <3>3
  <2>3. QED BY <1>1, <2>1, <2>2 DEF MediumTimes, Forgotten
<1>5. ReceptionTimes'
  <2> SUFFICES ASSUME NEW t \in 1..Len(sent)
               PROVE  /\ reception[t] = "ARRIVING" => now + 1 <= ArrivalStart(gateway, t)
                      /\ InReception(t) => now + 1 <= PartEnd(t)
    BY <1>1 DEF ReceptionTimes, ArrivalStart, PartEnd, InReception
  <2>1. ArrivalStart(gateway, t) \in Nat /\ PartEnd(t) \in Nat BY Arrivals, PartEnds, GatewayAssumption
  <2>2. QED BY <1>1, <1>2, <2>1
<1>6. QED BY <1>3, <1>4, <1>5 DEF MediumInv

LEMMA MediumStep == DownInv /\ MediumInv /\ [Next]_vars => MediumInv'
<1> SUFFICES ASSUME DownInv, MediumInv, [Next]_vars PROVE MediumInv' OBVIOUS
<1>1. DOMAIN sent = 1..Len(sent) BY DEF DownInv, DownType
<1> USE DEF arrivalVars, mediumVars, radioVars
<1>2. CASE \E t \in DOMAIN sent : \/ StartReception(t) \/ ContinueReception(t)
                                  \/ EndReceptionIgnored(t) \/ EndReceptionDecided(t)
  BY <1>1, <1>2, MediumStartReception, MediumContinueReception, MediumEndReception
<1>3. CASE StartTransmission
  <2>1. now' = now /\ Head(toRadio) \in Downlinks BY <1>3 DEF StartTransmission, DownInv, DownType
  <2>2. CASE iAmTransmiting BY <1>3, <2>2, MediumUnchanged DEF StartTransmission
  <2>3. CASE ~iAmTransmiting
    <3>1. EntersMedium(gateway, Head(toRadio), "NONE") BY <1>3, <2>3 DEF StartTransmission
    <3>2. QED BY <2>1, <3>1, MediumEnters
  <2>4. QED BY <2>2, <2>3
<1>4. CASE \E f \in NodeFrames : NodeTransmits(f)
  <2>1. PICK f \in NodeFrames : EntersMedium("node", f, "ARRIVING") /\ now' = now BY <1>4 DEF NodeTransmits
  <2>2. QED BY <2>1, MediumEnters
<1>5. CASE RemovalTimerFires BY <1>5, MediumRemoval DEF RemovalTimerFires
<1>6. CASE EndTransmission BY <1>6, MediumUnchanged DEF EndTransmission
<1>7. CASE ForwardUp BY <1>7, MediumUnchanged DEF ForwardUp
<1>8. CASE DutyCycleEnds BY <1>8, MediumUnchanged DEF DutyCycleEnds
<1>9. CASE \E f \in Downlinks : DownlinkArrives(f) BY <1>9, MediumUnchanged DEF DownlinkArrives
<1>10. CASE Tick BY <1>10, MediumTick
<1>11. CASE UNCHANGED vars BY <1>11, MediumUnchanged DEF vars
<1>12. QED
  BY <1>2, <1>3, <1>4, <1>5, <1>6, <1>7, <1>8, <1>9, <1>10, <1>11 DEF Next, Handlers, Radio, Environment

LEMMA ForgottenAreUnknown ==
    ASSUME DownInv, MediumInv, NEW t \in 1..Len(sent)
    PROVE  t \in Forgotten <=> t \notin KnownTransmissions
<1>1. PICK all \in Nat, known \in Nat : all = Len(sent) /\ known = Len(transmissions) /\ known <= all
  BY DEF DownInv, DownType, MediumInv, MediumType
<1>2. \A i \in 1..known : transmissions[i] = all - known + i BY <1>1 DEF MediumInv, KnownLast
<1>3. t \in KnownTransmissions => t > all - known
  BY <1>1, <1>2 DEF KnownTransmissions
<1>4. ASSUME t > all - known PROVE t \in KnownTransmissions
  <2>1. t - (all - known) \in 1..known /\ t = all - known + (t - (all - known)) BY <1>1, <1>4
  <2>2. QED BY <1>1, <1>2, <2>1 DEF KnownTransmissions
<1>5. QED BY <1>1, <1>3, <1>4 DEF Forgotten

(***************************************************************************)
(* LoRaMedium::removeNonInterferingTransmissions removes a transmission    *)
(* only when it has arrived everywhere: no reception timer points to it.   *)
(***************************************************************************)
THEOREM MediumForgetsLate == Spec => []RemovedAfterArrival
<1>1. DownInv /\ MediumInv => RemovedAfterArrival
  <2> SUFFICES ASSUME DownInv, MediumInv, NEW t \in DOMAIN sent \ KnownTransmissions
               PROVE  /\ reception[t] \in {"NONE", "ENDED"}
                      /\ \A r \in Radios : ArrivalEnd(r, t) < now
    BY DEF RemovedAfterArrival
  <2>1. t \in 1..Len(sent) /\ t \in Forgotten BY ForgottenAreUnknown DEF DownInv, DownType
  <2>2. now \in Nat /\ interferenceEndTime[t] \in Nat /\ interferenceEndTime[t] <= now
    BY <2>1, ElementOfSeq DEF DownInv, DownType, MediumInv, MediumType, MediumTimes
  <2>3. \A r \in Radios : ArrivalEnd(r, t) \in Nat /\ ArrivalEnd(r, t) < now
    <3> SUFFICES ASSUME NEW r \in Radios PROVE ArrivalEnd(r, t) \in Nat /\ ArrivalEnd(r, t) < now OBVIOUS
    <3>1. ArrivalEnd(r, t) \in Nat BY <2>1, Arrivals
    <3>2. ArrivalEnd(r, t) + maxTransmissionDuration <= interferenceEndTime[t]
      BY <2>1 DEF MediumInv, MediumTimes
    <3>3. QED BY <2>2, <3>1, <3>2, DurationAssumption
  <2>4. reception[t] # "ARRIVING"
    <3>0. sent[t].frame.duration \in Nat BY <2>1, Arrivals, FrameTimes, GatewayAssumption
    <3>1. ArrivalStart(gateway, t) <= ArrivalEnd(gateway, t) BY <2>1, <3>0, Arrivals, GatewayAssumption
    <3>2. QED BY <2>1, <2>2, <2>3, <3>1, Arrivals, GatewayAssumption DEF MediumInv, ReceptionTimes
  <2>5. ~InReception(t)
    <3>1. PartEnd(t) \in Nat /\ PartEnd(t) <= ArrivalEnd(gateway, t) BY <2>1, PartEnds
    <3>2. QED BY <2>1, <2>2, <2>3, <3>1, GatewayAssumption DEF MediumInv, ReceptionTimes
  <2>6. reception[t] \in ReceptionStates BY <2>1, ElementOfSeq DEF MediumInv, MediumType
  <2>7. QED BY <2>3, <2>4, <2>5, <2>6 DEF ReceptionStates, InReception
<1>2. Init => DownInv /\ MediumInv BY DownInitial, MediumInitial
<1>3. DownInv /\ MediumInv /\ [Next]_vars => DownInv' /\ MediumInv' BY DownStep, MediumStep
<1>4. QED BY <1>1, <1>2, <1>3, PTL DEF Spec

-----------------------------------------------------------------------------
(***************************************************************************)
(* Types, whichever addresses the timers get.                              *)
(***************************************************************************)
Seen == {t \in 1..Len(sent) : InReception(t) \/ reception[t] = "ENDED"}

CountType ==
    /\ numCollisions \in Seq(Nat) /\ Len(numCollisions) = Len(sent)
    /\ rcvBelowSensitivity \in Seq(Nat) /\ Len(rcvBelowSensitivity) = Len(sent)
    /\ mistaken \subseteq 1..Len(sent) /\ delivered \subseteq 1..Len(sent)

TypeInv ==
    /\ now <= MaxTime /\ separateReceptionParts \in BOOLEAN
    /\ timer \in Seq(Nat) /\ Len(timer) = Len(sent)
    /\ \A t \in 1..Len(sent) : timer[t] \in 0..Len(sent) /\ (t \in Seen => timer[t] # NoTimer)
    /\ interference \in Seq(SUBSET Nat) /\ Len(interference) = Len(sent)
    /\ \A t \in 1..Len(sent) : interference[t] = NotCached \/ interference[t] \subseteq 1..Len(sent)
    /\ concurrentReceptions \subseteq 1..Len(sent)
    /\ receptionTimer \in concurrentReceptions \union {NoTimer}
    /\ CountType

LEMMA KnownAreSent == DownInv /\ MediumInv => KnownTransmissions \subseteq 1..Len(sent)
<1> SUFFICES ASSUME DownInv, MediumInv, NEW i \in 1..Len(transmissions) PROVE transmissions[i] \in 1..Len(sent)
  BY DEF KnownTransmissions
<1>1. PICK all \in Nat, known \in Nat : all = Len(sent) /\ known = Len(transmissions) /\ known <= all
  BY DEF DownInv, DownType, MediumInv, MediumType
<1>2. transmissions[i] = all - known + i BY <1>1 DEF MediumInv, KnownLast
<1>3. QED BY <1>1, <1>2

LEMMA TypeInitial == Init => TypeInv
<1> SUFFICES ASSUME Init PROVE TypeInv OBVIOUS
<1>1. /\ now = 0 /\ sent = <<>> /\ timer = <<>> /\ interference = <<>> /\ separateReceptionParts \in BOOLEAN
      /\ concurrentReceptions = {} /\ receptionTimer = NoTimer
      /\ numCollisions = <<>> /\ rcvBelowSensitivity = <<>> /\ mistaken = {} /\ delivered = {}
  BY PartsAssumption DEF Init, MediumInit
<1>2. Len(sent) = 0 /\ 1..0 = {} /\ <<>> \in Seq(Nat) /\ <<>> \in Seq(SUBSET Nat) BY <1>1
<1>3. CountType BY <1>1, <1>2 DEF CountType
<1>4. QED BY <1>1, <1>2, <1>3, TimeAssumption DEF TypeInv

typeVars == <<sent, separateReceptionParts, reception, timer, interference, concurrentReceptions, receptionTimer,
              countVars>>

LEMMA TypeLater == TypeInv /\ UNCHANGED typeVars /\ now' <= MaxTime => TypeInv'
BY DEF typeVars, countVars, tallyVars, TypeInv, CountType, Seen, InReception

\* A counter takes one reception, or does not.
LEMMA TallyStep ==
    ASSUME NEW s \in Seq(Nat), NEW s2, NEW t \in 1..Len(s), NEW counts \in BOOLEAN,
           s2 = [s EXCEPT ![t] = IF counts THEN @ + 1 ELSE @]
    PROVE  /\ s2 \in Seq(Nat) /\ Len(s2) = Len(s)
           /\ s[t] \in Nat /\ s2[t] = IF counts THEN s[t] + 1 ELSE s[t]
           /\ \A u \in 1..Len(s) : u # t => s2[u] = s[u]
<1>1. s[t] \in Nat BY ElementOfSeq
<1> DEFINE n == IF counts THEN s[t] + 1 ELSE s[t]
<1>2. n \in Nat /\ s2 = [s EXCEPT ![t] = n] BY <1>1
<1> HIDE DEF n
<1>3. s2 \in Seq(Nat) /\ Len(s2) = Len(s) /\ s2[t] = n /\ \A u \in 1..Len(s) : u # t => s2[u] = s[u]
  BY <1>2, ExceptSeq
<1>4. QED BY <1>1, <1>3 DEF n

LEMMA TypeEnters ==
    ASSUME DownInv, MediumInv, TypeInv, NEW f \in NodeFrames \union Downlinks,
           NEW from \in {gateway, "node"}, NEW first \in {"NONE", "ARRIVING"}, EntersMedium(from, f, first),
           UNCHANGED <<now, separateReceptionParts, concurrentReceptions, receptionTimer, mistaken, delivered>>
    PROVE  TypeInv'
<1> DEFINE e == [from |-> from, start |-> now, frame |-> f]
<1>0. PICK n \in Nat : n = Len(sent) BY DEF DownInv, DownType
<1>1. /\ sent' = Append(sent, e) /\ reception' = Append(reception, first)
      /\ timer' = Append(timer, NoTimer) /\ interference' = Append(interference, NotCached)
  BY DEF EntersMedium, AddTransmission
<1>2. e \in Sent /\ sent \in Seq(Sent) BY DEF Sent, DownInv, DownType
<1> HIDE DEF e
<1>3. Len(sent') = n + 1 BY <1>0, <1>1, <1>2, AppendProperties
<1>4. (\A t \in 1..n : reception'[t] = reception[t]) /\ reception'[n + 1] = first
  <2>1. first \in ReceptionStates /\ reception \in Seq(ReceptionStates) /\ Len(reception) = n
    BY <1>0 DEF ReceptionStates, MediumInv, MediumType
  <2>2. QED BY <1>1, <2>1, AppendProperties
<1>5. /\ timer' \in Seq(Nat) /\ Len(timer') = n + 1
      /\ (\A t \in 1..n : timer'[t] = timer[t]) /\ timer'[n + 1] = NoTimer
  <2>1. NoTimer \in Nat /\ timer \in Seq(Nat) /\ Len(timer) = n BY <1>0 DEF NoTimer, TypeInv
  <2>2. QED BY <1>1, <2>1, AppendProperties
<1>6. /\ interference' \in Seq(SUBSET Nat) /\ Len(interference') = n + 1
      /\ (\A t \in 1..n : interference'[t] = interference[t]) /\ interference'[n + 1] = NotCached
  <2>1. NotCached \in SUBSET Nat /\ interference \in Seq(SUBSET Nat) /\ Len(interference) = n
    BY <1>0 DEF NotCached, TypeInv
  <2>2. QED BY <1>1, <2>1, AppendProperties
<1>7. 1..(n + 1) = 1..n \union {n + 1} /\ first \notin Parts \union {"ENDED"} /\ NoTimer = 0
  BY DEF Parts, NoTimer
<1>8. Seen' = Seen BY <1>0, <1>3, <1>4, <1>7 DEF Seen, InReception
<1>9. n + 1 \notin Seen BY <1>0 DEF Seen
<1>10. \A t \in 1..(n + 1) : timer'[t] \in 0..(n + 1) /\ (t \in Seen' => timer'[t] # NoTimer)
  <2> SUFFICES ASSUME NEW t \in 1..(n + 1) PROVE timer'[t] \in 0..(n + 1) /\ (t \in Seen' => timer'[t] # NoTimer)
    OBVIOUS
  <2>1. CASE t \in 1..n
    <3>1. timer[t] \in 0..n /\ (t \in Seen => timer[t] # NoTimer) BY <1>0, <2>1 DEF TypeInv
    <3>2. 0..n \subseteq 0..(n + 1) OBVIOUS
    <3>3. QED BY <1>5, <1>8, <2>1, <3>1, <3>2
  <2>2. CASE t = n + 1 BY <1>5, <1>7, <1>8, <1>9, <2>2
  <2>3. QED BY <1>7, <2>1, <2>2
<1>11. 1..n \subseteq 1..(n + 1) OBVIOUS
<1>12. \A t \in 1..(n + 1) : interference'[t] = NotCached \/ interference'[t] \subseteq 1..(n + 1)
  BY <1>0, <1>6, <1>7, <1>11 DEF TypeInv
<1>13. CountType'
  <2>0. numCollisions' = Append(numCollisions, 0) /\ rcvBelowSensitivity' = Append(rcvBelowSensitivity, 0)
    BY DEF EntersMedium
  <2>1. /\ numCollisions \in Seq(Nat) /\ Len(numCollisions) = n
        /\ rcvBelowSensitivity \in Seq(Nat) /\ Len(rcvBelowSensitivity) = n
        /\ mistaken \subseteq 1..n /\ delivered \subseteq 1..n
    BY <1>0 DEF TypeInv, CountType
  <2>2. numCollisions' \in Seq(Nat) /\ Len(numCollisions') = n + 1
    <3>1. 0 \in Nat /\ numCollisions \in Seq(Nat) /\ Len(numCollisions) = n BY <2>1
    <3>2. QED BY <2>0, <3>1, AppendProperties
  <2>3. rcvBelowSensitivity' \in Seq(Nat) /\ Len(rcvBelowSensitivity') = n + 1
    <3>1. 0 \in Nat /\ rcvBelowSensitivity \in Seq(Nat) /\ Len(rcvBelowSensitivity) = n BY <2>1
    <3>2. QED BY <2>0, <3>1, AppendProperties
  <2>4. QED BY <1>3, <1>11, <2>1, <2>2, <2>3 DEF CountType
<1>14. QED BY <1>0, <1>3, <1>5, <1>6, <1>10, <1>11, <1>12, <1>13 DEF TypeInv

\* One reception starts, goes on or ends; its timer is one of those that have been.
LEMMA TypeMoves ==
    ASSUME MediumInv, TypeInv, NEW t \in 1..Len(sent), NEW next \in Parts \union {"ENDED"},
           UNCHANGED <<now, sent, separateReceptionParts>>, reception' = [reception EXCEPT ![t] = next],
           \/ UNCHANGED timer /\ t \in Seen
           \/ \E a \in 1..Len(sent) : timer' = [timer EXCEPT ![t] = a],
           \/ interference' = interference
           \/ interference' = [interference EXCEPT ![t] = InterferenceOf(t)] /\ InterferenceOf(t) \subseteq 1..Len(sent),
           concurrentReceptions' \subseteq 1..Len(sent),
           receptionTimer' \in concurrentReceptions' \union {NoTimer},
           CountType'
    PROVE  TypeInv'
<1>1. /\ reception'[t] = next
      /\ \A u \in 1..Len(sent) : u # t => reception'[u] = reception[u]
  <2>1. next \in ReceptionStates BY DEF ReceptionStates
  <2>2. QED BY <2>1, ExceptSeq DEF MediumInv, MediumType
<1>2. Seen' \subseteq Seen \union {t} BY <1>1 DEF Seen, InReception
<1>3. /\ timer' \in Seq(Nat) /\ Len(timer') = Len(sent)
      /\ \A u \in 1..Len(sent) : timer'[u] \in 0..Len(sent) /\ (u \in Seen' => timer'[u] # NoTimer)
  <2>1. CASE UNCHANGED timer /\ t \in Seen BY <1>2, <2>1 DEF TypeInv
  <2>2. CASE \E a \in 1..Len(sent) : timer' = [timer EXCEPT ![t] = a]
    <3>1. PICK a \in 1..Len(sent) : timer' = [timer EXCEPT ![t] = a] BY <2>2
    <3>2. a \in Nat /\ a # NoTimer /\ a \in 0..Len(sent) BY DEF NoTimer
    <3>3. /\ timer' \in Seq(Nat) /\ Len(timer') = Len(sent)
          /\ \A u \in 1..Len(sent) : timer'[u] = IF u = t THEN a ELSE timer[u]
      BY <3>1, <3>2, ExceptSeq DEF TypeInv
    <3>4. QED BY <1>2, <3>2, <3>3 DEF TypeInv
  <2>3. QED BY <2>1, <2>2
<1>4. /\ interference' \in Seq(SUBSET Nat) /\ Len(interference') = Len(sent)
      /\ \A u \in 1..Len(sent) : interference'[u] = NotCached \/ interference'[u] \subseteq 1..Len(sent)
  <2>1. CASE interference' = interference BY <2>1 DEF TypeInv
  <2>2. CASE interference' = [interference EXCEPT ![t] = InterferenceOf(t)] /\ InterferenceOf(t) \subseteq 1..Len(sent)
    <3>1. InterferenceOf(t) \in SUBSET Nat BY <2>2
    <3>2. /\ interference' \in Seq(SUBSET Nat) /\ Len(interference') = Len(sent)
          /\ \A u \in 1..Len(sent) : interference'[u] = IF u = t THEN InterferenceOf(t) ELSE interference[u]
      BY <2>2, <3>1, ExceptSeq DEF TypeInv
    <3>3. QED BY <2>2, <3>2 DEF TypeInv
  <2>3. QED BY <2>1, <2>2
<1>5. QED BY <1>3, <1>4 DEF TypeInv

LEMMA TypeReceptionSteps ==
    ASSUME DownInv, MediumInv, TypeInv, NEW t \in 1..Len(sent),
           \/ StartReception(t) \/ ContinueReception(t)
           \/ EndReceptionIgnored(t) \/ EndReceptionDecided(t)
    PROVE  TypeInv'
<1> USE DEF mediumVars, countVars, tallyVars
<1>0. ASSUME NEW collided \in BOOLEAN, NEW weak \in BOOLEAN, UNCHANGED sent,
             numCollisions' = numCollisions \/ CountCollision(t, collided),
             \/ rcvBelowSensitivity' = rcvBelowSensitivity
             \/ rcvBelowSensitivity' = [rcvBelowSensitivity EXCEPT ![t] = IF weak THEN @ + 1 ELSE @],
             mistaken' \subseteq mistaken \union {t}, delivered' \subseteq delivered \union {t}
      PROVE  CountType'
  <2>1. CountType BY DEF TypeInv
  <2>2. numCollisions' \in Seq(Nat) /\ Len(numCollisions') = Len(sent)
    <3>1. CASE numCollisions' = numCollisions BY <2>1, <3>1 DEF CountType
    <3>2. CASE CountCollision(t, collided)
      <4>1. PICK c \in BOOLEAN : c = (collided /\ IsUplink(t)) OBVIOUS
      <4>2. numCollisions' = [numCollisions EXCEPT ![t] = IF c THEN @ + 1 ELSE @]
        BY <3>2, <4>1 DEF CountCollision
      <4>3. QED BY <2>1, <4>2, TallyStep DEF CountType
    <3>3. QED BY <1>0, <3>1, <3>2
  <2>3. rcvBelowSensitivity' \in Seq(Nat) /\ Len(rcvBelowSensitivity') = Len(sent)
    BY <1>0, <2>1, TallyStep DEF CountType
  <2>4. QED BY <1>0, <2>1, <2>2, <2>3 DEF CountType
<1>1. CASE StartReception(t)
  <2>1. /\ UNCHANGED <<now, sent, separateReceptionParts, interference>> /\ reception' = [reception EXCEPT ![t] = FirstPart]
        /\ \E a \in Addresses(t) :
            /\ timer' = [timer EXCEPT ![t] = a]
            /\ \/ concurrentReceptions' = concurrentReceptions \union {a} /\ receptionTimer' = a
               \/ UNCHANGED <<concurrentReceptions, receptionTimer>>
    BY <1>1 DEF StartReception
  <2>2. FirstPart \in Parts BY DEF FirstPart, Parts
  <2>3. Addresses(t) \subseteq 1..Len(sent)
    <3>1. \A u \in DOMAIN timer : reception[u] = "ENDED" => timer[u] \in 1..Len(sent)
      <4>1. DOMAIN timer = 1..Len(sent) /\ Len(sent) \in Nat BY DEF TypeInv, DownInv, DownType
      <4>2. \A u \in 1..Len(sent) : reception[u] = "ENDED" => u \in Seen BY DEF Seen
      <4>3. \A u \in Seen : timer[u] \in 0..Len(sent) /\ timer[u] # 0 BY DEF TypeInv, Seen, NoTimer
      <4>4. QED BY <4>1, <4>2, <4>3
    <3>2. QED BY <3>1 DEF Addresses
  <2>4. PICK a \in 1..Len(sent) :
            /\ timer' = [timer EXCEPT ![t] = a]
            /\ \/ concurrentReceptions' = concurrentReceptions \union {a} /\ receptionTimer' = a
               \/ UNCHANGED <<concurrentReceptions, receptionTimer>>
    BY <2>1, <2>3
  <2>5. concurrentReceptions' \subseteq 1..Len(sent) /\ receptionTimer' \in concurrentReceptions' \union {NoTimer}
    BY <2>4 DEF TypeInv
  <2>6. CountType'
    <3>1. /\ CountCollision(t, CanReceive /\ IsCollidedNow(t)) /\ UNCHANGED <<sent, rcvBelowSensitivity, delivered>>
          /\ mistaken' \subseteq mistaken \union {t}
      BY <1>1 DEF StartReception
    <3>2. PICK c \in BOOLEAN : c = (CanReceive /\ IsCollidedNow(t)) OBVIOUS
    <3>3. QED BY <1>0, <3>1, <3>2
  <2>7. QED BY <2>1, <2>2, <2>4, <2>5, <2>6, TypeMoves
<1>2. InterferenceOf(t) \subseteq 1..Len(sent) \/ interference' = interference
  <2>1. Interference(gateway, t) \subseteq 1..Len(sent) BY KnownAreSent DEF Interference
  <2>2. QED BY <2>1 DEF InterferenceOf, TypeInv
<1>3. InReception(t) => t \in Seen BY DEF Seen
<1>4. InReception(t) => timer[t] # NoTimer BY <1>3 DEF TypeInv
<1>5. CASE ContinueReception(t)
  <2>1. /\ reception[t] \in {"PREAMBLE", "HEADER"} /\ reception' = [reception EXCEPT ![t] = NextPart[reception[t]]]
        /\ UNCHANGED <<now, sent, separateReceptionParts, timer>>
        /\ interference' = interference \/ interference' = [interference EXCEPT ![t] = InterferenceOf(t)]
        /\ \/ /\ UNCHANGED concurrentReceptions
              /\ receptionTimer' = receptionTimer \/ (Found(t) /\ receptionTimer' = timer[t])
           \/ concurrentReceptions' \subseteq concurrentReceptions /\ receptionTimer' = NoTimer
    BY <1>5 DEF ContinueReception, Forget
  <2>2. NextPart[reception[t]] \in Parts /\ InReception(t) BY <2>1 DEF NextPart, Parts, InReception
  <2>3. concurrentReceptions' \subseteq 1..Len(sent) /\ receptionTimer' \in concurrentReceptions' \union {NoTimer}
    BY <2>1 DEF TypeInv, Found
  <2>4. CountType'
    <3>1. /\ CountCollision(t, IsCollidedNow(t)) \/ numCollisions' = numCollisions
          /\ UNCHANGED <<sent, rcvBelowSensitivity, mistaken, delivered>>
      BY <1>5 DEF ContinueReception
    <3>2. PICK c \in BOOLEAN : c = IsCollidedNow(t) BY DEF IsCollidedNow, IsPacketCollided
    <3>3. QED BY <1>0, <3>1, <3>2
  <2>5. QED BY <1>2, <1>3, <2>1, <2>2, <2>3, <2>4, TypeMoves
<1>6. CASE EndReceptionIgnored(t) \/ EndReceptionDecided(t)
  <2>1. /\ reception[t] \in {"WHOLE", "DATA"} /\ reception' = [reception EXCEPT ![t] = "ENDED"]
        /\ UNCHANGED <<now, sent, separateReceptionParts, timer>>
        /\ interference' = interference \/ interference' = [interference EXCEPT ![t] = InterferenceOf(t)]
        /\ \/ /\ UNCHANGED concurrentReceptions
              /\ receptionTimer' = receptionTimer \/ (Found(t) /\ receptionTimer' = timer[t])
           \/ concurrentReceptions' \subseteq concurrentReceptions /\ receptionTimer' = NoTimer
    BY <1>6 DEF EndReceptionIgnored, EndReceptionDecided, Forget
  <2>2. InReception(t) BY <2>1 DEF Parts, InReception
  <2>3. concurrentReceptions' \subseteq 1..Len(sent) /\ receptionTimer' \in concurrentReceptions' \union {NoTimer}
    BY <2>1 DEF TypeInv, Found
  <2>4. CountType'
    <3>1. CASE EndReceptionIgnored(t) BY <1>0, <3>1 DEF EndReceptionIgnored
    <3>2. CASE EndReceptionDecided(t)
      <4> DEFINE possible == IsReceptionPossible(Signal(t))
                 collided == IsPacketCollided(Signal(t), Signals(InterferenceOf(t)))
      <4>1. /\ CountCollision(t, possible /\ collided) /\ UNCHANGED <<sent, mistaken>>
            /\ rcvBelowSensitivity' = [rcvBelowSensitivity EXCEPT ![t] = IF possible THEN @ ELSE @ + 1]
            /\ delivered' \subseteq delivered \union {t}
        BY <3>2 DEF EndReceptionDecided
      <4> HIDE DEF possible, collided
      <4>2. PICK c \in BOOLEAN : c = (possible /\ collided) OBVIOUS
      <4>3. PICK w \in BOOLEAN : w = ~possible OBVIOUS
      <4>4. rcvBelowSensitivity' = [rcvBelowSensitivity EXCEPT ![t] = IF w THEN @ + 1 ELSE @] BY <4>1, <4>3
      <4>5. CountCollision(t, c) BY <4>1, <4>2
      <4>6. QED BY <1>0, <4>1, <4>4, <4>5
    <3>3. QED BY <1>6, <3>1, <3>2
  <2>5. QED BY <1>2, <1>3, <2>1, <2>2, <2>3, <2>4, TypeMoves
<1>7. QED BY <1>1, <1>5, <1>6

LEMMA TypeStep == DownInv /\ MediumInv /\ TypeInv /\ [Next]_vars => TypeInv'
<1> SUFFICES ASSUME DownInv, MediumInv, TypeInv, [Next]_vars PROVE TypeInv' OBVIOUS
<1>1. DOMAIN sent = 1..Len(sent) /\ now <= MaxTime BY DEF DownInv, DownType, TypeInv
<1> USE DEF typeVars, mediumVars, radioVars, countVars, tallyVars
<1>2. CASE \E t \in DOMAIN sent : \/ StartReception(t) \/ ContinueReception(t)
                                  \/ EndReceptionIgnored(t) \/ EndReceptionDecided(t)
  BY <1>1, <1>2, TypeReceptionSteps
<1>3. CASE StartTransmission
  <2>1. Head(toRadio) \in Downlinks BY <1>3 DEF StartTransmission, DownInv, DownType
  <2>2. CASE iAmTransmiting BY <1>1, <1>3, <2>2, TypeLater DEF StartTransmission
  <2>3. CASE ~iAmTransmiting
    <3>1. /\ EntersMedium(gateway, Head(toRadio), "NONE")
          /\ UNCHANGED <<now, separateReceptionParts, concurrentReceptions, receptionTimer, mistaken, delivered>>
      BY <1>3, <2>3 DEF StartTransmission
    <3>2. QED BY <2>1, <3>1, TypeEnters
  <2>4. QED BY <2>2, <2>3
<1>4. CASE \E f \in NodeFrames : NodeTransmits(f)
  <2>1. PICK f \in NodeFrames : /\ EntersMedium("node", f, "ARRIVING")
                                /\ UNCHANGED <<now, separateReceptionParts, concurrentReceptions, receptionTimer,
                                               mistaken, delivered>>
    BY <1>4 DEF NodeTransmits
  <2>2. QED BY <2>1, TypeEnters
<1>5. CASE RemovalTimerFires BY <1>1, <1>5, TypeLater DEF RemovalTimerFires, RemoveNonInterferingTransmissions
<1>6. CASE EndTransmission BY <1>1, <1>6, TypeLater DEF EndTransmission
<1>7. CASE ForwardUp BY <1>1, <1>7, TypeLater DEF ForwardUp
<1>8. CASE DutyCycleEnds BY <1>1, <1>8, TypeLater DEF DutyCycleEnds
<1>9. CASE \E f \in Downlinks : DownlinkArrives(f) BY <1>1, <1>9, TypeLater DEF DownlinkArrives
<1>10. CASE Tick
  <2>1. now' = now + 1 /\ now < MaxTime /\ UNCHANGED typeVars BY <1>10 DEF Tick
  <2>2. now' <= MaxTime BY <2>1, TimeAssumption DEF DownInv, DownType
  <2>3. QED BY <2>1, <2>2, TypeLater
<1>11. CASE UNCHANGED vars BY <1>1, <1>11, TypeLater DEF vars
<1>12. QED
  BY <1>2, <1>3, <1>4, <1>5, <1>6, <1>7, <1>8, <1>9, <1>10, <1>11 DEF Next, Handlers, Radio, Environment

(***************************************************************************)
(* LoRaGWRadio's lists hold timers of receptions it has started, and       *)
(* receptionTimer is null or one of the list: endReception never leaves it *)
(* pointing to a timer that no list knows of.                              *)
(***************************************************************************)
THEOREM TypeCorrect == Spec => []TypeOK
<1>1. DownInv /\ MediumInv /\ TypeInv => TypeOK
  <2> SUFFICES ASSUME DownInv, MediumInv, TypeInv PROVE TypeOK OBVIOUS
  <2>1. DOMAIN sent = 1..Len(sent) /\ DOMAIN reception = 1..Len(sent) /\ DOMAIN timer = 1..Len(sent)
        /\ DOMAIN interference = 1..Len(sent) /\ DOMAIN interferenceEndTime = 1..Len(sent)
    BY DEF DownInv, DownType, MediumInv, MediumType, TypeInv
  <2>2. now \in 0..MaxTime BY TimeAssumption DEF DownInv, DownType, TypeInv
  <2>3. KnownTransmissions \subseteq 1..Len(sent) BY KnownAreSent
  <2>4. \A t \in 1..Len(sent) : reception[t] \in Parts \union {"NONE", "ARRIVING", "ENDED"}
    BY ElementOfSeq DEF MediumInv, MediumType, ReceptionStates
  <2>5. \A t \in 1..Len(sent) : timer[t] \in 1..Len(sent) \union {NoTimer} BY DEF TypeInv, NoTimer
  <2>6. iAmTransmiting = (transmissionTimer # Off) /\ waitingForDC = (dutyCycleTimer # Off)
    BY Zenon DEF DownInv, DownType
  <2>7. /\ DOMAIN numCollisions = 1..Len(sent) /\ DOMAIN rcvBelowSensitivity = 1..Len(sent)
        /\ \A t \in 1..Len(sent) : numCollisions[t] \in Nat /\ rcvBelowSensitivity[t] \in Nat
        /\ mistaken \subseteq 1..Len(sent)
    <3>1. CountType BY DEF TypeInv
    <3>2. \A t \in 1..Len(sent) : numCollisions[t] \in Nat BY <3>1, ElementOfSeq DEF CountType
    <3>3. \A t \in 1..Len(sent) : rcvBelowSensitivity[t] \in Nat BY <3>1, ElementOfSeq DEF CountType
    <3>4. DOMAIN numCollisions = 1..Len(sent) /\ DOMAIN rcvBelowSensitivity = 1..Len(sent)
      BY <3>1 DEF CountType
    <3>5. QED BY <3>1, <3>2, <3>3, <3>4 DEF CountType
  <2>8. QED BY <2>1, <2>2, <2>3, <2>4, <2>5, <2>6, <2>7 DEF TypeOK, TypeInv
<1>2. Init => DownInv /\ MediumInv /\ TypeInv BY DownInitial, MediumInitial, TypeInitial
<1>3. DownInv /\ MediumInv /\ TypeInv /\ [Next]_vars => DownInv' /\ MediumInv' /\ TypeInv'
  BY DownStep, MediumStep, TypeStep
<1>4. QED BY <1>1, <1>2, <1>3, PTL DEF Spec

-----------------------------------------------------------------------------
(***************************************************************************)
(* Addresses.  The timers of receptions in progress have addresses of      *)
(* their own, but concurrentReceptions may also hold the address of a      *)
(* deleted one.  A reception is listed while its own timer's address is:   *)
(* either the radio attempted it when it started, or it is mistaken.       *)
(***************************************************************************)
Listed(t) == InReception(t) /\ timer[t] \in concurrentReceptions

AddressInv ==
    /\ \A t \in 1..Len(sent) : InReception(t) /\ ~separateReceptionParts => reception[t] = "WHOLE"
    /\ \A t, u \in 1..Len(sent) : InReception(t) /\ InReception(u) /\ timer[t] = timer[u] => t = u
    /\ \A t \in 1..Len(sent) : timer[t] \in Seen \union {NoTimer}
    /\ concurrentReceptions \subseteq Seen

LEMMA AddressInitial == Init => AddressInv
<1> SUFFICES ASSUME Init PROVE AddressInv OBVIOUS
<1>1. sent = <<>> /\ concurrentReceptions = {} BY DEF Init, MediumInit
<1>2. 1..Len(sent) = {} BY <1>1
<1>3. QED BY <1>1, <1>2 DEF AddressInv

addressVars == <<sent, separateReceptionParts, reception, timer, concurrentReceptions>>

LEMMA AddressUnchanged == AddressInv /\ UNCHANGED addressVars => AddressInv'
BY DEF addressVars, AddressInv, Seen, InReception

LEMMA AddressEnters ==
    ASSUME DownInv, MediumInv, TypeInv, AddressInv, NEW f \in NodeFrames \union Downlinks,
           NEW from \in {gateway, "node"}, NEW first \in {"NONE", "ARRIVING"}, EntersMedium(from, f, first),
           UNCHANGED <<separateReceptionParts, concurrentReceptions>>
    PROVE  /\ AddressInv'
           /\ \A t \in 1..Len(sent) : Listed(t)' = Listed(t)
           /\ \A t \in 1..Len(sent') : Listed(t)' => t \in 1..Len(sent)
<1> DEFINE e == [from |-> from, start |-> now, frame |-> f]
<1>0. PICK n \in Nat : n = Len(sent) BY DEF DownInv, DownType
<1>1. /\ sent' = Append(sent, e) /\ reception' = Append(reception, first) /\ timer' = Append(timer, NoTimer)
  BY DEF EntersMedium, AddTransmission
<1>2. e \in Sent /\ sent \in Seq(Sent) BY DEF Sent, DownInv, DownType
<1> HIDE DEF e
<1>3. Len(sent') = n + 1 BY <1>0, <1>1, <1>2, AppendProperties
<1>4. (\A t \in 1..n : reception'[t] = reception[t]) /\ reception'[n + 1] = first
  <2>1. first \in ReceptionStates /\ reception \in Seq(ReceptionStates) /\ Len(reception) = n
    BY <1>0 DEF ReceptionStates, MediumInv, MediumType
  <2>2. QED BY <1>1, <2>1, AppendProperties
<1>5. (\A t \in 1..n : timer'[t] = timer[t]) /\ timer'[n + 1] = NoTimer
  <2>1. NoTimer \in Nat /\ timer \in Seq(Nat) /\ Len(timer) = n BY <1>0 DEF NoTimer, TypeInv
  <2>2. QED BY <1>1, <2>1, AppendProperties
<1>6. 1..(n + 1) = 1..n \union {n + 1} /\ first \notin Parts \union {"ENDED"} BY DEF Parts
<1>7. /\ \A t \in 1..n : InReception(t)' = InReception(t)
      /\ ~InReception(n + 1)'
      /\ Seen' = Seen
  BY <1>0, <1>3, <1>4, <1>6 DEF Seen, InReception
<1>8. \A t \in 1..(n + 1) : InReception(t)' /\ ~separateReceptionParts => reception'[t] = "WHOLE"
  BY <1>0, <1>4, <1>6, <1>7 DEF AddressInv
<1>9. \A t, u \in 1..(n + 1) : InReception(t)' /\ InReception(u)' /\ timer'[t] = timer'[u] => t = u
  BY <1>0, <1>5, <1>6, <1>7 DEF AddressInv
<1>10. \A t \in 1..(n + 1) : timer'[t] \in Seen' \union {NoTimer} BY <1>0, <1>5, <1>6, <1>7 DEF AddressInv
<1>11. AddressInv' BY <1>3, <1>7, <1>8, <1>9, <1>10 DEF AddressInv
<1>12. \A t \in 1..n : Listed(t)' = Listed(t) BY <1>5, <1>7 DEF Listed
<1>13. \A t \in 1..(n + 1) : Listed(t)' => t \in 1..n BY <1>6, <1>7 DEF Listed
<1>14. QED BY <1>0, <1>3, <1>11, <1>12, <1>13

\* A reception that starts: its timer's address is that of no other reception.
LEMMA ListedStart ==
    ASSUME DownInv, MediumInv, TypeInv, AddressInv, NEW t \in 1..Len(sent), StartReception(t)
    PROVE  /\ AddressInv'
           /\ ~Listed(t)
           /\ \A u \in 1..Len(sent) : u # t => Listed(u)' = Listed(u)
           /\ CanReceive /\ ~IsCollidedNow(t) => Listed(t)' /\ UNCHANGED mistaken
           /\ ~(CanReceive /\ ~IsCollidedNow(t)) /\ Listed(t)' => t \in mistaken'
           /\ mistaken \subseteq mistaken' /\ mistaken' \subseteq mistaken \union {t}
<1> DEFINE attempted == CanReceive /\ ~IsCollidedNow(t)
<1>1. PICK a \in Addresses(t) :
        /\ timer' = [timer EXCEPT ![t] = a]
        /\ IF attempted
           THEN concurrentReceptions' = concurrentReceptions \union {a} /\ UNCHANGED mistaken
           ELSE /\ concurrentReceptions' = concurrentReceptions
                /\ mistaken' = IF a \in concurrentReceptions THEN mistaken \union {t} ELSE mistaken
  BY DEF StartReception
<1>2. /\ reception[t] = "ARRIVING" /\ reception' = [reception EXCEPT ![t] = FirstPart]
      /\ UNCHANGED <<sent, separateReceptionParts>>
  BY DEF StartReception, mediumVars
<1>3. FirstPart \in Parts /\ (~separateReceptionParts => FirstPart = "WHOLE") BY DEF FirstPart, Parts
<1>4. reception'[t] = FirstPart /\ \A u \in 1..Len(sent) : u # t => reception'[u] = reception[u]
  <2>1. FirstPart \in ReceptionStates BY <1>3 DEF ReceptionStates
  <2>2. QED BY <1>2, <2>1, ExceptSeq DEF MediumInv, MediumType
<1>5. t \notin Seen /\ ~InReception(t) BY <1>2 DEF Seen, InReception, Parts
<1>6. InReception(t)' /\ \A u \in 1..Len(sent) : u # t => InReception(u)' = InReception(u)
  BY <1>3, <1>4 DEF InReception
<1>7. Seen' = Seen \union {t} BY <1>2, <1>4, <1>6 DEF Seen
<1>8. DOMAIN timer = 1..Len(sent) BY DEF TypeInv, DownInv, DownType
<1>9. a \in Seen \union {t} /\ a \in 1..Len(sent)
  <2>1. CASE a = t BY <2>1
  <2>2. CASE a # t
    <3>1. PICK u \in 1..Len(sent) : reception[u] = "ENDED" /\ a = timer[u] BY <1>1, <1>8, <2>2 DEF Addresses
    <3>2. u \in Seen BY <3>1 DEF Seen
    <3>3. a # NoTimer BY <3>1, <3>2 DEF TypeInv
    <3>4. a \in Seen BY <3>1, <3>3 DEF AddressInv
    <3>5. QED BY <3>4 DEF Seen
  <2>3. QED BY <2>1, <2>2
<1>10. \A u \in 1..Len(sent) : InReception(u) => timer[u] # a
  <2> SUFFICES ASSUME NEW u \in 1..Len(sent), InReception(u), timer[u] = a PROVE FALSE OBVIOUS
  <2>1. a \notin {timer[v] : v \in {w \in DOMAIN timer : InReception(w)}} \/ a = t BY <1>1 DEF Addresses
  <2>2. a = t BY <1>8, <2>1
  <2>3. timer[u] \in Seen \union {NoTimer} /\ t # NoTimer BY DEF AddressInv, NoTimer
  <2>4. QED BY <1>5, <2>2, <2>3
<1>11. timer'[t] = a /\ \A u \in 1..Len(sent) : u # t => timer'[u] = timer[u]
  <2>1. a \in Nat /\ timer \in Seq(Nat) /\ Len(timer) = Len(sent) BY <1>9 DEF TypeInv
  <2>2. QED BY <1>1, <2>1, ExceptSeq
<1> HIDE DEF attempted
<1>12. \A u \in 1..Len(sent) : u # t => Listed(u)' = Listed(u)
  BY <1>1, <1>6, <1>10, <1>11 DEF Listed
<1>13. /\ attempted => Listed(t)'
       /\ ~attempted /\ Listed(t)' => t \in mistaken'
  BY <1>1, <1>6, <1>11 DEF Listed
<1>14. AddressInv'
  <2>1. \A u \in 1..Len(sent) : InReception(u)' /\ ~separateReceptionParts' => reception'[u] = "WHOLE"
    BY <1>2, <1>3, <1>4, <1>6 DEF AddressInv
  <2>2. \A u, v \in 1..Len(sent) : InReception(u)' /\ InReception(v)' /\ timer'[u] = timer'[v] => u = v
    BY <1>6, <1>10, <1>11 DEF AddressInv
  <2>3. \A u \in 1..Len(sent) : timer'[u] \in Seen' \union {NoTimer} BY <1>7, <1>9, <1>11 DEF AddressInv
  <2>4. concurrentReceptions' \subseteq Seen' BY <1>1, <1>7, <1>9 DEF AddressInv
  <2>5. QED BY <1>2, <2>1, <2>2, <2>3, <2>4 DEF AddressInv
<1>15. QED BY <1>1, <1>5, <1>12, <1>13, <1>14 DEF Listed, attempted

\* A reception that goes on or ends: the code finds its timer if and only if it is listed.
LEMMA ListedGoesOn ==
    ASSUME DownInv, MediumInv, TypeInv, AddressInv, NEW t \in 1..Len(sent),
           \/ ContinueReception(t) \/ EndReceptionIgnored(t) \/ EndReceptionDecided(t)
    PROVE  /\ AddressInv'
           /\ InReception(t) /\ (Found(t) <=> Listed(t))
           /\ \A u \in 1..Len(sent) : u # t => Listed(u)' = Listed(u)
           /\ Listed(t)' => Listed(t) /\ ContinueReception(t)
           /\ ContinueReception(t) /\ Listed(t) /\ UNCHANGED concurrentReceptions => Listed(t)'
           /\ Forget(t) => ~Listed(t)'
<1>1. /\ reception[t] \in {"PREAMBLE", "HEADER", "WHOLE", "DATA"}
      /\ UNCHANGED <<sent, separateReceptionParts, timer>>
      /\ concurrentReceptions' \in {concurrentReceptions, concurrentReceptions \ {timer[t]}}
  BY DEF ContinueReception, EndReceptionIgnored, EndReceptionDecided, Forget, mediumVars
<1>2. PICK next \in Parts \union {"ENDED"} :
        /\ reception' = [reception EXCEPT ![t] = next]
        /\ ContinueReception(t) => next \in Parts /\ (reception[t] \in {"PREAMBLE", "HEADER"})
        /\ next \in Parts => ContinueReception(t)
  <2>1. CASE ContinueReception(t)
    <3>1. NextPart[reception[t]] \in Parts BY <2>1 DEF ContinueReception, NextPart, Parts
    <3>2. QED BY <2>1, <3>1 DEF ContinueReception
  <2>2. CASE ~ContinueReception(t)
    <3>1. reception' = [reception EXCEPT ![t] = "ENDED"] /\ "ENDED" \notin Parts
      BY <2>2 DEF EndReceptionIgnored, EndReceptionDecided, Parts
    <3>2. QED BY <2>2, <3>1
  <2>3. QED BY <2>1, <2>2
<1>3. reception'[t] = next /\ \A u \in 1..Len(sent) : u # t => reception'[u] = reception[u]
  <2>1. next \in ReceptionStates BY DEF ReceptionStates
  <2>2. QED BY <1>2, <2>1, ExceptSeq DEF MediumInv, MediumType
<1>4. InReception(t) BY <1>1 DEF InReception, Parts
<1>5. InReception(t)' = (next \in Parts) /\ \A u \in 1..Len(sent) : u # t => InReception(u)' = InReception(u)
  BY <1>3 DEF InReception
<1>6. Seen' = Seen BY <1>1, <1>3, <1>4, <1>5 DEF Seen
<1>7. timer[t] # NoTimer
  <2>1. t \in Seen BY <1>4 DEF Seen
  <2>2. QED BY <2>1 DEF TypeInv
<1>8. Found(t) <=> Listed(t) BY <1>4, <1>7 DEF Found, Listed, TypeInv
<1>9. \A u \in 1..Len(sent) : u # t => Listed(u)' = Listed(u)
  <2> SUFFICES ASSUME NEW u \in 1..Len(sent), u # t PROVE Listed(u)' = Listed(u) OBVIOUS
  <2>1. InReception(u) => timer[u] # timer[t] BY <1>4 DEF AddressInv
  <2>2. QED BY <1>1, <1>5, <2>1 DEF Listed
<1>10. /\ Listed(t)' => Listed(t) /\ ContinueReception(t)
       /\ ContinueReception(t) /\ Listed(t) /\ UNCHANGED concurrentReceptions => Listed(t)'
       /\ Forget(t) => ~Listed(t)'
  BY <1>1, <1>2, <1>4, <1>5 DEF Listed, Forget
<1>11. AddressInv'
  <2>1. \A u \in 1..Len(sent) : InReception(u)' /\ ~separateReceptionParts' => reception'[u] = "WHOLE"
    <3>1. CASE separateReceptionParts BY <1>1, <3>1
    <3>2. CASE ~separateReceptionParts
      <4>1. reception[t] = "WHOLE" BY <1>4, <3>2 DEF AddressInv
      <4>2. ~InReception(t)' BY <1>2, <1>5, <4>1
      <4>3. QED BY <1>1, <1>3, <1>5, <4>2 DEF AddressInv
    <3>3. QED BY <3>1, <3>2
  <2>2. \A u, v \in 1..Len(sent) : InReception(u)' /\ InReception(v)' /\ timer'[u] = timer'[v] => u = v
    BY <1>1, <1>4, <1>5 DEF AddressInv
  <2>3. QED BY <1>1, <1>6, <2>1, <2>2 DEF AddressInv
<1>12. QED BY <1>4, <1>8, <1>9, <1>10, <1>11

LEMMA AddressStep == DownInv /\ MediumInv /\ TypeInv /\ AddressInv /\ [Next]_vars => AddressInv'
<1> SUFFICES ASSUME DownInv, MediumInv, TypeInv, AddressInv, [Next]_vars PROVE AddressInv' OBVIOUS
<1>1. DOMAIN sent = 1..Len(sent) BY DEF DownInv, DownType
<1> USE DEF addressVars, mediumVars, radioVars
<1>2. CASE \E t \in DOMAIN sent : \/ StartReception(t) \/ ContinueReception(t)
                                  \/ EndReceptionIgnored(t) \/ EndReceptionDecided(t)
  BY <1>1, <1>2, ListedStart, ListedGoesOn
<1>3. CASE StartTransmission
  <2>1. Head(toRadio) \in Downlinks BY <1>3 DEF StartTransmission, DownInv, DownType
  <2>2. CASE iAmTransmiting BY <1>3, <2>2, AddressUnchanged DEF StartTransmission
  <2>3. CASE ~iAmTransmiting
    <3>1. /\ EntersMedium(gateway, Head(toRadio), "NONE")
          /\ UNCHANGED <<separateReceptionParts, concurrentReceptions>>
      BY <1>3, <2>3 DEF StartTransmission
    <3>2. QED BY <2>1, <3>1, AddressEnters
  <2>4. QED BY <2>2, <2>3
<1>4. CASE \E f \in NodeFrames : NodeTransmits(f)
  <2>1. PICK f \in NodeFrames : /\ EntersMedium("node", f, "ARRIVING")
                                /\ UNCHANGED <<separateReceptionParts, concurrentReceptions>>
    BY <1>4 DEF NodeTransmits
  <2>2. QED BY <2>1, AddressEnters
<1>5. CASE RemovalTimerFires BY <1>5, AddressUnchanged DEF RemovalTimerFires, RemoveNonInterferingTransmissions
<1>6. CASE EndTransmission BY <1>6, AddressUnchanged DEF EndTransmission
<1>7. CASE ForwardUp BY <1>7, AddressUnchanged DEF ForwardUp
<1>8. CASE DutyCycleEnds BY <1>8, AddressUnchanged DEF DutyCycleEnds
<1>9. CASE \E f \in Downlinks : DownlinkArrives(f) BY <1>9, AddressUnchanged DEF DownlinkArrives
<1>10. CASE Tick BY <1>10, AddressUnchanged DEF Tick
<1>11. CASE UNCHANGED vars BY <1>11, AddressUnchanged DEF vars
<1>12. QED
  BY <1>2, <1>3, <1>4, <1>5, <1>6, <1>7, <1>8, <1>9, <1>10, <1>11 DEF Next, Handlers, Radio, Environment

-----------------------------------------------------------------------------
(***************************************************************************)
(* Collisions.  What a frame can collide with is checked twice, unless it  *)
(* is mistaken for one that was listed when it started: what was           *)
(* sent before it when its reception starts, what was sent after it when   *)
(* its interference is computed.                                           *)
(***************************************************************************)
Collides(t, u) == IsInterfering(gateway, t, u) /\ CollidesWith(Signal(t), Signal(u))
Early(t, u) == ArrivalStart(gateway, u) < ArrivalStart(gateway, t) + sent[t].frame.preamble

CheckedAtStart(t) == \A u \in 1..(t - 1) : ~Collides(t, u)
Uncollided(t) == \A u \in 1..Len(sent) : (separateReceptionParts => Early(t, u)) => ~Collides(t, u)
CachedEnough(t) ==
    \A u \in 1..Len(sent) : u > t /\ IsInterfering(gateway, t, u) /\ Early(t, u) => u \in interference[t]

AttemptedChecked == \A t \in 1..Len(sent) : Listed(t) /\ t \notin mistaken => CheckedAtStart(t)

CachedInv ==
    \A t \in 1..Len(sent) : interference[t] # NotCached =>
        /\ ~separateReceptionParts => reception[t] = "ENDED"
        /\ ArrivalStart(gateway, t) + sent[t].frame.preamble <= now
        /\ CachedEnough(t)

DeliveredInv ==
    \A t \in delivered : ArrivalEnd(gateway, t) <= now /\ (t \notin mistaken => Uncollided(t))

HeardInv == AttemptedChecked /\ CachedInv /\ DeliveredInv

\* What can still interfere with something that arrives now is known.
LEMMA StillKnown ==
    ASSUME DownInv, MediumInv, NEW t \in 1..Len(sent), now <= ArrivalEnd(gateway, t)
    PROVE  \A u \in 1..Len(sent) : u >= t => u \in KnownTransmissions
<1>1. t \notin Forgotten
  <2> SUFFICES ASSUME t \in Forgotten PROVE FALSE OBVIOUS
  <2>1. ArrivalEnd(gateway, t) + maxTransmissionDuration <= interferenceEndTime[t] /\ interferenceEndTime[t] <= now
    BY GatewayAssumption DEF MediumInv, MediumTimes
  <2>2. interferenceEndTime[t] \in Nat /\ now \in Nat /\ ArrivalEnd(gateway, t) \in Nat
    BY ElementOfSeq, Arrivals, GatewayAssumption DEF MediumInv, MediumType, DownInv, DownType
  <2>3. QED BY <2>1, <2>2, DurationAssumption
<1>2. Len(sent) - Len(transmissions) \in Int BY DEF DownInv, DownType, MediumInv, MediumType
<1>3. \A u \in 1..Len(sent) : u >= t => u \notin Forgotten BY <1>1, <1>2 DEF Forgotten
<1>4. QED BY <1>3, ForgottenAreUnknown

LEMMA HeardInitial == Init => HeardInv
<1> SUFFICES ASSUME Init PROVE HeardInv OBVIOUS
<1>1. sent = <<>> /\ delivered = {} BY DEF Init, MediumInit
<1>2. 1..Len(sent) = {} BY <1>1
<1>3. QED BY <1>1, <1>2 DEF HeardInv, AttemptedChecked, CachedInv, DeliveredInv

\* Signals do not change once they are sent.
LEMMA SignalsStay ==
    ASSUME \A v \in 1..Len(sent) : sent'[v] = sent[v],
           NEW t \in 1..Len(sent), NEW u \in 1..Len(sent)
    PROVE  /\ IsInterfering(gateway, t, u)' = IsInterfering(gateway, t, u)
           /\ Collides(t, u)' = Collides(t, u)
           /\ Early(t, u)' = Early(t, u)
<1>1. \A v \in {t, u} : /\ ArrivalStart(gateway, v)' = ArrivalStart(gateway, v)
                        /\ ArrivalEnd(gateway, v)' = ArrivalEnd(gateway, v)
                        /\ sent'[v] = sent[v]
  BY DEF ArrivalStart, ArrivalEnd
<1>2. Signal(t)' = Signal(t) /\ Signal(u)' = Signal(u) BY <1>1 DEF Signal
<1>3. IsInterfering(gateway, t, u)' = IsInterfering(gateway, t, u) BY <1>1 DEF IsInterfering
<1>4. CollidesWith(Signal(t), Signal(u))' = CollidesWith(Signal(t), Signal(u))
  BY <1>2 DEF CollidesWith, Overlap, CaptureEffect, TimingCollision, Magnitude, nonOrthDelta
<1>5. QED BY <1>1, <1>3, <1>4 DEF Collides, Early

heardVars == <<sent, separateReceptionParts, reception, timer, interference, concurrentReceptions, mistaken, delivered>>

LEMMA HeardLater ==
    ASSUME DownInv, TypeInv, HeardInv, UNCHANGED heardVars, now' = now \/ now' = now + 1
    PROVE  HeardInv'
<1>1. now \in Nat /\ now <= now' /\ now' \in Nat BY DEF DownInv, DownType
<1>2. \A t \in 1..Len(sent), u \in 1..Len(sent) :
        /\ IsInterfering(gateway, t, u)' = IsInterfering(gateway, t, u)
        /\ Collides(t, u)' = Collides(t, u)
        /\ Early(t, u)' = Early(t, u)
  BY SignalsStay DEF heardVars
<1>3. \A t \in 1..Len(sent) :
        /\ CheckedAtStart(t)' = CheckedAtStart(t)
        /\ Uncollided(t)' = Uncollided(t)
        /\ CachedEnough(t)' = CachedEnough(t)
  <2> TAKE t \in 1..Len(sent)
  <2>1. \A u \in 1..(t - 1) : u \in 1..Len(sent) BY DEF DownInv, DownType
  <2>2. QED BY <1>2, <2>1 DEF CheckedAtStart, Uncollided, CachedEnough, heardVars
<1>4. \A t \in 1..Len(sent) :
        /\ ArrivalStart(gateway, t)' = ArrivalStart(gateway, t) /\ ArrivalEnd(gateway, t)' = ArrivalEnd(gateway, t)
        /\ ArrivalStart(gateway, t) \in Nat /\ ArrivalEnd(gateway, t) \in Nat /\ sent[t].frame.preamble \in Nat
  <2>1. \A t \in 1..Len(sent) : sent[t].frame.preamble \in Nat BY Arrivals, FrameTimes, GatewayAssumption
  <2>2. QED BY <2>1, Arrivals, GatewayAssumption DEF heardVars, ArrivalStart, ArrivalEnd
<1>6. AttemptedChecked' BY <1>3 DEF heardVars, HeardInv, AttemptedChecked, Listed, InReception
<1>7. CachedInv'
  <2> SUFFICES ASSUME NEW t \in 1..Len(sent), interference[t] # NotCached
               PROVE  /\ ~separateReceptionParts => reception[t] = "ENDED"
                      /\ ArrivalStart(gateway, t) + sent[t].frame.preamble <= now'
                      /\ CachedEnough(t)
    BY <1>3, <1>4 DEF CachedInv, heardVars
  <2>1. QED BY <1>1, <1>4 DEF HeardInv, CachedInv
<1>8. DeliveredInv'
  <2> SUFFICES ASSUME NEW t \in delivered PROVE ArrivalEnd(gateway, t)' <= now' /\ (t \notin mistaken => Uncollided(t)')
    BY DEF DeliveredInv, heardVars
  <2>1. t \in 1..Len(sent) BY DEF TypeInv, CountType
  <2>2. QED BY <1>1, <1>3, <1>4, <2>1 DEF HeardInv, DeliveredInv
<1>9. QED BY <1>6, <1>7, <1>8 DEF HeardInv

\* What is sent now arrives after what has been delivered and after what has been cached.
LEMMA HeardEnters ==
    ASSUME DownInv, MediumInv, TypeInv, AddressInv, HeardInv, NEW f \in NodeFrames \union Downlinks,
           NEW from \in {gateway, "node"}, NEW first \in {"NONE", "ARRIVING"}, EntersMedium(from, f, first),
           UNCHANGED <<now, separateReceptionParts, concurrentReceptions, mistaken, delivered>>
    PROVE  HeardInv'
<1> DEFINE e == [from |-> from, start |-> now, frame |-> f]
<1>0. PICK n \in Nat : n = Len(sent) BY DEF DownInv, DownType
<1>1. /\ sent' = Append(sent, e) /\ reception' = Append(reception, first)
      /\ interference' = Append(interference, NotCached)
  BY DEF EntersMedium, AddTransmission
<1>2. e \in Sent /\ sent \in Seq(Sent) /\ now \in Nat BY DEF Sent, DownInv, DownType
<1> HIDE DEF e
<1>3. Len(sent') = n + 1 /\ (\A t \in 1..n : sent'[t] = sent[t]) /\ sent'[n + 1] = e
  BY <1>0, <1>1, <1>2, AppendProperties
<1>4. (\A t \in 1..n : reception'[t] = reception[t]) /\ reception'[n + 1] = first
  <2>1. first \in ReceptionStates /\ reception \in Seq(ReceptionStates) /\ Len(reception) = n
    BY <1>0 DEF ReceptionStates, MediumInv, MediumType
  <2>2. QED BY <1>1, <2>1, AppendProperties
<1>5. \A t \in 1..(n + 1) : Listed(t)' => t \in 1..n /\ Listed(t)
  BY <1>0, <1>3, AddressEnters
<1>6. /\ interference' \in Seq(SUBSET Nat) /\ Len(interference') = n + 1
      /\ (\A t \in 1..n : interference'[t] = interference[t]) /\ interference'[n + 1] = NotCached
  <2>1. NotCached \in SUBSET Nat /\ interference \in Seq(SUBSET Nat) /\ Len(interference) = n
    BY <1>0 DEF NotCached, TypeInv
  <2>2. QED BY <1>1, <2>1, AppendProperties
<1>7. \A t \in 1..n, u \in 1..n :
        /\ IsInterfering(gateway, t, u)' = IsInterfering(gateway, t, u)
        /\ Collides(t, u)' = Collides(t, u)
        /\ Early(t, u)' = Early(t, u)
  BY <1>0, <1>3, SignalsStay
<1>8. \A t \in 1..n :
        /\ ArrivalStart(gateway, t)' = ArrivalStart(gateway, t) /\ ArrivalEnd(gateway, t)' = ArrivalEnd(gateway, t)
        /\ ArrivalStart(gateway, t) \in Nat /\ ArrivalEnd(gateway, t) \in Nat
        /\ sent'[t].frame.preamble = sent[t].frame.preamble /\ sent[t].frame.preamble \in Nat
  <2>1. \A t \in 1..n : sent[t].frame.preamble \in Nat BY <1>0, Arrivals, FrameTimes, GatewayAssumption
  <2>2. QED BY <1>0, <1>3, <2>1, Arrivals, GatewayAssumption DEF ArrivalStart, ArrivalEnd
<1>9. \A u \in 1..(n + 1) : u > n => ArrivalStart(gateway, u)' \in Nat /\ now <= ArrivalStart(gateway, u)'
  <2>1. f.delay[gateway] \in Nat BY FrameTimes, GatewayAssumption
  <2>2. ASSUME NEW u \in 1..(n + 1), u > n PROVE ArrivalStart(gateway, u)' = now + f.delay[gateway]
    <3>1. u = n + 1 BY <2>2
    <3>2. sent'[u] = e BY <1>3, <3>1
    <3>3. QED BY <3>2 DEF ArrivalStart, e
  <2>3. QED BY <1>2, <2>1, <2>2
<1>12. AttemptedChecked'
  <2> SUFFICES ASSUME NEW t \in 1..(n + 1), Listed(t)', t \notin mistaken, NEW u \in 1..(t - 1)
               PROVE  ~Collides(t, u)'
    BY <1>3 DEF AttemptedChecked, CheckedAtStart
  <2>1. t \in 1..n /\ Listed(t) BY <1>5
  <2>2. u \in 1..n BY <2>1
  <2>3. ~Collides(t, u) BY <1>0, <2>1 DEF HeardInv, AttemptedChecked, CheckedAtStart
  <2>4. QED BY <1>7, <2>1, <2>2, <2>3
<1>13. CachedInv'
  <2> SUFFICES ASSUME NEW t \in 1..(n + 1), interference'[t] # NotCached
               PROVE  /\ ~separateReceptionParts => reception'[t] = "ENDED"
                      /\ ArrivalStart(gateway, t)' + sent'[t].frame.preamble <= now
                      /\ CachedEnough(t)'
    BY <1>3 DEF CachedInv
  <2>1. t \in 1..n BY <1>6
  <2>2. interference[t] # NotCached BY <1>6, <2>1
  <2>3. /\ ~separateReceptionParts => reception[t] = "ENDED"
        /\ ArrivalStart(gateway, t) + sent[t].frame.preamble <= now
        /\ CachedEnough(t)
    BY <1>0, <2>1, <2>2 DEF HeardInv, CachedInv
  <2>4. ASSUME NEW u \in 1..(n + 1), u > t, IsInterfering(gateway, t, u)', Early(t, u)'
        PROVE  u \in interference'[t]
    <3>1. CASE u \in 1..n
      <4>1. IsInterfering(gateway, t, u) /\ Early(t, u) BY <1>7, <2>1, <2>4, <3>1
      <4>2. u \in interference[t] BY <1>0, <2>3, <2>4, <3>1, <4>1 DEF CachedEnough
      <4>3. QED BY <1>6, <2>1, <4>2
    <3>2. CASE u > n
      <4>1. ArrivalStart(gateway, u)' < ArrivalStart(gateway, t)' + sent'[t].frame.preamble BY <2>4 DEF Early
      <4>2. ArrivalStart(gateway, u)' \in Nat /\ now <= ArrivalStart(gateway, u)' BY <1>9, <3>2
      <4>3. /\ ArrivalStart(gateway, t)' + sent'[t].frame.preamble <= now
            /\ ArrivalStart(gateway, t)' \in Nat /\ sent'[t].frame.preamble \in Nat
        BY <1>8, <2>1, <2>3
      <4>4. QED BY <1>2, <4>1, <4>2, <4>3
    <3>3. QED BY <3>1, <3>2
  <2>5. CachedEnough(t)' BY <1>3, <2>4 DEF CachedEnough
  <2>6. QED BY <1>4, <1>8, <2>1, <2>3, <2>5
<1>14. DeliveredInv'
  <2> SUFFICES ASSUME NEW t \in delivered, NEW u \in 1..(n + 1)
               PROVE  /\ ArrivalEnd(gateway, t)' <= now
                      /\ t \notin mistaken /\ (separateReceptionParts => Early(t, u)') => ~Collides(t, u)'
    BY <1>3 DEF DeliveredInv, Uncollided
  <2>1. t \in 1..n BY <1>0 DEF TypeInv, CountType
  <2>2. ArrivalEnd(gateway, t) <= now /\ (t \notin mistaken => Uncollided(t)) BY DEF HeardInv, DeliveredInv
  <2>3. CASE u \in 1..n BY <1>0, <1>7, <1>8, <2>1, <2>2, <2>3 DEF Uncollided
  <2>4. CASE u > n
    <3>1. ~IsInterfering(gateway, t, u)'
      <4>1. ~(ArrivalStart(gateway, u)' < ArrivalEnd(gateway, t)') BY <1>2, <1>8, <1>9, <2>1, <2>2, <2>4
      <4>2. QED BY <4>1 DEF IsInterfering
    <3>2. QED BY <1>8, <2>1, <2>2, <3>1 DEF Collides
  <2>5. QED BY <2>3, <2>4
<1>15. QED BY <1>12, <1>13, <1>14 DEF HeardInv

\* One reception goes on: it may be listed, its interference may be cached.
LEMMA HeardMoves ==
    ASSUME DownInv, MediumInv, TypeInv, HeardInv, NEW t \in 1..Len(sent), NEW next \in Parts \union {"ENDED"},
           UNCHANGED <<now, sent, separateReceptionParts>>,
           reception[t] # "ENDED", reception' = [reception EXCEPT ![t] = next],
           mistaken \subseteq mistaken',
           \A u \in 1..Len(sent) : u # t /\ Listed(u)' => Listed(u),
           Listed(t)' /\ t \notin mistaken' => CheckedAtStart(t),
           \/ interference' = interference
           \/ /\ interference' = [interference EXCEPT ![t] = InterferenceOf(t)]
              /\ now = PartEnd(t)
              /\ ~separateReceptionParts => next = "ENDED",
           \/ delivered' = delivered
           \/ /\ delivered' = delivered \union {t} /\ ArrivalEnd(gateway, t) <= now
              /\ t \notin mistaken' => Uncollided(t)
    PROVE  HeardInv'
<1>1. /\ reception'[t] = next
      /\ \A u \in 1..Len(sent) : u # t => reception'[u] = reception[u]
  <2>1. next \in ReceptionStates BY DEF ReceptionStates
  <2>2. QED BY <2>1, ExceptSeq DEF MediumInv, MediumType
<1>3. InterferenceOf(t) \in SUBSET Nat
  <2>1. KnownTransmissions \subseteq Nat BY ElementOfSeq DEF KnownTransmissions, MediumInv, MediumType
  <2>2. interference[t] \in SUBSET Nat BY ElementOfSeq DEF TypeInv
  <2>3. QED BY <2>1, <2>2 DEF InterferenceOf, Interference
<1>4. /\ interference' \in Seq(SUBSET Nat) /\ Len(interference') = Len(sent)
      /\ \A u \in 1..Len(sent) : u # t => interference'[u] = interference[u]
      /\ \/ interference'[t] = interference[t]
         \/ /\ interference'[t] = InterferenceOf(t)
            /\ now = PartEnd(t)
            /\ ~separateReceptionParts => next = "ENDED"
  <2>1. interference \in Seq(SUBSET Nat) /\ Len(interference) = Len(sent) BY DEF TypeInv
  <2>2. CASE interference' = interference BY <2>1, <2>2
  <2>3. CASE interference' = [interference EXCEPT ![t] = InterferenceOf(t)]
    <3>1. /\ interference' \in Seq(SUBSET Nat) /\ Len(interference') = Len(sent)
          /\ interference'[t] = InterferenceOf(t)
          /\ \A u \in 1..Len(sent) : u # t => interference'[u] = interference[u]
      BY <1>3, <2>1, <2>3, ExceptSeq
    <3>2. QED BY <2>3, <3>1
  <2>4. QED BY <2>2, <2>3
<1>5. \A u \in 1..Len(sent), v \in 1..Len(sent) :
        /\ IsInterfering(gateway, u, v)' = IsInterfering(gateway, u, v)
        /\ Collides(u, v)' = Collides(u, v)
        /\ Early(u, v)' = Early(u, v)
  BY SignalsStay
<1>6. \A u \in 1..Len(sent) :
        /\ CheckedAtStart(u)' = CheckedAtStart(u)
        /\ Uncollided(u)' = Uncollided(u)
        /\ ArrivalStart(gateway, u)' = ArrivalStart(gateway, u) /\ ArrivalEnd(gateway, u)' = ArrivalEnd(gateway, u)
  <2> TAKE u \in 1..Len(sent)
  <2>1. \A v \in 1..(u - 1) : v \in 1..Len(sent) BY DEF DownInv, DownType
  <2>2. QED BY <1>5, <2>1 DEF CheckedAtStart, Uncollided, ArrivalStart, ArrivalEnd
<1>9. AttemptedChecked'
  <2> SUFFICES ASSUME NEW u \in 1..Len(sent), Listed(u)', u \notin mistaken' PROVE CheckedAtStart(u)
    BY <1>6 DEF AttemptedChecked
  <2>1. CASE u = t BY <2>1
  <2>2. CASE u # t BY <2>2 DEF HeardInv, AttemptedChecked
  <2>3. QED BY <2>1, <2>2
<1>10. CachedInv'
  <2> SUFFICES ASSUME NEW u \in 1..Len(sent), interference'[u] # NotCached
               PROVE  /\ ~separateReceptionParts => reception'[u] = "ENDED"
                      /\ ArrivalStart(gateway, u) + sent[u].frame.preamble <= now
                      /\ CachedEnough(u)'
    BY <1>6 DEF CachedInv
  <2>1. CASE u # t \/ interference[t] # NotCached
    <3>1. interference'[u] = interference[u] BY <1>4, <2>1 DEF InterferenceOf
    <3>2. /\ ~separateReceptionParts => reception[u] = "ENDED"
          /\ ArrivalStart(gateway, u) + sent[u].frame.preamble <= now
          /\ CachedEnough(u)
      BY <3>1 DEF HeardInv, CachedInv
    <3>3. CachedEnough(u)' BY <1>5, <3>1, <3>2 DEF CachedEnough
    <3>4. ~separateReceptionParts => reception'[u] = "ENDED" BY <1>1, <3>2
    <3>5. QED BY <3>2, <3>3, <3>4
  <2>2. CASE u = t /\ interference[t] = NotCached
    <3>1. /\ interference'[t] = Interference(gateway, t) /\ now = PartEnd(t)
          /\ ~separateReceptionParts => next = "ENDED"
      BY <1>4, <2>2 DEF InterferenceOf
    <3>2. now <= ArrivalEnd(gateway, t) /\ ArrivalStart(gateway, t) + sent[t].frame.preamble <= now
      BY <3>1, PartEnds
    <3>3. \A v \in 1..Len(sent) : v >= t => v \in KnownTransmissions BY <3>2, StillKnown
    <3>4. ASSUME NEW v \in 1..Len(sent), v > t, IsInterfering(gateway, t, v) PROVE v \in interference'[t]
      <4>1. v \in KnownTransmissions BY <3>3, <3>4
      <4>2. QED BY <3>1, <3>4, <4>1 DEF Interference
    <3>5. CachedEnough(t)' BY <1>5, <3>4 DEF CachedEnough
    <3>6. QED BY <1>1, <2>2, <3>1, <3>2, <3>5
  <2>3. QED BY <2>1, <2>2
<1>11. DeliveredInv'
  <2> SUFFICES ASSUME NEW u \in delivered'
               PROVE  ArrivalEnd(gateway, u)' <= now /\ (u \notin mistaken' => Uncollided(u)')
    BY DEF DeliveredInv
  <2>1. CASE u \in delivered
    <3>1. u \in 1..Len(sent) /\ ArrivalEnd(gateway, u) <= now /\ (u \notin mistaken' => Uncollided(u))
      BY <2>1 DEF TypeInv, CountType, HeardInv, DeliveredInv
    <3>2. QED BY <1>6, <3>1
  <2>2. CASE u \notin delivered
    <3>1. u = t /\ ArrivalEnd(gateway, t) <= now /\ (t \notin mistaken' => Uncollided(t)) BY <2>2
    <3>2. QED BY <1>6, <3>1
  <2>3. QED BY <2>1, <2>2
<1>12. QED BY <1>9, <1>10, <1>11 DEF HeardInv

LEMMA HeardStartReception ==
    ASSUME DownInv, MediumInv, TypeInv, AddressInv, HeardInv, NEW t \in 1..Len(sent), StartReception(t)
    PROVE  HeardInv'
<1>1. /\ reception[t] = "ARRIVING" /\ now = ArrivalStart(gateway, t)
      /\ reception' = [reception EXCEPT ![t] = FirstPart]
      /\ UNCHANGED <<now, sent, separateReceptionParts, interference, delivered>>
  BY DEF StartReception, mediumVars
<1>2. FirstPart \in Parts BY DEF FirstPart, Parts
<1>3. /\ mistaken \subseteq mistaken'
      /\ \A u \in 1..Len(sent) : u # t => Listed(u)' = Listed(u)
      /\ Listed(t)' /\ t \notin mistaken' => ~IsCollidedNow(t)
  BY ListedStart
<1>4. ASSUME ~IsCollidedNow(t) PROVE CheckedAtStart(t)
  <2> SUFFICES ASSUME NEW u \in 1..(t - 1), Collides(t, u) PROVE FALSE BY DEF CheckedAtStart
  <2>1. u \in 1..Len(sent) BY DEF DownInv, DownType
  <2>2. now <= ArrivalEnd(gateway, u)
    <3>1. ArrivalEnd(gateway, u) > ArrivalStart(gateway, t) BY DEF Collides, IsInterfering
    <3>2. QED BY <1>1, <2>1, <3>1, Arrivals, GatewayAssumption
  <2>3. u \in KnownTransmissions BY <2>1, <2>2, StillKnown
  <2>4. u \in Interference(gateway, t) BY <2>3 DEF Interference, Collides
  <2>5. Signal(u) \in Signals(Interference(gateway, t)) BY <2>4 DEF Signals
  <2>6. QED BY <1>4, <2>5 DEF IsCollidedNow, IsPacketCollided, Collides
<1>5. Listed(t)' /\ t \notin mistaken' => CheckedAtStart(t) BY <1>3, <1>4
<1>6. QED BY <1>1, <1>2, <1>3, <1>5, HeardMoves

\* A frame found when it ends: what was sent before was checked unless it is mistaken, the rest is now.
LEMMA HeardDecision ==
    ASSUME DownInv, MediumInv, TypeInv, AddressInv, HeardInv, NEW t \in 1..Len(sent), EndReceptionDecided(t),
           t \notin mistaken, ~IsPacketCollided(Signal(t), Signals(InterferenceOf(t)))
    PROVE  Uncollided(t)
<1>1. CheckedAtStart(t)
  <2>1. Found(t) BY DEF EndReceptionDecided
  <2>2. Listed(t) BY <2>1, ListedGoesOn
  <2>3. QED BY <2>2 DEF HeardInv, AttemptedChecked
<1>2. ArrivalEnd(gateway, t) \in Nat /\ ArrivalEnd(gateway, t) = now
  BY PartEnds, Arrivals, GatewayAssumption DEF EndReceptionDecided
<1>3. reception[t] # "ENDED" BY DEF EndReceptionDecided
<1> SUFFICES ASSUME NEW u \in 1..Len(sent), separateReceptionParts => Early(t, u), Collides(t, u) PROVE FALSE
  BY DEF Uncollided
<1>4. u > t
  <2>1. u # t BY DEF Collides, IsInterfering
  <2>2. u \notin 1..(t - 1) BY <1>1 DEF CheckedAtStart
  <2>3. QED BY <2>1, <2>2
<1>5. u \in InterferenceOf(t)
  <2>1. CASE interference[t] = NotCached
    <3>1. u \in KnownTransmissions BY <1>2, <1>4, StillKnown
    <3>2. QED BY <2>1, <3>1 DEF InterferenceOf, Interference, Collides
  <2>2. CASE interference[t] # NotCached
    <3>1. separateReceptionParts /\ CachedEnough(t) BY <1>3, <2>2 DEF HeardInv, CachedInv, TypeInv
    <3>2. QED BY <1>4, <2>2, <3>1 DEF InterferenceOf, CachedEnough, Collides
  <2>3. QED BY <2>1, <2>2
<1>6. Signal(u) \in Signals(InterferenceOf(t)) BY <1>5 DEF Signals
<1>7. QED BY <1>6 DEF IsPacketCollided, Collides

LEMMA HeardReceptionSteps ==
    ASSUME DownInv, MediumInv, TypeInv, AddressInv, HeardInv, NEW t \in 1..Len(sent),
           \/ ContinueReception(t) \/ EndReceptionIgnored(t) \/ EndReceptionDecided(t)
    PROVE  HeardInv'
<1> USE DEF mediumVars, countVars
<1>1. /\ InReception(t)
      /\ \A u \in 1..Len(sent) : u # t => Listed(u)' = Listed(u)
      /\ Listed(t)' => Listed(t)
  BY ListedGoesOn
<1>2. UNCHANGED mistaken BY DEF ContinueReception, EndReceptionIgnored, EndReceptionDecided
<1>3. Listed(t)' /\ t \notin mistaken' => CheckedAtStart(t) BY <1>1, <1>2 DEF HeardInv, AttemptedChecked
<1>4. reception[t] # "ENDED" BY <1>1 DEF InReception, Parts
<1>5. CASE ContinueReception(t)
  <2> DEFINE next == NextPart[reception[t]]
  <2>1. /\ reception[t] \in {"PREAMBLE", "HEADER"} /\ now = PartEnd(t)
        /\ reception' = [reception EXCEPT ![t] = next]
        /\ UNCHANGED <<now, sent, separateReceptionParts, delivered>>
        /\ interference' = interference \/ interference' = [interference EXCEPT ![t] = InterferenceOf(t)]
    BY <1>5 DEF ContinueReception
  <2>2. next \in Parts BY <2>1 DEF NextPart, Parts
  <2>3. separateReceptionParts BY <1>1, <2>1 DEF AddressInv, TypeInv
  <2> HIDE DEF next
  <2>4. QED BY <1>1, <1>2, <1>3, <1>4, <2>1, <2>2, <2>3, HeardMoves
<1>6. CASE EndReceptionIgnored(t)
  <2>1. /\ reception' = [reception EXCEPT ![t] = "ENDED"]
        /\ UNCHANGED <<now, sent, separateReceptionParts, interference, delivered>>
    BY <1>6 DEF EndReceptionIgnored
  <2>2. QED BY <1>1, <1>2, <1>3, <1>4, <2>1, HeardMoves
<1>7. CASE EndReceptionDecided(t)
  <2> DEFINE collided == IsPacketCollided(Signal(t), Signals(InterferenceOf(t)))
  <2>1. /\ reception[t] \in {"WHOLE", "DATA"} /\ now = PartEnd(t)
        /\ reception' = [reception EXCEPT ![t] = "ENDED"]
        /\ interference' = [interference EXCEPT ![t] = InterferenceOf(t)]
        /\ UNCHANGED <<now, sent, separateReceptionParts>>
        /\ delivered' = delivered \/ (~collided /\ delivered' = delivered \union {t})
    BY <1>7 DEF EndReceptionDecided
  <2>2. ArrivalEnd(gateway, t) \in Nat /\ ArrivalEnd(gateway, t) = now
    BY <2>1, PartEnds, Arrivals, GatewayAssumption
  <2>3. ~collided /\ t \notin mistaken' => Uncollided(t) BY <1>2, <1>7, HeardDecision
  <2> HIDE DEF collided
  <2>4. \/ delivered' = delivered
        \/ /\ delivered' = delivered \union {t} /\ ArrivalEnd(gateway, t) <= now
           /\ t \notin mistaken' => Uncollided(t)
    BY <2>1, <2>2, <2>3
  <2>5. QED BY <1>1, <1>2, <1>3, <1>4, <2>1, <2>4, HeardMoves
<1>8. QED BY <1>5, <1>6, <1>7

LEMMA HeardStep == DownInv /\ MediumInv /\ TypeInv /\ AddressInv /\ HeardInv /\ [Next]_vars => HeardInv'
<1> SUFFICES ASSUME DownInv, MediumInv, TypeInv, AddressInv, HeardInv, [Next]_vars PROVE HeardInv' OBVIOUS
<1>1. DOMAIN sent = 1..Len(sent) BY DEF DownInv, DownType
<1> USE DEF heardVars, mediumVars, radioVars, countVars
<1>2. CASE \E t \in DOMAIN sent : \/ StartReception(t) \/ ContinueReception(t)
                                  \/ EndReceptionIgnored(t) \/ EndReceptionDecided(t)
  BY <1>1, <1>2, HeardStartReception, HeardReceptionSteps
<1>3. CASE StartTransmission
  <2>1. Head(toRadio) \in Downlinks BY <1>3 DEF StartTransmission, DownInv, DownType
  <2>2. CASE iAmTransmiting BY <1>3, <2>2, HeardLater DEF StartTransmission
  <2>3. CASE ~iAmTransmiting
    <3>1. /\ EntersMedium(gateway, Head(toRadio), "NONE")
          /\ UNCHANGED <<now, separateReceptionParts, concurrentReceptions, mistaken, delivered>>
      BY <1>3, <2>3 DEF StartTransmission
    <3>2. QED BY <2>1, <3>1, HeardEnters
  <2>4. QED BY <2>2, <2>3
<1>4. CASE \E f \in NodeFrames : NodeTransmits(f)
  <2>1. PICK f \in NodeFrames :
          /\ EntersMedium("node", f, "ARRIVING")
          /\ UNCHANGED <<now, separateReceptionParts, concurrentReceptions, mistaken, delivered>>
    BY <1>4 DEF NodeTransmits
  <2>2. QED BY <2>1, HeardEnters
<1>5. CASE RemovalTimerFires BY <1>5, HeardLater DEF RemovalTimerFires, RemoveNonInterferingTransmissions
<1>6. CASE EndTransmission BY <1>6, HeardLater DEF EndTransmission
<1>7. CASE ForwardUp BY <1>7, HeardLater DEF ForwardUp
<1>8. CASE DutyCycleEnds BY <1>8, HeardLater DEF DutyCycleEnds
<1>9. CASE \E f \in Downlinks : DownlinkArrives(f) BY <1>9, HeardLater DEF DownlinkArrives
<1>10. CASE Tick BY <1>10, HeardLater DEF Tick
<1>11. CASE UNCHANGED vars BY <1>11, HeardLater DEF vars
<1>12. QED
  BY <1>2, <1>3, <1>4, <1>5, <1>6, <1>7, <1>8, <1>9, <1>10, <1>11 DEF Next, Handlers, Radio, Environment

(***************************************************************************)
(* A frame that LoRaGWRadio sends up has collided with nothing, as far as  *)
(* LoRaReceiver is asked and whatever the medium has forgotten meanwhile,  *)
(* unless the address of its timer was listed for a deleted one when it    *)
(* started.  Nothing is assumed of the addresses that `new' returns, but   *)
(* that no two timers in use share one.                                    *)
(***************************************************************************)
THEOREM NoCollidedFrameIsDelivered == Spec => []DeliveredUncollidedAsChecked
<1>1. DownInv /\ HeardInv => DeliveredUncollidedAsChecked
  <2> SUFFICES ASSUME DownInv, HeardInv, NEW t \in delivered \ mistaken,
                      NEW u \in DOMAIN sent, IsInterfering(gateway, t, u),
                      separateReceptionParts => Early(t, u),
                      CollidesWith(Signal(t), Signal(u))
               PROVE  FALSE
    BY DEF DeliveredUncollidedAsChecked, IsPacketCollided, Signals, Interferers, Early
  <2>1. u \in 1..Len(sent) BY DEF DownInv, DownType
  <2>2. Uncollided(t) BY DEF HeardInv, DeliveredInv
  <2>3. QED BY <2>1, <2>2 DEF Uncollided, Collides
<1>2. Init => DownInv /\ MediumInv /\ TypeInv /\ AddressInv /\ HeardInv
  BY DownInitial, MediumInitial, TypeInitial, AddressInitial, HeardInitial
<1>3. DownInv /\ MediumInv /\ TypeInv /\ AddressInv /\ HeardInv /\ [Next]_vars
      => DownInv' /\ MediumInv' /\ TypeInv' /\ AddressInv' /\ HeardInv'
  BY DownStep, MediumStep, TypeStep, AddressStep, HeardStep
<1>4. QED BY <1>1, <1>2, <1>3, PTL DEF Spec

-----------------------------------------------------------------------------
(***************************************************************************)
(* Half duplex: what iAmTransmiting says at the ends of a reception.       *)
(***************************************************************************)
OwnTimes ==
    \A u \in OwnTransmissions :
        /\ OwnStart(u) <= now
        /\ OwnEnd(u) <= now \/ (iAmTransmiting /\ OwnEnd(u) = transmissionTimer)

\* The gateway does not transmit at time x.
Apart(x) == \A u \in OwnTransmissions : ~(OwnStart(u) < x /\ x < OwnEnd(u))

HalfInv ==
    /\ OwnTimes
    /\ \A t \in 1..Len(sent) :
        Listed(t) /\ t \notin mistaken => ArrivalStart(gateway, t) <= now /\ Apart(ArrivalStart(gateway, t))
    /\ \A t \in delivered :
        (t \notin mistaken => Apart(ArrivalStart(gateway, t))) /\ Apart(ArrivalEnd(gateway, t))

LEMMA OwnTypes ==
    ASSUME DownInv, NEW u \in OwnTransmissions
    PROVE  u \in 1..Len(sent) /\ OwnStart(u) \in Nat /\ OwnEnd(u) \in Nat
<1>1. u \in 1..Len(sent) BY DEF OwnTransmissions, DownInv, DownType
<1>2. sent[u].start \in Nat /\ sent[u].frame.duration \in Nat BY <1>1, Arrivals, FrameTimes, GatewayAssumption
<1>3. QED BY <1>1, <1>2 DEF OwnStart, OwnEnd

LEMMA HalfInitial == Init => HalfInv
<1> SUFFICES ASSUME Init PROVE HalfInv OBVIOUS
<1>1. sent = <<>> /\ delivered = {} BY DEF Init, MediumInit
<1>2. OwnTransmissions = {} /\ 1..Len(sent) = {} BY <1>1 DEF OwnTransmissions
<1>3. QED BY <1>1, <1>2 DEF HalfInv, OwnTimes

\* Nothing of the gateway's own is sent, and no reception is listed or delivered anew.
LEMMA HalfLater ==
    ASSUME DownInv, TypeInv, HalfInv, now' = now \/ now' = now + 1,
           UNCHANGED <<sent, mistaken, delivered>>,
           \A t \in 1..Len(sent) : Listed(t)' => Listed(t),
           \/ UNCHANGED <<iAmTransmiting, transmissionTimer>>
           \/ iAmTransmiting /\ transmissionTimer = now
    PROVE  HalfInv'
<1>1. now \in Nat /\ now' \in Nat /\ now <= now' BY DEF DownInv, DownType
<1>2. /\ OwnTransmissions' = OwnTransmissions
      /\ \A u \in OwnTransmissions : OwnStart(u)' = OwnStart(u) /\ OwnEnd(u)' = OwnEnd(u)
      /\ \A t \in 1..Len(sent) : /\ ArrivalStart(gateway, t)' = ArrivalStart(gateway, t)
                                 /\ ArrivalEnd(gateway, t)' = ArrivalEnd(gateway, t)
                                 /\ ArrivalStart(gateway, t) \in Nat
  BY Arrivals, GatewayAssumption DEF OwnTransmissions, OwnStart, OwnEnd, ArrivalStart, ArrivalEnd
<1>3. OwnTimes'
  <2> SUFFICES ASSUME NEW u \in OwnTransmissions
               PROVE  /\ OwnStart(u) <= now'
                      /\ OwnEnd(u) <= now' \/ (iAmTransmiting' /\ OwnEnd(u) = transmissionTimer')
    BY <1>2 DEF OwnTimes
  <2>1. OwnStart(u) \in Nat /\ OwnEnd(u) \in Nat BY OwnTypes
  <2>2. OwnStart(u) <= now /\ (OwnEnd(u) <= now \/ (iAmTransmiting /\ OwnEnd(u) = transmissionTimer))
    BY DEF HalfInv, OwnTimes
  <2>3. QED BY <1>1, <2>1, <2>2
<1>4. ASSUME NEW x, Apart(x) PROVE \A u \in OwnTransmissions : ~(OwnStart(u)' < x /\ x < OwnEnd(u)')
  BY <1>2, <1>4 DEF Apart
<1>5. ASSUME NEW t \in 1..Len(sent), Listed(t)', t \notin mistaken
      PROVE  ArrivalStart(gateway, t)' <= now' /\ Apart(ArrivalStart(gateway, t))'
  <2>1. ArrivalStart(gateway, t) <= now /\ Apart(ArrivalStart(gateway, t)) BY <1>5 DEF HalfInv
  <2>2. QED BY <1>1, <1>2, <1>4, <2>1 DEF Apart
<1>6. ASSUME NEW t \in delivered
      PROVE  (t \notin mistaken => Apart(ArrivalStart(gateway, t))') /\ Apart(ArrivalEnd(gateway, t))'
  <2>1. t \in 1..Len(sent) BY DEF TypeInv, CountType
  <2>2. (t \notin mistaken => Apart(ArrivalStart(gateway, t))) /\ Apart(ArrivalEnd(gateway, t)) BY DEF HalfInv
  <2>3. QED BY <1>2, <1>4, <2>1, <2>2 DEF Apart
<1>7. QED BY <1>3, <1>5, <1>6 DEF HalfInv

LEMMA HalfEnters ==
    ASSUME DownInv, MediumInv, TypeInv, AddressInv, HeardInv, HalfInv, NEW f \in NodeFrames \union Downlinks,
           NEW from \in {gateway, "node"}, NEW first \in {"NONE", "ARRIVING"}, EntersMedium(from, f, first),
           UNCHANGED <<now, separateReceptionParts, concurrentReceptions, mistaken, delivered>>,
           \/ from # gateway /\ UNCHANGED <<iAmTransmiting, transmissionTimer>>
           \/ from = gateway /\ ~iAmTransmiting /\ iAmTransmiting' /\ transmissionTimer' = now + f.duration
    PROVE  HalfInv'
<1> DEFINE e == [from |-> from, start |-> now, frame |-> f]
<1>0. PICK n \in Nat : n = Len(sent) BY DEF DownInv, DownType
<1>1. e \in Sent /\ sent \in Seq(Sent) /\ now \in Nat BY DEF Sent, DownInv, DownType
<1>2. e.from = from /\ e.start = now /\ e.frame = f OBVIOUS
<1>3. sent' = Append(sent, e) BY DEF EntersMedium, AddTransmission
<1> HIDE DEF e
<1>4. Len(sent') = n + 1 /\ (\A t \in 1..n : sent'[t] = sent[t]) /\ sent'[n + 1] = e
  BY <1>0, <1>1, <1>3, AppendProperties
<1>5. OwnTransmissions' = IF from = gateway THEN OwnTransmissions \union {n + 1} ELSE OwnTransmissions
  BY <1>0, <1>1, <1>2, <1>3, OwnAppend
<1>6. \A u \in 1..n : /\ OwnStart(u)' = OwnStart(u) /\ OwnEnd(u)' = OwnEnd(u)
                      /\ ArrivalStart(gateway, u)' = ArrivalStart(gateway, u)
                      /\ ArrivalEnd(gateway, u)' = ArrivalEnd(gateway, u)
                      /\ ArrivalStart(gateway, u) \in Nat /\ ArrivalEnd(gateway, u) \in Nat
  BY <1>0, <1>4, Arrivals, GatewayAssumption DEF OwnStart, OwnEnd, ArrivalStart, ArrivalEnd
<1>7. \A u \in OwnTransmissions' : u \notin OwnTransmissions =>
        /\ from = gateway
        /\ OwnStart(u)' = now /\ OwnEnd(u)' = now + f.duration
  <2> SUFFICES ASSUME NEW u \in OwnTransmissions', u \notin OwnTransmissions
               PROVE  from = gateway /\ OwnStart(u)' = now /\ OwnEnd(u)' = now + f.duration
    OBVIOUS
  <2>1. from = gateway /\ u = n + 1 BY <1>5
  <2>2. sent'[u] = e BY <1>4, <2>1
  <2>3. QED BY <1>2, <2>1, <2>2 DEF OwnStart, OwnEnd
<1>8. \A u \in OwnTransmissions : u \in 1..n BY <1>0, OwnTypes
<1>9. OwnTimes'
  <2> SUFFICES ASSUME NEW u \in OwnTransmissions'
               PROVE  /\ OwnStart(u)' <= now
                      /\ OwnEnd(u)' <= now \/ (iAmTransmiting' /\ OwnEnd(u)' = transmissionTimer')
    BY DEF OwnTimes
  <2>1. CASE u \in OwnTransmissions
    <3>1. OwnStart(u) <= now /\ (OwnEnd(u) <= now \/ (iAmTransmiting /\ OwnEnd(u) = transmissionTimer))
      BY <2>1 DEF HalfInv, OwnTimes
    <3>2. QED BY <1>6, <1>8, <2>1, <3>1
  <2>2. CASE u \notin OwnTransmissions BY <1>1, <1>7, <2>2
  <2>3. QED BY <2>1, <2>2
<1>10. ASSUME NEW x \in Nat, x <= now, Apart(x)
       PROVE  \A u \in OwnTransmissions' : ~(OwnStart(u)' < x /\ x < OwnEnd(u)')
  <2> SUFFICES ASSUME NEW u \in OwnTransmissions', OwnStart(u)' < x, x < OwnEnd(u)' PROVE FALSE OBVIOUS
  <2>1. CASE u \in OwnTransmissions BY <1>6, <1>8, <1>10, <2>1 DEF Apart
  <2>2. CASE u \notin OwnTransmissions BY <1>1, <1>7, <1>10, <2>2
  <2>3. QED BY <2>1, <2>2
<1>11. ASSUME NEW t \in 1..(n + 1), Listed(t)', t \notin mistaken
       PROVE  ArrivalStart(gateway, t)' <= now /\ Apart(ArrivalStart(gateway, t))'
  <2>1. \A u \in 1..Len(sent) : Listed(u)' = Listed(u) BY AddressEnters
  <2>2. \A u \in 1..Len(sent') : Listed(u)' => u \in 1..Len(sent) BY AddressEnters
  <2>5. t \in 1..n /\ Listed(t) BY <1>0, <1>4, <1>11, <2>1, <2>2
  <2>3. ArrivalStart(gateway, t) <= now /\ Apart(ArrivalStart(gateway, t)) BY <1>0, <1>11, <2>5 DEF HalfInv
  <2>4. QED BY <1>6, <1>10, <2>3, <2>5 DEF Apart
<1>12. ASSUME NEW t \in delivered
       PROVE  (t \notin mistaken => Apart(ArrivalStart(gateway, t))') /\ Apart(ArrivalEnd(gateway, t))'
  <2>1. t \in 1..n /\ ArrivalEnd(gateway, t) <= now BY <1>0 DEF TypeInv, CountType, HeardInv, DeliveredInv
  <2>2. (t \notin mistaken => Apart(ArrivalStart(gateway, t))) /\ Apart(ArrivalEnd(gateway, t)) BY DEF HalfInv
  <2>3. ArrivalStart(gateway, t) <= ArrivalEnd(gateway, t)
    <3>1. sent[t].frame.duration \in Nat BY <1>0, <2>1, Arrivals, FrameTimes, GatewayAssumption
    <3>2. QED BY <1>0, <2>1, <3>1, Arrivals, GatewayAssumption
  <2>4. ArrivalStart(gateway, t) <= now BY <1>1, <1>6, <2>1, <2>3
  <2>5. QED BY <1>6, <1>10, <2>1, <2>2, <2>4 DEF Apart
<1>13. QED BY <1>4, <1>9, <1>11, <1>12 DEF HalfInv

\* Time x is now, and the gateway does not transmit.
LEMMA ApartNow ==
    ASSUME DownInv, HalfInv, ~iAmTransmiting
    PROVE  Apart(now)
<1> SUFFICES ASSUME NEW u \in OwnTransmissions PROVE ~(now < OwnEnd(u)) BY DEF Apart
<1>1. OwnEnd(u) <= now BY DEF HalfInv, OwnTimes
<1>2. QED BY <1>1, OwnTypes DEF DownInv, DownType

\* A reception starts or is decided; now is that moment, and the gateway does not transmit.
LEMMA HalfReception ==
    ASSUME DownInv, TypeInv, HalfInv, NEW t \in 1..Len(sent), NEW more \in SUBSET {t},
           UNCHANGED <<now, sent, iAmTransmiting, transmissionTimer>>, mistaken \subseteq mistaken',
           \A u \in 1..Len(sent) : u # t /\ Listed(u)' => Listed(u),
           Listed(t)' /\ ~Listed(t) /\ t \notin mistaken' => ArrivalStart(gateway, t) = now /\ ~iAmTransmiting,
           delivered' = delivered \union more,
           more # {} => Listed(t) /\ ArrivalEnd(gateway, t) = now /\ ~iAmTransmiting
    PROVE  HalfInv'
<1>1. now \in Nat BY DEF DownInv, DownType
<1>2. /\ OwnTransmissions' = OwnTransmissions
      /\ \A u \in OwnTransmissions : OwnStart(u)' = OwnStart(u) /\ OwnEnd(u)' = OwnEnd(u)
      /\ \A u \in 1..Len(sent) : /\ ArrivalStart(gateway, u)' = ArrivalStart(gateway, u)
                                 /\ ArrivalEnd(gateway, u)' = ArrivalEnd(gateway, u)
  BY DEF OwnTransmissions, OwnStart, OwnEnd, ArrivalStart, ArrivalEnd
<1>3. OwnTimes' BY <1>2 DEF HalfInv, OwnTimes
<1>4. ASSUME NEW x, Apart(x) PROVE \A u \in OwnTransmissions : ~(OwnStart(u)' < x /\ x < OwnEnd(u)')
  BY <1>2, <1>4 DEF Apart
<1>5. ASSUME NEW u \in 1..Len(sent), Listed(u)', u \notin mistaken'
      PROVE  ArrivalStart(gateway, u)' <= now /\ Apart(ArrivalStart(gateway, u))'
  <2>1. ArrivalStart(gateway, u) <= now /\ Apart(ArrivalStart(gateway, u))
    <3>1. CASE Listed(u) BY <1>5, <3>1 DEF HalfInv
    <3>2. CASE ~Listed(u)
      <4>1. ArrivalStart(gateway, u) = now /\ ~iAmTransmiting BY <1>5, <3>2
      <4>2. QED BY <1>1, <4>1, ApartNow
    <3>3. QED BY <3>1, <3>2
  <2>2. QED BY <1>2, <1>4, <2>1 DEF Apart
<1>6. ASSUME NEW u \in delivered'
      PROVE  (u \notin mistaken' => Apart(ArrivalStart(gateway, u))') /\ Apart(ArrivalEnd(gateway, u))'
  <2>1. u \in 1..Len(sent) BY DEF TypeInv, CountType
  <2>2. (u \notin mistaken' => Apart(ArrivalStart(gateway, u))) /\ Apart(ArrivalEnd(gateway, u))
    <3>1. CASE u \in delivered BY <3>1 DEF HalfInv
    <3>2. CASE u \notin delivered
      <4>1. u = t /\ Listed(t) /\ ArrivalEnd(gateway, t) = now /\ ~iAmTransmiting BY <3>2
      <4>2. QED BY <4>1, ApartNow DEF HalfInv
    <3>3. QED BY <3>1, <3>2
  <2>3. QED BY <1>2, <1>4, <2>1, <2>2 DEF Apart
<1>7. QED BY <1>3, <1>5, <1>6 DEF HalfInv

LEMMA HalfReceptionSteps ==
    ASSUME DownInv, MediumInv, TypeInv, AddressInv, HalfInv, NEW t \in 1..Len(sent),
           \/ StartReception(t) \/ ContinueReception(t)
           \/ EndReceptionIgnored(t) \/ EndReceptionDecided(t)
    PROVE  HalfInv'
<1> USE DEF mediumVars, transmitVars, countVars
<1>1. CASE StartReception(t)
  <2>1. now = ArrivalStart(gateway, t) /\ UNCHANGED <<now, sent, iAmTransmiting, transmissionTimer, delivered>>
    BY <1>1 DEF StartReception
  <2>2. /\ mistaken \subseteq mistaken'
        /\ \A u \in 1..Len(sent) : u # t => Listed(u)' = Listed(u)
        /\ Listed(t)' /\ t \notin mistaken' => CanReceive
    BY <1>1, ListedStart
  <2>3. delivered' = delivered \union {} BY <2>1
  <2>4. QED BY <2>1, <2>2, <2>3, HalfReception DEF CanReceive
<1>2. CASE ContinueReception(t) \/ EndReceptionIgnored(t)
  <2>1. UNCHANGED <<now, sent, iAmTransmiting, transmissionTimer, mistaken, delivered>>
    BY <1>2 DEF ContinueReception, EndReceptionIgnored
  <2>2. \A u \in 1..Len(sent) : Listed(u)' => Listed(u) BY <1>2, ListedGoesOn
  <2>3. QED BY <2>1, <2>2, HalfLater
<1>3. CASE EndReceptionDecided(t)
  <2>1. /\ now = PartEnd(t) /\ reception[t] \in {"WHOLE", "DATA"} /\ Found(t) /\ ~iAmTransmiting
        /\ UNCHANGED <<now, sent, iAmTransmiting, transmissionTimer, mistaken>>
        /\ delivered' = delivered \/ delivered' = delivered \union {t}
    BY <1>3 DEF EndReceptionDecided, CanReceive
  <2>2. Listed(t) /\ \A u \in 1..Len(sent) : Listed(u)' => Listed(u) BY <1>3, <2>1, ListedGoesOn
  <2>3. ArrivalEnd(gateway, t) = now BY <2>1, PartEnds
  <2>4. PICK more \in SUBSET {t} : delivered' = delivered \union more
    <3>1. delivered' = delivered => delivered' = delivered \union {} OBVIOUS
    <3>2. {} \in SUBSET {t} /\ {t} \in SUBSET {t} OBVIOUS
    <3>3. QED BY <2>1, <3>1, <3>2
  <2>5. QED BY <2>1, <2>2, <2>3, <2>4, HalfReception
<1>4. QED BY <1>1, <1>2, <1>3

LEMMA HalfStep ==
    ASSUME DownInv, MediumInv, TypeInv, AddressInv, HeardInv, HalfInv, [Next]_vars
    PROVE  HalfInv'
<1>1. DOMAIN sent = 1..Len(sent) BY DEF DownInv, DownType
<1> USE DEF mediumVars, radioVars, transmitVars, countVars
<1>2. CASE \E t \in DOMAIN sent : \/ StartReception(t) \/ ContinueReception(t)
                                  \/ EndReceptionIgnored(t) \/ EndReceptionDecided(t)
  BY <1>1, <1>2, HalfReceptionSteps
<1>3. CASE StartTransmission
  <2>1. Head(toRadio) \in Downlinks BY <1>3 DEF StartTransmission, DownInv, DownType
  <2>2. CASE iAmTransmiting BY <1>3, <2>2, HalfLater DEF StartTransmission, Listed, InReception
  <2>3. CASE ~iAmTransmiting
    <3>1. /\ EntersMedium(gateway, Head(toRadio), "NONE")
          /\ UNCHANGED <<now, separateReceptionParts, concurrentReceptions, mistaken, delivered>>
          /\ iAmTransmiting' /\ transmissionTimer' = now + Head(toRadio).duration
      BY <1>3, <2>3 DEF StartTransmission
    <3>2. QED BY <2>1, <2>3, <3>1, HalfEnters
  <2>4. QED BY <2>2, <2>3
<1>4. CASE \E f \in NodeFrames : NodeTransmits(f)
  <2>1. PICK f \in NodeFrames :
          /\ EntersMedium("node", f, "ARRIVING")
          /\ UNCHANGED <<now, separateReceptionParts, concurrentReceptions, mistaken, delivered,
                         iAmTransmiting, transmissionTimer>>
    BY <1>4 DEF NodeTransmits
  <2>2. QED BY <2>1, GatewayAssumption, HalfEnters
<1>5. CASE RemovalTimerFires
  BY <1>5, HalfLater DEF RemovalTimerFires, RemoveNonInterferingTransmissions, Listed, InReception
<1>6. CASE EndTransmission
  <2>1. /\ transmissionTimer = now /\ UNCHANGED <<now, sent, mistaken, delivered, reception, timer, concurrentReceptions>>
    BY <1>6 DEF EndTransmission
  <2>2. iAmTransmiting BY <2>1, OffNotNat DEF DownInv, DownType
  <2>3. QED BY <2>1, <2>2, HalfLater DEF Listed, InReception
<1>7. CASE ForwardUp BY <1>7, HalfLater DEF ForwardUp, Listed, InReception
<1>8. CASE DutyCycleEnds BY <1>8, HalfLater DEF DutyCycleEnds, Listed, InReception
<1>9. CASE \E f \in Downlinks : DownlinkArrives(f)
  <2>1. UNCHANGED <<now, sent, mistaken, delivered, reception, timer, concurrentReceptions,
                 iAmTransmiting, transmissionTimer>>
    BY <1>9 DEF DownlinkArrives
  <2>2. QED BY <2>1, HalfLater DEF Listed, InReception
<1>10. CASE Tick BY <1>10, HalfLater DEF Tick, Listed, InReception
<1>11. CASE UNCHANGED vars BY <1>11, HalfLater DEF vars, Listed, InReception
<1>12. QED
  BY <1>2, <1>3, <1>4, <1>5, <1>6, <1>7, <1>8, <1>9, <1>10, <1>11 DEF Next, Handlers, Radio, Environment

(***************************************************************************)
(* No frame that LoRaGWRadio sends up ends while the gateway transmits,    *)
(* and none starts then but one whose timer got the address of a listed    *)
(* one: iAmTransmiting is looked at at these moments only.                 *)
(***************************************************************************)
THEOREM HalfDuplex == Spec => []HalfDuplexAtEnds
<1>1. HalfInv => HalfDuplexAtEnds BY DEF HalfInv, Apart, HalfDuplexAtEnds
<1>2. Init => DownInv /\ MediumInv /\ TypeInv /\ AddressInv /\ HeardInv /\ HalfInv
  BY DownInitial, MediumInitial, TypeInitial, AddressInitial, HeardInitial, HalfInitial
<1>3. DownInv /\ MediumInv /\ TypeInv /\ AddressInv /\ HeardInv /\ HalfInv /\ [Next]_vars
      => DownInv' /\ MediumInv' /\ TypeInv' /\ AddressInv' /\ HeardInv' /\ HalfInv'
  BY DownStep, MediumStep, TypeStep, AddressStep, HeardStep, HalfStep
<1>4. QED BY <1>1, <1>2, <1>3, PTL DEF Spec

-----------------------------------------------------------------------------
(***************************************************************************)
(* The way up: what the radio delivers waits for LoRaGWMac once, and what  *)
(* is forwarded was delivered once.                                        *)
(***************************************************************************)
Waiting == {toForwarder[i] : i \in 1..Len(toForwarder)}
Ended == {t \in 1..Len(sent) : reception[t] = "ENDED"}
Uplinks == {t \in 1..Len(sent) : sent[t].from # gateway /\ IsUplink(t)}

\* The gateway does not receive what it transmits itself.
UpType ==
    /\ toForwarder \in Seq(Nat)
    /\ delivered \subseteq Ended
    /\ \A t \in 1..Len(sent) : sent[t].from = gateway => reception[t] = "NONE"

OnceUp ==
    /\ \A i, j \in 1..Len(toForwarder) : toForwarder[i] = toForwarder[j] => i = j
    /\ Waiting \subseteq delivered /\ forwarded \subseteq delivered
    /\ forwarded \intersect Waiting = {}
    /\ \A t \in forwarded : IsUplink(t)
    /\ \A t \in delivered : IsUplink(t) => t \in forwarded \union Waiting

UpInv == UpType /\ OnceUp

Counters ==
    /\ IsFiniteSet(forwarded) /\ counterOfReceivedPackets = Cardinality(forwarded)
    /\ IsFiniteSet(Uplinks) /\ counterOfSentPacketsFromNodes = Cardinality(Uplinks)

\* LoRaGWMac's queue: a new frame at its end, the first one leaves.
LEMMA WaitingAppend ==
    ASSUME UpType, OnceUp, NEW t \in Nat, t \notin Waiting, toForwarder' = Append(toForwarder, t)
    PROVE  /\ toForwarder' \in Seq(Nat)
           /\ Waiting' = Waiting \union {t}
           /\ \A i, j \in 1..Len(toForwarder') : toForwarder'[i] = toForwarder'[j] => i = j
<1>0. PICK n \in Nat : n = Len(toForwarder) BY DEF UpType
<1>1. /\ toForwarder' \in Seq(Nat) /\ Len(toForwarder') = n + 1
      /\ \A i \in 1..n : toForwarder'[i] = toForwarder[i]
      /\ toForwarder'[n + 1] = t
  BY <1>0, AppendProperties DEF UpType
<1>2. 1..(n + 1) = 1..n \union {n + 1} OBVIOUS
<1>3. Waiting' = Waiting \union {t} BY <1>0, <1>1, <1>2 DEF Waiting
<1>4. \A i \in 1..n : toForwarder[i] # t BY <1>0 DEF Waiting
<1>5. \A i, j \in 1..n : toForwarder[i] = toForwarder[j] => i = j BY <1>0 DEF OnceUp
<1>6. QED BY <1>1, <1>2, <1>3, <1>4, <1>5

LEMMA WaitingTail ==
    ASSUME UpType, OnceUp, toForwarder # <<>>, toForwarder' = Tail(toForwarder)
    PROVE  /\ toForwarder' \in Seq(Nat)
           /\ Head(toForwarder) \in Waiting
           /\ Waiting' = Waiting \ {Head(toForwarder)}
           /\ \A i, j \in 1..Len(toForwarder') : toForwarder'[i] = toForwarder'[j] => i = j
<1>0. PICK n \in Nat : n + 1 = Len(toForwarder) /\ Head(toForwarder) = toForwarder[1]
  <2>1. Len(toForwarder) \in Nat /\ Len(toForwarder) # 0 /\ Head(toForwarder) = toForwarder[1] BY DEF UpType
  <2>2. Len(toForwarder) - 1 \in Nat /\ (Len(toForwarder) - 1) + 1 = Len(toForwarder) BY <2>1
  <2>3. QED BY <2>1, <2>2
<1>1. /\ toForwarder' \in Seq(Nat) /\ Len(toForwarder') = n
      /\ \A i \in 1..n : toForwarder'[i] = toForwarder[i + 1]
  BY <1>0, HeadTailProperties DEF UpType
<1>2. \A i, j \in 1..(n + 1) : toForwarder[i] = toForwarder[j] => i = j BY <1>0 DEF OnceUp
<1>3. Head(toForwarder) \in Waiting BY <1>0 DEF Waiting
<1>4. Waiting' = {toForwarder[i + 1] : i \in 1..n} BY <1>1 DEF Waiting
<1>5. Waiting = {toForwarder[i] : i \in 1..(n + 1)} BY <1>0 DEF Waiting
<1>6. \A i \in 1..n : i + 1 \in 1..(n + 1) /\ i + 1 # 1 OBVIOUS
<1>7. \A i \in 1..(n + 1) : i # 1 => i - 1 \in 1..n /\ (i - 1) + 1 = i OBVIOUS
<1>8. Waiting' \subseteq Waiting \ {Head(toForwarder)} BY <1>0, <1>2, <1>4, <1>5, <1>6
<1>9. Waiting \ {Head(toForwarder)} \subseteq Waiting' BY <1>0, <1>4, <1>5, <1>7
<1>10. \A i, j \in 1..n : toForwarder'[i] = toForwarder'[j] => i = j
  <2> SUFFICES ASSUME NEW i \in 1..n, NEW j \in 1..n, toForwarder'[i] = toForwarder'[j] PROVE i = j OBVIOUS
  <2>1. i + 1 = j + 1 BY <1>1, <1>2, <1>6
  <2>2. QED BY <2>1
<1>11. QED BY <1>1, <1>3, <1>8, <1>9, <1>10

LEMMA UpInitial == Init => UpInv /\ Counters
<1> SUFFICES ASSUME Init PROVE UpInv /\ Counters OBVIOUS
<1>1. /\ sent = <<>> /\ reception = <<>> /\ toForwarder = <<>> /\ delivered = {} /\ forwarded = {}
      /\ counterOfReceivedPackets = 0 /\ counterOfSentPacketsFromNodes = 0
  BY DEF Init, MediumInit
<1>2. Len(sent) = 0 /\ Len(toForwarder) = 0 /\ 1..0 = {} /\ toForwarder \in Seq(Nat) BY <1>1
<1>3. Waiting = {} /\ Uplinks = {} BY <1>2 DEF Waiting, Uplinks
<1>4. QED BY <1>1, <1>2, <1>3, FS_EmptySet DEF UpInv, UpType, OnceUp, Counters

upVars == <<sent, reception, toForwarder, delivered, forwarded>>
counterVars == <<sent, forwarded, counterOfReceivedPackets, counterOfSentPacketsFromNodes>>

LEMMA UpUnchanged == UpInv /\ UNCHANGED upVars => UpInv'
<1> SUFFICES ASSUME UpInv, UNCHANGED upVars PROVE UpInv' OBVIOUS
<1>1. Ended' = Ended /\ Waiting' = Waiting BY DEF upVars, Ended, Waiting
<1>2. \A t : IsUplink(t)' = IsUplink(t) BY DEF upVars, IsUplink
<1>3. UpType' BY <1>1 DEF upVars, UpInv, UpType
<1>4. OnceUp'
  <2>1. OnceUp BY DEF UpInv
  <2>2. toForwarder' = toForwarder /\ delivered' = delivered /\ forwarded' = forwarded BY DEF upVars
  <2>3. \A i, j \in 1..Len(toForwarder') : toForwarder'[i] = toForwarder'[j] => i = j BY <2>1, <2>2 DEF OnceUp
  <2>4. /\ Waiting' \subseteq delivered' /\ forwarded' \subseteq delivered'
        /\ forwarded' \intersect Waiting' = {}
    BY <1>1, <2>1, <2>2 DEF OnceUp
  <2>5. /\ \A t \in forwarded' : IsUplink(t)'
        /\ \A t \in delivered' : IsUplink(t)' => t \in forwarded' \union Waiting'
    BY <1>1, <1>2, <2>1, <2>2, Zenon DEF OnceUp
  <2>6. QED BY <2>3, <2>4, <2>5 DEF OnceUp
<1>5. QED BY <1>3, <1>4 DEF UpInv

LEMMA CountersUnchanged == Counters /\ UNCHANGED counterVars => Counters'
BY DEF counterVars, Counters, Uplinks, IsUplink

LEMMA UpEnters ==
    ASSUME DownInv, MediumInv, UpInv, NEW f \in NodeFrames \union Downlinks,
           NEW from \in {gateway, "node"}, NEW first \in {"NONE", "ARRIVING"},
           from = gateway => first = "NONE",
           EntersMedium(from, f, first), UNCHANGED <<toForwarder, delivered, forwarded>>
    PROVE  /\ UpInv'
           /\ Uplinks' = Uplinks \union (IF from # gateway /\ f.uplink THEN {Len(sent) + 1} ELSE {})
<1> DEFINE e == [from |-> from, start |-> now, frame |-> f]
<1>0. PICK n \in Nat : n = Len(sent) BY DEF DownInv, DownType
<1>1. sent' = Append(sent, e) /\ reception' = Append(reception, first)
  BY DEF EntersMedium, AddTransmission
<1>2. e \in Sent /\ sent \in Seq(Sent) BY DEF Sent, DownInv, DownType
<1>3. e.from = from /\ e.frame = f OBVIOUS
<1> HIDE DEF e
<1>4. Len(sent') = n + 1 /\ (\A t \in 1..n : sent'[t] = sent[t]) /\ sent'[n + 1] = e
  BY <1>0, <1>1, <1>2, AppendProperties
<1>5. (\A t \in 1..n : reception'[t] = reception[t]) /\ reception'[n + 1] = first
  <2>1. first \in ReceptionStates /\ reception \in Seq(ReceptionStates) /\ Len(reception) = n
    BY <1>0 DEF ReceptionStates, MediumInv, MediumType
  <2>2. QED BY <1>1, <2>1, AppendProperties
<1>6. 1..(n + 1) = 1..n \union {n + 1} OBVIOUS
<1>7. Ended \subseteq Ended' BY <1>0, <1>4, <1>5, <1>6 DEF Ended
<1>8. UpType' BY <1>0, <1>3, <1>4, <1>5, <1>6, <1>7 DEF UpInv, UpType
<1>9. Waiting' = Waiting BY DEF Waiting
<1>10. \A t \in delivered : IsUplink(t)' = IsUplink(t)
  BY <1>0, <1>4 DEF UpInv, UpType, Ended, IsUplink
<1>11. OnceUp' BY <1>9, <1>10 DEF UpInv, OnceUp
<1>12. Uplinks' = Uplinks \union (IF from # gateway /\ f.uplink THEN {n + 1} ELSE {})
  BY <1>0, <1>3, <1>4, <1>6 DEF Uplinks, IsUplink
<1>13. QED BY <1>0, <1>8, <1>11, <1>12 DEF UpInv

\* One reception goes on; at its end it may be delivered.
LEMMA UpMoves ==
    ASSUME MediumInv, UpInv, NEW t \in 1..Len(sent), NEW next \in Parts \union {"ENDED"},
           reception[t] \notin {"NONE", "ENDED"}, reception' = [reception EXCEPT ![t] = next],
           UNCHANGED <<sent, forwarded>>,
           \/ UNCHANGED <<delivered, toForwarder>>
           \/ next = "ENDED" /\ delivered' = delivered \union {t} /\ toForwarder' = Append(toForwarder, t)
    PROVE  UpInv'
<1>1. /\ reception'[t] = next
      /\ \A u \in 1..Len(sent) : u # t => reception'[u] = reception[u]
  <2>1. next \in ReceptionStates BY DEF ReceptionStates
  <2>2. QED BY <2>1, ExceptSeq DEF MediumInv, MediumType
<1>2. Ended \subseteq Ended' /\ (next = "ENDED" => t \in Ended') BY <1>1 DEF Ended
<1>3. t \notin delivered BY DEF UpInv, UpType, Ended
<1>4. t \notin Waiting BY <1>3 DEF UpInv, OnceUp
<1>5. t \in Nat OBVIOUS
<1>6. \A u \in 1..Len(sent) : IsUplink(u)' = IsUplink(u) BY DEF IsUplink
<1>7. \A u \in 1..Len(sent) : sent'[u].from = gateway => reception'[u] = "NONE" BY <1>1 DEF UpInv, UpType
<1>8. CASE UNCHANGED <<delivered, toForwarder>>
  <2>1. UpType' BY <1>2, <1>7, <1>8 DEF UpInv, UpType
  <2>2. Waiting' = Waiting BY <1>8 DEF Waiting
  <2>3. OnceUp' BY <1>8, <2>2 DEF UpInv, OnceUp, IsUplink
  <2>4. QED BY <2>1, <2>3 DEF UpInv
<1>9. CASE next = "ENDED" /\ delivered' = delivered \union {t} /\ toForwarder' = Append(toForwarder, t)
  <2>1. /\ toForwarder' \in Seq(Nat)
        /\ Waiting' = Waiting \union {t}
        /\ \A i, j \in 1..Len(toForwarder') : toForwarder'[i] = toForwarder'[j] => i = j
    BY <1>4, <1>5, <1>9, WaitingAppend DEF UpInv
  <2>2. UpType' BY <1>2, <1>7, <1>9, <2>1 DEF UpInv, UpType
  <2>3. OnceUp' BY <1>3, <1>9, <2>1 DEF UpInv, OnceUp, IsUplink
  <2>4. QED BY <2>2, <2>3 DEF UpInv
<1>10. QED BY <1>8, <1>9

LEMMA UpReceptionSteps ==
    ASSUME MediumInv, UpInv, NEW t \in 1..Len(sent),
           \/ StartReception(t) \/ ContinueReception(t)
           \/ EndReceptionIgnored(t) \/ EndReceptionDecided(t)
    PROVE  UpInv' /\ UNCHANGED counterVars
<1> USE DEF mediumVars, countVars, linkVars, forwarderVars, counterVars
<1>0. "ENDED" \notin Parts /\ "ARRIVING" \notin Parts /\ "NONE" \notin Parts BY DEF Parts
<1>1. CASE StartReception(t)
  <2>1. FirstPart \in Parts BY DEF FirstPart, Parts
  <2>2. QED BY <1>1, <2>1, UpMoves DEF StartReception
<1>2. CASE ContinueReception(t)
  <2>1. /\ reception[t] \in {"PREAMBLE", "HEADER"} /\ reception' = [reception EXCEPT ![t] = NextPart[reception[t]]]
        /\ UNCHANGED <<sent, forwarded, delivered, toForwarder, counterOfReceivedPackets, counterOfSentPacketsFromNodes>>
    BY <1>2 DEF ContinueReception
  <2>2. NextPart[reception[t]] \in Parts BY <2>1 DEF NextPart, Parts
  <2>3. QED BY <2>1, <2>2, UpMoves
<1>3. CASE EndReceptionIgnored(t)
  BY <1>3, UpMoves DEF EndReceptionIgnored
<1>4. CASE EndReceptionDecided(t)
  <2>1. /\ reception[t] \in {"WHOLE", "DATA"} /\ reception' = [reception EXCEPT ![t] = "ENDED"]
        /\ UNCHANGED <<sent, forwarded, counterOfReceivedPackets, counterOfSentPacketsFromNodes>>
        /\ \/ UNCHANGED <<delivered, toForwarder>>
           \/ delivered' = delivered \union {t} /\ toForwarder' = Append(toForwarder, t)
    BY <1>4 DEF EndReceptionDecided
  <2>2. QED BY <2>1, UpMoves
<1>5. QED BY <1>1, <1>2, <1>3, <1>4

LEMMA UpForwardUp ==
    ASSUME UpInv, ForwardUp
    PROVE  /\ UpInv'
           /\ \/ UNCHANGED counterVars
              \/ /\ Head(toForwarder) \notin forwarded /\ forwarded' = forwarded \union {Head(toForwarder)}
                 /\ counterOfReceivedPackets' =
                     counterOfReceivedPackets + (IF now >= WarmupPeriod THEN 1 ELSE 0)
                 /\ UNCHANGED <<sent, counterOfSentPacketsFromNodes>>
<1> DEFINE h == Head(toForwarder)
<1>1. /\ toForwarder # <<>> /\ toForwarder' = Tail(toForwarder)
      /\ UNCHANGED <<sent, reception, delivered, counterOfSentPacketsFromNodes>>
      /\ IF IsUplink(h)
         THEN /\ forwarded' = forwarded \union {h}
              /\ counterOfReceivedPackets' = counterOfReceivedPackets + (IF now >= WarmupPeriod THEN 1 ELSE 0)
         ELSE UNCHANGED <<forwarded, counterOfReceivedPackets>>
  BY DEF ForwardUp, PassedOn, mediumVars, radioVars, countVars
<1>2. /\ toForwarder' \in Seq(Nat) /\ h \in Waiting /\ Waiting' = Waiting \ {h}
      /\ \A i, j \in 1..Len(toForwarder') : toForwarder'[i] = toForwarder'[j] => i = j
  BY <1>1, WaitingTail DEF UpInv
<1>3. h \in delivered /\ h \notin forwarded BY <1>2 DEF UpInv, OnceUp
<1>4. UpType' BY <1>1, <1>2 DEF UpInv, UpType, Ended
<1>5. \A t \in delivered : IsUplink(t)' = IsUplink(t) BY <1>1 DEF IsUplink
<1>6. OnceUp' 
  <2> HIDE DEF h
  <2>1. QED BY <1>1, <1>2, <1>3, <1>5 DEF UpInv, OnceUp, IsUplink
<1>7. QED BY <1>1, <1>3, <1>4, <1>6 DEF UpInv, counterVars

LEMMA UpStep == DownInv /\ MediumInv /\ UpInv /\ [Next]_vars => UpInv'
<1> SUFFICES ASSUME DownInv, MediumInv, UpInv, [Next]_vars PROVE UpInv' OBVIOUS
<1>1. DOMAIN sent = 1..Len(sent) BY DEF DownInv, DownType
<1> USE DEF upVars, mediumVars, radioVars, linkVars, countVars, forwarderVars
<1>2. CASE \E t \in DOMAIN sent : \/ StartReception(t) \/ ContinueReception(t)
                                  \/ EndReceptionIgnored(t) \/ EndReceptionDecided(t)
  BY <1>1, <1>2, UpReceptionSteps
<1>3. CASE StartTransmission
  <2>1. Head(toRadio) \in Downlinks BY <1>3 DEF StartTransmission, DownInv, DownType
  <2>2. CASE iAmTransmiting BY <1>3, <2>2, UpUnchanged DEF StartTransmission
  <2>3. CASE ~iAmTransmiting
    <3>1. EntersMedium(gateway, Head(toRadio), "NONE") /\ UNCHANGED <<toForwarder, delivered, forwarded>>
      BY <1>3, <2>3 DEF StartTransmission
    <3>2. QED BY <2>1, <3>1, UpEnters
  <2>4. QED BY <2>2, <2>3
<1>4. CASE \E f \in NodeFrames : NodeTransmits(f)
  <2>1. PICK f \in NodeFrames : EntersMedium("node", f, "ARRIVING") /\ UNCHANGED <<toForwarder, delivered, forwarded>>
    BY <1>4 DEF NodeTransmits
  <2>2. QED BY <2>1, UpEnters, GatewayAssumption
<1>5. CASE RemovalTimerFires BY <1>5, UpUnchanged DEF RemovalTimerFires, RemoveNonInterferingTransmissions
<1>6. CASE EndTransmission BY <1>6, UpUnchanged DEF EndTransmission
<1>7. CASE ForwardUp BY <1>7, UpForwardUp
<1>8. CASE DutyCycleEnds BY <1>8, UpUnchanged DEF DutyCycleEnds
<1>9. CASE \E f \in Downlinks : DownlinkArrives(f) BY <1>9, UpUnchanged DEF DownlinkArrives
<1>10. CASE Tick BY <1>10, UpUnchanged DEF Tick
<1>11. CASE UNCHANGED vars BY <1>11, UpUnchanged DEF vars
<1>12. QED
  BY <1>2, <1>3, <1>4, <1>5, <1>6, <1>7, <1>8, <1>9, <1>10, <1>11 DEF Next, Handlers, Radio, Environment

\* Without a warm-up period, the two counters of LoRa_GW_DER count transmissions.
LEMMA CountersStep ==
    ASSUME WarmupPeriod = 0, DownInv, MediumInv, UpInv, Counters, [Next]_vars
    PROVE  Counters'
<1>1. DOMAIN sent = 1..Len(sent) /\ now >= WarmupPeriod BY DEF DownInv, DownType
<1> USE DEF counterVars, mediumVars, forwarderVars
<1>2. CASE \E t \in DOMAIN sent : \/ StartReception(t) \/ ContinueReception(t)
                                  \/ EndReceptionIgnored(t) \/ EndReceptionDecided(t)
  BY <1>1, <1>2, UpReceptionSteps, CountersUnchanged
<1>3. CASE StartTransmission
  <2>1. Head(toRadio) \in Downlinks BY <1>3 DEF StartTransmission, DownInv, DownType
  <2>2. UNCHANGED <<forwarded, counterOfReceivedPackets, counterOfSentPacketsFromNodes>> BY <1>3 DEF StartTransmission
  <2>3. CASE iAmTransmiting BY <1>3, <2>3, CountersUnchanged DEF StartTransmission
  <2>4. CASE ~iAmTransmiting
    <3>1. EntersMedium(gateway, Head(toRadio), "NONE") /\ UNCHANGED <<toForwarder, delivered, forwarded>>
      BY <1>3, <2>4 DEF StartTransmission, linkVars, countVars
    <3>2. Uplinks' = Uplinks BY <2>1, <3>1, UpEnters
    <3>3. QED BY <2>2, <3>2 DEF Counters
  <2>5. QED BY <2>3, <2>4
<1>4. CASE \E f \in NodeFrames : NodeTransmits(f)
  <2>1. PICK f \in NodeFrames :
          /\ EntersMedium("node", f, "ARRIVING") /\ UNCHANGED <<toForwarder, delivered, forwarded>>
          /\ counterOfSentPacketsFromNodes' = counterOfSentPacketsFromNodes + (IF f.uplink THEN 1 ELSE 0)
          /\ UNCHANGED counterOfReceivedPackets
    BY <1>1, <1>4 DEF NodeTransmits, linkVars, countVars
  <2>2. Uplinks' = Uplinks \union (IF f.uplink THEN {Len(sent) + 1} ELSE {})
    BY <2>1, UpEnters, GatewayAssumption
  <2>3. Len(sent) + 1 \notin Uplinks BY DEF Uplinks, DownInv, DownType
  <2>4. CASE f.uplink BY <2>1, <2>2, <2>3, <2>4, FS_AddElement DEF Counters
  <2>5. CASE ~f.uplink
    <3>1. Cardinality(Uplinks) \in Nat BY FS_CardinalityType DEF Counters
    <3>2. QED BY <2>1, <2>2, <2>5, <3>1 DEF Counters
  <2>6. QED BY <2>4, <2>5
<1>5. CASE RemovalTimerFires BY <1>5, CountersUnchanged DEF RemovalTimerFires, RemoveNonInterferingTransmissions
<1>6. CASE EndTransmission BY <1>6, CountersUnchanged DEF EndTransmission
<1>7. CASE ForwardUp
  <2>1. CASE UNCHANGED counterVars BY <2>1, CountersUnchanged
  <2>2. CASE /\ Head(toForwarder) \notin forwarded /\ forwarded' = forwarded \union {Head(toForwarder)}
             /\ counterOfReceivedPackets' = counterOfReceivedPackets + (IF now >= WarmupPeriod THEN 1 ELSE 0)
             /\ UNCHANGED <<sent, counterOfSentPacketsFromNodes>>
    <3>1. Uplinks' = Uplinks BY <2>2 DEF Uplinks, IsUplink
    <3>2. QED BY <1>1, <2>2, <3>1, FS_AddElement DEF Counters
  <2>3. QED BY <1>7, <2>1, <2>2, UpForwardUp
<1>8. CASE DutyCycleEnds BY <1>8, CountersUnchanged DEF DutyCycleEnds
<1>9. CASE \E f \in Downlinks : DownlinkArrives(f) BY <1>9, CountersUnchanged DEF DownlinkArrives
<1>10. CASE Tick BY <1>10, CountersUnchanged DEF Tick
<1>11. CASE UNCHANGED vars BY <1>11, CountersUnchanged DEF vars
<1>12. QED
  BY <1>2, <1>3, <1>4, <1>5, <1>6, <1>7, <1>8, <1>9, <1>10, <1>11 DEF Next, Handlers, Radio, Environment

(***************************************************************************)
(* Without a warm-up period LoRa_GW_DER is a ratio: PacketForwarder counts *)
(* no frame as received that LoRa_AppPacketSent did not count, and none    *)
(* twice, however receptions overlap and whichever addresses their timers  *)
(* get.                                                                    *)
(***************************************************************************)
THEOREM DeliveryRatio ==
    ASSUME WarmupPeriod = 0
    PROVE  Spec => []GatewayRatio
<1>1. UpInv /\ Counters => GatewayRatio
  <2> SUFFICES ASSUME UpInv, Counters PROVE GatewayRatio OBVIOUS
  <2>1. forwarded \subseteq Uplinks
    <3> SUFFICES ASSUME NEW t \in forwarded PROVE t \in Uplinks OBVIOUS
    <3>1. t \in Ended /\ IsUplink(t) BY DEF UpInv, UpType, OnceUp
    <3>2. QED BY <3>1 DEF Ended, Uplinks, UpInv, UpType
  <2>2. QED BY <2>1, FS_Subset DEF Counters, GatewayRatio
<1>2. Init => DownInv /\ MediumInv /\ UpInv /\ Counters BY DownInitial, MediumInitial, UpInitial
<1>3. DownInv /\ MediumInv /\ UpInv /\ Counters /\ [Next]_vars => DownInv' /\ MediumInv' /\ UpInv' /\ Counters'
  BY DownStep, MediumStep, UpStep, CountersStep
<1>4. QED BY <1>1, <1>2, <1>3, PTL DEF Spec

-----------------------------------------------------------------------------
(***************************************************************************)
(* What is heard.  A frame is clean as long as nothing has collided with   *)
(* it and the gateway was silent when it arrived; a clean frame stays      *)
(* listed until it has ended, whatever happens to the one receptionTimer   *)
(* and whatever addresses the others get, and then it is delivered.        *)
(***************************************************************************)
Silent(x) == \A u \in OwnTransmissions : x \notin OwnStart(u)..OwnEnd(u)
SilentEnd(t) == Silent(ArrivalEnd(gateway, t))
Clean(t) == (\A u \in 1..Len(sent) : ~Collides(t, u)) /\ Silent(ArrivalStart(gateway, t))
Possible(t) == IsReceptionPossible(Signal(t))

\* While the radio transmits, one of its transmissions is on the air.
OnAir == iAmTransmiting => \E u \in OwnTransmissions : OwnStart(u) <= now /\ OwnEnd(u) = transmissionTimer

Interfering(t) == {u \in 1..Len(sent) : IsInterfering(gateway, t, u)}
CachedInterferers == \A t \in 1..Len(sent) : interference[t] = NotCached \/ interference[t] \subseteq Interfering(t)

CleanIsHeard ==
    \A t \in 1..Len(sent) : Clean(t) =>
        /\ InReception(t) => Listed(t)
        /\ reception[t] = "ENDED" /\ SilentEnd(t) /\ Possible(t) => t \in delivered

CleanInv == CachedInterferers /\ CleanIsHeard

LEMMA OnAirStep == DownInv /\ OnAir /\ [Next]_vars => OnAir'
<1> SUFFICES ASSUME DownInv, OnAir, [Next]_vars, iAmTransmiting'
             PROVE  \E u \in OwnTransmissions' : OwnStart(u)' <= now' /\ OwnEnd(u)' = transmissionTimer'
  BY DEF OnAir
<1> DEFINE f == Head(toRadio)
<1>1. CASE StartTransmission /\ ~iAmTransmiting
  <2> DEFINE e == [from |-> gateway, start |-> now, frame |-> f]
  <2>1. /\ sent' = Append(sent, e) /\ transmissionTimer' = now + f.duration /\ now' = now /\ f \in Downlinks
        /\ now \in Nat
    BY <1>1 DEF StartTransmission, EntersMedium, AddTransmission, DownInv, DownType
  <2>2. e \in Sent /\ sent \in Seq(Sent) /\ e.from = gateway /\ e.start = now /\ e.frame = f
    BY <2>1 DEF Sent, DownInv, DownType
  <2> HIDE DEF e, f
  <2>0. PICK u \in Nat : u = Len(sent) + 1 BY DEF DownInv, DownType
  <2>3. u \in OwnTransmissions' /\ sent'[u] = e BY <2>0, <2>1, <2>2, OwnAppend, AppendProperties
  <2>4. OwnStart(u)' = now /\ OwnEnd(u)' = now + f.duration BY <2>2, <2>3 DEF OwnStart, OwnEnd
  <2>5. QED BY <2>1, <2>3, <2>4
<1>2. CASE ~(StartTransmission /\ ~iAmTransmiting)
  <2>1. /\ iAmTransmiting /\ transmissionTimer' = transmissionTimer
        /\ \/ now' = now \/ now' = now + 1
        /\ \/ sent' = sent
           \/ \E e \in Sent : sent' = Append(sent, e)
    <3> USE DEF mediumVars, transmitVars
    <3>1. CASE \E t \in DOMAIN sent : \/ StartReception(t) \/ ContinueReception(t)
                                      \/ EndReceptionIgnored(t) \/ EndReceptionDecided(t)
      BY <3>1 DEF StartReception, ContinueReception, EndReceptionIgnored, EndReceptionDecided
    <3>2. CASE StartTransmission BY <1>2, <3>2 DEF StartTransmission
    <3>3. CASE EndTransmission BY <3>3 DEF EndTransmission
    <3>4. CASE ForwardUp \/ DutyCycleEnds BY <3>4 DEF ForwardUp, DutyCycleEnds
    <3>5. CASE RemovalTimerFires BY <3>5 DEF RemovalTimerFires, RemoveNonInterferingTransmissions
    <3>6. CASE \E g \in NodeFrames : NodeTransmits(g)
      <4>1. PICK g \in NodeFrames : NodeTransmits(g) BY <3>6
      <4>2. [from |-> "node", start |-> now, frame |-> g] \in Sent BY DEF Sent, DownInv, DownType
      <4>3. QED BY <4>1, <4>2 DEF NodeTransmits, EntersMedium, AddTransmission
    <3>7. CASE \E g \in Downlinks : DownlinkArrives(g) BY <3>7 DEF DownlinkArrives
    <3>8. CASE Tick BY <3>8 DEF Tick
    <3>9. CASE UNCHANGED vars BY <3>9 DEF vars
    <3>10. QED
      BY <3>1, <3>2, <3>3, <3>4, <3>5, <3>6, <3>7, <3>8, <3>9 DEF Next, Handlers, Radio, Environment
  <2>2. PICK u \in OwnTransmissions : OwnStart(u) <= now /\ OwnEnd(u) = transmissionTimer BY <2>1 DEF OnAir
  <2>3. sent'[u] = sent[u] /\ u \in OwnTransmissions'
    <3>1. u \in 1..Len(sent) BY OwnTypes
    <3>2. CASE sent' = sent BY <3>2 DEF OwnTransmissions
    <3>3. CASE \E e \in Sent : sent' = Append(sent, e)
      <4>1. PICK e \in Sent : sent' = Append(sent, e) BY <3>3
      <4>2. sent'[u] = sent[u] BY <3>1, <4>1, AppendProperties DEF DownInv, DownType
      <4>3. OwnTransmissions \subseteq OwnTransmissions' BY <4>1, OwnAppend DEF DownInv, DownType
      <4>4. QED BY <4>2, <4>3
    <3>4. QED BY <2>1, <3>2, <3>3
  <2>4. OwnStart(u)' = OwnStart(u) /\ OwnEnd(u)' = OwnEnd(u) BY <2>3 DEF OwnStart, OwnEnd
  <2>5. OwnStart(u) \in Nat /\ now \in Nat BY OwnTypes DEF DownInv, DownType
  <2>6. QED BY <2>1, <2>2, <2>3, <2>4, <2>5
<1>3. QED BY <1>1, <1>2

\* At a moment at which the gateway is silent, its radio can receive.
LEMMA SilentReceives ==
    ASSUME DownInv, OnAir, Silent(now)
    PROVE  CanReceive
<1> SUFFICES ASSUME iAmTransmiting PROVE FALSE BY DEF CanReceive
<1>1. PICK u \in OwnTransmissions : OwnStart(u) <= now /\ OwnEnd(u) = transmissionTimer BY DEF OnAir
<1>2. OwnStart(u) \in Nat /\ OwnEnd(u) \in Nat /\ now \in Nat BY OwnTypes DEF DownInv, DownType
<1>3. now <= OwnEnd(u) BY <1>1 DEF DownInv, Covered
<1>4. now \in OwnStart(u)..OwnEnd(u) BY <1>1, <1>2, <1>3
<1>5. QED BY <1>4 DEF Silent

\* The code looks at interfering transmissions only.
LEMMA LookedAt ==
    ASSUME DownInv, MediumInv, CachedInterferers, NEW t \in 1..Len(sent)
    PROVE  Interference(gateway, t) \subseteq Interfering(t) /\ InterferenceOf(t) \subseteq Interfering(t)
<1>1. Interference(gateway, t) \subseteq Interfering(t) BY KnownAreSent DEF Interference, Interfering
<1>2. QED BY <1>1 DEF InterferenceOf, CachedInterferers

LEMMA CleanIsUncollided ==
    ASSUME NEW t, Clean(t), NEW looked, looked \subseteq Interfering(t)
    PROVE  ~IsPacketCollided(Signal(t), Signals(looked))
BY DEF Clean, Interfering, Collides, IsPacketCollided, Signals

\* What is sent later makes no frame clean.
LEMMA CleanBefore ==
    ASSUME sent \in Seq(Sent), sent' \in Seq(Sent), Len(sent) <= Len(sent'),
           \A v \in 1..Len(sent) : sent'[v] = sent[v], NEW t \in 1..Len(sent)
    PROVE  /\ Clean(t)' => Clean(t)
           /\ SilentEnd(t)' => SilentEnd(t)
           /\ Possible(t)' = Possible(t)
           /\ Interfering(t) \subseteq Interfering(t)'
<1>1. \A u \in 1..Len(sent) :
        /\ IsInterfering(gateway, t, u)' = IsInterfering(gateway, t, u)
        /\ Collides(t, u)' = Collides(t, u)
  BY SignalsStay
<1>2. 1..Len(sent) \subseteq 1..Len(sent') /\ DOMAIN sent = 1..Len(sent) /\ DOMAIN sent' = 1..Len(sent') OBVIOUS
<1>3. \A u \in OwnTransmissions : u \in OwnTransmissions' /\ OwnStart(u)' = OwnStart(u) /\ OwnEnd(u)' = OwnEnd(u)
  BY <1>2 DEF OwnTransmissions, OwnStart, OwnEnd
<1>4. ArrivalStart(gateway, t)' = ArrivalStart(gateway, t) /\ ArrivalEnd(gateway, t)' = ArrivalEnd(gateway, t)
  BY DEF ArrivalStart, ArrivalEnd
<1>5. Clean(t)' => Clean(t) BY <1>1, <1>2, <1>3, <1>4 DEF Clean, Silent
<1>6. SilentEnd(t)' => SilentEnd(t) BY <1>3, <1>4 DEF SilentEnd, Silent
<1>7. Signal(t)' = Signal(t) BY <1>4 DEF Signal
<1>8. Possible(t)' = Possible(t) BY <1>7 DEF Possible, IsReceptionPossible, Sensitivity
<1>9. Interfering(t) \subseteq Interfering(t)' BY <1>1, <1>2 DEF Interfering
<1>10. QED BY <1>5, <1>6, <1>8, <1>9

LEMMA CleanInitial == Init => OnAir /\ CleanInv
<1> SUFFICES ASSUME Init PROVE OnAir /\ CleanInv OBVIOUS
<1>1. sent = <<>> /\ iAmTransmiting = FALSE BY DEF Init, MediumInit
<1>2. 1..Len(sent) = {} BY <1>1
<1>3. QED BY <1>1, <1>2 DEF OnAir, CleanInv, CachedInterferers, CleanIsHeard

cleanVars == <<sent, reception, timer, interference, concurrentReceptions, delivered>>

LEMMA CleanUnchanged ==
    ASSUME DownInv, CleanInv, UNCHANGED cleanVars
    PROVE  CleanInv'
<1>0. Len(sent) <= Len(sent') BY DEF cleanVars, DownInv, DownType
<1>1. \A t \in 1..Len(sent) : /\ Clean(t)' => Clean(t)
                              /\ SilentEnd(t)' => SilentEnd(t)
                              /\ Possible(t)' = Possible(t)
                              /\ Interfering(t) \subseteq Interfering(t)'
  BY <1>0, CleanBefore DEF cleanVars, DownInv, DownType
<1>2. QED BY <1>1 DEF cleanVars, CleanInv, CachedInterferers, CleanIsHeard, InReception, Listed

LEMMA CleanEnters ==
    ASSUME DownInv, MediumInv, TypeInv, AddressInv, CleanInv, NEW f \in NodeFrames \union Downlinks,
           NEW from \in {gateway, "node"}, NEW first \in {"NONE", "ARRIVING"}, EntersMedium(from, f, first),
           UNCHANGED <<separateReceptionParts, concurrentReceptions, delivered>>
    PROVE  CleanInv'
<1> DEFINE e == [from |-> from, start |-> now, frame |-> f]
<1>0. PICK n \in Nat : n = Len(sent) BY DEF DownInv, DownType
<1>1. /\ sent' = Append(sent, e) /\ reception' = Append(reception, first)
      /\ interference' = Append(interference, NotCached)
  BY DEF EntersMedium, AddTransmission
<1>2. e \in Sent /\ sent \in Seq(Sent) BY DEF Sent, DownInv, DownType
<1> HIDE DEF e
<1>3. sent' \in Seq(Sent) /\ Len(sent') = n + 1 /\ (\A t \in 1..n : sent'[t] = sent[t])
  BY <1>0, <1>1, <1>2, AppendProperties
<1>4. (\A t \in 1..n : reception'[t] = reception[t]) /\ reception'[n + 1] = first
  <2>1. first \in ReceptionStates /\ reception \in Seq(ReceptionStates) /\ Len(reception) = n
    BY <1>0 DEF ReceptionStates, MediumInv, MediumType
  <2>2. QED BY <1>1, <2>1, AppendProperties
<1>5. (\A t \in 1..n : interference'[t] = interference[t]) /\ interference'[n + 1] = NotCached
  <2>1. NotCached \in SUBSET Nat /\ interference \in Seq(SUBSET Nat) /\ Len(interference) = n
    BY <1>0 DEF NotCached, TypeInv
  <2>2. QED BY <1>1, <2>1, AppendProperties
<1>6. Len(sent) <= Len(sent') BY <1>0, <1>3
<1>7. \A t \in 1..n : /\ Clean(t)' => Clean(t)
                      /\ SilentEnd(t)' => SilentEnd(t)
                      /\ Possible(t)' = Possible(t)
                      /\ Interfering(t) \subseteq Interfering(t)'
  BY <1>0, <1>2, <1>3, <1>6, CleanBefore
<1>8. 1..(n + 1) = 1..n \union {n + 1} OBVIOUS
<1>9. CachedInterferers' BY <1>0, <1>3, <1>5, <1>7, <1>8 DEF CleanInv, CachedInterferers
<1>10. first \notin Parts \union {"ENDED"} BY DEF Parts
<1>11. CleanIsHeard'
  <2> SUFFICES ASSUME NEW t \in 1..(n + 1), Clean(t)'
               PROVE  /\ reception'[t] \in Parts => Listed(t)'
                      /\ reception'[t] = "ENDED" /\ SilentEnd(t)' /\ Possible(t)' => t \in delivered
    BY <1>3 DEF CleanIsHeard, InReception
  <2>0. \A u \in 1..Len(sent) : Listed(u)' = Listed(u) BY AddressEnters
  <2>1. CASE t \in 1..n BY <1>0, <1>4, <1>7, <2>0, <2>1 DEF CleanInv, CleanIsHeard, InReception
  <2>2. CASE t = n + 1 BY <1>4, <1>10, <2>2
  <2>3. QED BY <1>8, <2>1, <2>2
<1>12. QED BY <1>9, <1>11 DEF CleanInv

\* One reception goes on, the others stay as they are.
LEMMA CleanMoves ==
    ASSUME DownInv, MediumInv, TypeInv, CleanInv, NEW t \in 1..Len(sent), NEW next \in Parts \union {"ENDED"},
           UNCHANGED sent, reception' = [reception EXCEPT ![t] = next],
           interference' = interference \/ interference' = [interference EXCEPT ![t] = InterferenceOf(t)],
           \A u \in 1..Len(sent) : u # t => Listed(u)' = Listed(u),
           delivered \subseteq delivered',
           Clean(t) /\ next \in Parts => Listed(t)',
           Clean(t) /\ next = "ENDED" /\ SilentEnd(t) /\ Possible(t) => t \in delivered'
    PROVE  CleanInv'
<1>1. reception'[t] = next /\ \A u \in 1..Len(sent) : u # t => reception'[u] = reception[u]
  <2>1. next \in ReceptionStates BY DEF ReceptionStates
  <2>2. QED BY <2>1, ExceptSeq DEF MediumInv, MediumType
<1>2. Len(sent) <= Len(sent') BY DEF DownInv, DownType
<1>3. \A u \in 1..Len(sent) : /\ Clean(u)' => Clean(u)
                              /\ SilentEnd(u)' => SilentEnd(u)
                              /\ Possible(u)' = Possible(u)
                              /\ Interfering(u) \subseteq Interfering(u)'
  BY <1>2, CleanBefore DEF DownInv, DownType
<1>4. InterferenceOf(t) \subseteq Interfering(t) BY LookedAt DEF CleanInv
<1>5. \A u \in 1..Len(sent) : interference'[u] = interference[u] \/ interference'[u] \subseteq Interfering(u)
  <2>1. CASE interference' = interference BY <2>1
  <2>2. CASE interference' = [interference EXCEPT ![t] = InterferenceOf(t)]
    <3>1. InterferenceOf(t) \in SUBSET Nat /\ interference \in Seq(SUBSET Nat) /\ Len(interference) = Len(sent)
      BY <1>4 DEF Interfering, TypeInv
    <3>2. \A u \in 1..Len(sent) : interference'[u] = IF u = t THEN InterferenceOf(t) ELSE interference[u]
      BY <2>2, <3>1, ExceptSeq
    <3>3. QED BY <1>4, <3>2
  <2>3. QED BY <2>1, <2>2
<1>6. CachedInterferers' BY <1>3, <1>5 DEF CleanInv, CachedInterferers
<1>7. CleanIsHeard'
  <2> SUFFICES ASSUME NEW u \in 1..Len(sent), Clean(u)'
               PROVE  /\ reception'[u] \in Parts => Listed(u)'
                      /\ reception'[u] = "ENDED" /\ SilentEnd(u)' /\ Possible(u)' => u \in delivered'
    BY DEF CleanIsHeard, InReception
  <2>1. CASE u = t BY <1>1, <1>3, <2>1
  <2>2. CASE u # t BY <1>1, <1>3, <2>2 DEF CleanInv, CleanIsHeard, InReception
  <2>3. QED BY <2>1, <2>2
<1>8. QED BY <1>6, <1>7 DEF CleanInv

LEMMA CleanReceptionSteps ==
    ASSUME DownInv, MediumInv, TypeInv, AddressInv, OnAir, CleanInv, NEW t \in 1..Len(sent),
           \/ StartReception(t) \/ ContinueReception(t)
           \/ EndReceptionIgnored(t) \/ EndReceptionDecided(t)
    PROVE  CleanInv'
<1> USE DEF mediumVars, countVars
<1>0. "ENDED" \notin Parts BY DEF Parts
<1>1. CASE StartReception(t)
  <2>1. /\ now = ArrivalStart(gateway, t) /\ reception' = [reception EXCEPT ![t] = FirstPart]
        /\ UNCHANGED <<sent, interference, delivered>>
    BY <1>1 DEF StartReception
  <2>2. FirstPart \in Parts BY DEF FirstPart, Parts
  <2>3. /\ \A u \in 1..Len(sent) : u # t => Listed(u)' = Listed(u)
        /\ CanReceive /\ ~IsCollidedNow(t) => Listed(t)'
    BY <1>1, ListedStart
  <2>4. ASSUME Clean(t) PROVE Listed(t)'
    <3>1. CanReceive BY <2>1, <2>4, SilentReceives DEF Clean
    <3>2. ~IsCollidedNow(t) BY <2>4, LookedAt, CleanIsUncollided DEF CleanInv, IsCollidedNow
    <3>3. QED BY <2>3, <3>1, <3>2
  <2>5. QED BY <1>0, <2>1, <2>2, <2>3, <2>4, CleanMoves
<1>2. CASE ContinueReception(t)
  <2>1. /\ reception[t] \in {"PREAMBLE", "HEADER"} /\ reception' = [reception EXCEPT ![t] = NextPart[reception[t]]]
        /\ UNCHANGED <<sent, delivered>>
        /\ interference' = interference \/ interference' = [interference EXCEPT ![t] = InterferenceOf(t)]
        /\ UNCHANGED concurrentReceptions \/ IsCollidedNow(t)
    BY <1>2 DEF ContinueReception, Forget
  <2>2. NextPart[reception[t]] \in Parts BY <2>1 DEF NextPart, Parts
  <2>3. /\ InReception(t) /\ \A u \in 1..Len(sent) : u # t => Listed(u)' = Listed(u)
        /\ Listed(t) /\ UNCHANGED concurrentReceptions => Listed(t)'
    BY <1>2, ListedGoesOn
  <2>4. ASSUME Clean(t) PROVE Listed(t)'
    <3>1. ~IsCollidedNow(t) BY <2>4, LookedAt, CleanIsUncollided DEF CleanInv, IsCollidedNow
    <3>2. QED BY <2>1, <2>3, <2>4, <3>1 DEF CleanInv, CleanIsHeard
  <2>5. QED BY <1>0, <2>1, <2>2, <2>3, <2>4, CleanMoves
<1>3. ASSUME EndReceptionIgnored(t) \/ EndReceptionDecided(t)
      PROVE  /\ Clean(t) => Found(t)
             /\ SilentEnd(t) => CanReceive
             /\ \A u \in 1..Len(sent) : u # t => Listed(u)' = Listed(u)
  <2>1. reception[t] \in {"WHOLE", "DATA"} /\ now = PartEnd(t)
    BY <1>3 DEF EndReceptionIgnored, EndReceptionDecided
  <2>2. /\ InReception(t) /\ (Found(t) <=> Listed(t))
        /\ \A u \in 1..Len(sent) : u # t => Listed(u)' = Listed(u)
    BY <1>3, ListedGoesOn
  <2>3. Clean(t) => Found(t) BY <2>2 DEF CleanInv, CleanIsHeard
  <2>4. now = ArrivalEnd(gateway, t) BY <2>1, PartEnds
  <2>5. SilentEnd(t) => CanReceive BY <2>4, SilentReceives DEF SilentEnd
  <2>6. QED BY <2>2, <2>3, <2>5
<1>4. CASE EndReceptionIgnored(t)
  <2>1. /\ ~(Found(t) /\ CanReceive)
        /\ reception' = [reception EXCEPT ![t] = "ENDED"]
        /\ UNCHANGED <<sent, interference, delivered>>
    BY <1>4 DEF EndReceptionIgnored
  <2>2. ~(Clean(t) /\ SilentEnd(t)) BY <1>3, <1>4, <2>1
  <2>3. QED BY <1>0, <1>3, <1>4, <2>1, <2>2, CleanMoves
<1>5. CASE EndReceptionDecided(t)
  <2> DEFINE collided == IsPacketCollided(Signal(t), Signals(InterferenceOf(t)))
  <2>1. /\ reception' = [reception EXCEPT ![t] = "ENDED"]
        /\ interference' = [interference EXCEPT ![t] = InterferenceOf(t)]
        /\ UNCHANGED sent
        /\ \/ delivered' = delivered \union {t}
           \/ delivered' = delivered /\ (~Possible(t) \/ collided)
    BY <1>5 DEF EndReceptionDecided, Possible
  <2>2. Clean(t) => ~collided BY LookedAt, CleanIsUncollided DEF CleanInv
  <2> HIDE DEF collided
  <2>3. Clean(t) /\ Possible(t) => t \in delivered' BY <2>1, <2>2
  <2>4. delivered \subseteq delivered' BY <2>1
  <2>5. QED BY <1>0, <1>3, <1>5, <2>1, <2>3, <2>4, CleanMoves
<1>6. QED BY <1>1, <1>2, <1>4, <1>5

LEMMA CleanStep ==
    ASSUME DownInv, MediumInv, TypeInv, AddressInv, OnAir, CleanInv, [Next]_vars
    PROVE  CleanInv'
<1>1. DOMAIN sent = 1..Len(sent) BY DEF DownInv, DownType
<1> USE DEF cleanVars, mediumVars, radioVars, countVars
<1>2. CASE \E t \in DOMAIN sent : \/ StartReception(t) \/ ContinueReception(t)
                                  \/ EndReceptionIgnored(t) \/ EndReceptionDecided(t)
  BY <1>1, <1>2, CleanReceptionSteps
<1>3. CASE StartTransmission
  <2>1. Head(toRadio) \in Downlinks BY <1>3 DEF StartTransmission, DownInv, DownType
  <2>2. CASE iAmTransmiting BY <1>3, <2>2, CleanUnchanged DEF StartTransmission
  <2>3. CASE ~iAmTransmiting
    <3>1. /\ EntersMedium(gateway, Head(toRadio), "NONE")
          /\ UNCHANGED <<separateReceptionParts, concurrentReceptions, delivered>>
      BY <1>3, <2>3 DEF StartTransmission
    <3>2. QED BY <2>1, <3>1, CleanEnters
  <2>4. QED BY <2>2, <2>3
<1>4. CASE \E f \in NodeFrames : NodeTransmits(f)
  <2>1. PICK f \in NodeFrames : /\ EntersMedium("node", f, "ARRIVING")
                                /\ UNCHANGED <<separateReceptionParts, concurrentReceptions, delivered>>
    BY <1>4 DEF NodeTransmits
  <2>2. QED BY <2>1, CleanEnters
<1>5. CASE RemovalTimerFires BY <1>5, CleanUnchanged DEF RemovalTimerFires, RemoveNonInterferingTransmissions
<1>6. CASE EndTransmission BY <1>6, CleanUnchanged DEF EndTransmission
<1>7. CASE ForwardUp BY <1>7, CleanUnchanged DEF ForwardUp
<1>8. CASE DutyCycleEnds BY <1>8, CleanUnchanged DEF DutyCycleEnds
<1>9. CASE \E f \in Downlinks : DownlinkArrives(f) BY <1>9, CleanUnchanged DEF DownlinkArrives
<1>10. CASE Tick BY <1>10, CleanUnchanged DEF Tick
<1>11. CASE UNCHANGED vars BY <1>11, CleanUnchanged DEF vars
<1>12. QED
  BY <1>2, <1>3, <1>4, <1>5, <1>6, <1>7, <1>8, <1>9, <1>10, <1>11 DEF Next, Handlers, Radio, Environment

(***************************************************************************)
(* LoRaGWRadio loses no frame it need not lose: an uplink that collided    *)
(* with nothing, is strong enough and meets no downlink at its start and   *)
(* at its end is forwarded to the server, although all receptions share    *)
(* one receptionTimer and whatever addresses `new' returns.                *)
(***************************************************************************)
THEOREM WhatIsHeardIsForwarded == Spec => []HeardIsForwarded
<1>1. DownInv /\ UpInv /\ CleanInv => HeardIsForwarded
  <2> SUFFICES ASSUME DownInv, UpInv, CleanInv, toForwarder = <<>>, NEW t \in DOMAIN sent,
                      reception[t] = "ENDED", IsUplink(t), IsReceptionPossible(Signal(t)), ~TrulyCollided(t),
                      \A u \in OwnTransmissions : /\ ArrivalStart(gateway, t) \notin OwnStart(u)..OwnEnd(u)
                                                  /\ ArrivalEnd(gateway, t) \notin OwnStart(u)..OwnEnd(u)
               PROVE  t \in forwarded
    BY DEF HeardIsForwarded
  <2>1. DOMAIN sent = 1..Len(sent) BY DEF DownInv, DownType
  <2>2. \A u \in 1..Len(sent) : ~Collides(t, u)
    BY <2>1 DEF TrulyCollided, Interferers, IsPacketCollided, Signals, Collides
  <2>3. Clean(t) /\ SilentEnd(t) BY <2>2 DEF Clean, SilentEnd, Silent
  <2>4. t \in delivered BY <2>1, <2>3 DEF CleanInv, CleanIsHeard, Possible
  <2>5. Waiting = {}
    <3>1. Len(toForwarder) = 0 /\ 1..0 = {} OBVIOUS
    <3>2. QED BY <3>1 DEF Waiting
  <2>6. QED BY <2>4, <2>5 DEF UpInv, OnceUp
<1>2. Init => DownInv /\ MediumInv /\ TypeInv /\ AddressInv /\ UpInv /\ OnAir /\ CleanInv
  BY DownInitial, MediumInitial, TypeInitial, AddressInitial, UpInitial, CleanInitial
<1>3. DownInv /\ MediumInv /\ TypeInv /\ AddressInv /\ UpInv /\ OnAir /\ CleanInv /\ [Next]_vars
      => DownInv' /\ MediumInv' /\ TypeInv' /\ AddressInv' /\ UpInv' /\ OnAir' /\ CleanInv'
  BY DownStep, MediumStep, TypeStep, AddressStep, UpStep, OnAirStep, CleanStep
<1>4. QED BY <1>1, <1>2, <1>3, PTL DEF Spec

-----------------------------------------------------------------------------
(***************************************************************************)
(* Every reception comes to one verdict at most.  One that is listed has   *)
(* come to none yet, unless it is mistaken: then it may have been counted  *)
(* as collided when it started.                                            *)
(***************************************************************************)
ListedVerdicts(t) == IF t \in mistaken THEN 1 ELSE 0
AllVerdicts(t) == IF t \in mistaken THEN 2 ELSE 1

CollisionInv ==
    \A t \in 1..Len(sent) :
        /\ t \notin Seen => Verdicts(t) = 0
        /\ Listed(t) => Verdicts(t) <= ListedVerdicts(t)
        /\ Verdicts(t) <= AllVerdicts(t)

LEMMA VerdictType ==
    ASSUME TypeInv, NEW t \in 1..Len(sent)
    PROVE  numCollisions[t] \in Nat /\ rcvBelowSensitivity[t] \in Nat /\ Verdicts(t) \in Nat
<1>1. numCollisions[t] \in Nat /\ rcvBelowSensitivity[t] \in Nat BY ElementOfSeq DEF TypeInv, CountType
<1>2. QED BY <1>1 DEF Verdicts

LEMMA VerdictTypeNext ==
    ASSUME TypeInv', NEW t \in 1..Len(sent')
    PROVE  Verdicts(t)' \in Nat
<1>1. numCollisions'[t] \in Nat /\ rcvBelowSensitivity'[t] \in Nat BY ElementOfSeq DEF TypeInv, CountType
<1>2. QED BY <1>1 DEF Verdicts

LEMMA CollisionInitial == Init => CollisionInv
<1> SUFFICES ASSUME Init PROVE CollisionInv OBVIOUS
<1>1. sent = <<>> BY DEF Init, MediumInit
<1>2. 1..Len(sent) = {} BY <1>1
<1>3. QED BY <1>2 DEF CollisionInv

collisionVars == <<sent, reception, timer, concurrentReceptions, countVars>>

LEMMA CollisionUnchanged == CollisionInv /\ UNCHANGED collisionVars => CollisionInv'
BY DEF collisionVars, countVars, tallyVars, CollisionInv, Verdicts, ListedVerdicts, AllVerdicts, Seen, Listed,
       InReception

LEMMA CollisionEnters ==
    ASSUME DownInv, MediumInv, TypeInv, AddressInv, CollisionInv, NEW f \in NodeFrames \union Downlinks,
           NEW from \in {gateway, "node"}, NEW first \in {"NONE", "ARRIVING"}, EntersMedium(from, f, first),
           UNCHANGED <<separateReceptionParts, concurrentReceptions, mistaken, delivered>>
    PROVE  CollisionInv'
<1> DEFINE e == [from |-> from, start |-> now, frame |-> f]
<1>0. PICK n \in Nat : n = Len(sent) BY DEF DownInv, DownType
<1>1. /\ sent' = Append(sent, e) /\ reception' = Append(reception, first)
      /\ numCollisions' = Append(numCollisions, 0) /\ rcvBelowSensitivity' = Append(rcvBelowSensitivity, 0)
  BY DEF EntersMedium, AddTransmission
<1>2. e \in Sent /\ sent \in Seq(Sent) BY DEF Sent, DownInv, DownType
<1> HIDE DEF e
<1>3. Len(sent') = n + 1 BY <1>0, <1>1, <1>2, AppendProperties
<1>4. (\A t \in 1..n : reception'[t] = reception[t]) /\ reception'[n + 1] = first
  <2>1. first \in ReceptionStates /\ reception \in Seq(ReceptionStates) /\ Len(reception) = n
    BY <1>0 DEF ReceptionStates, MediumInv, MediumType
  <2>2. QED BY <1>1, <2>1, AppendProperties
<1>5. (\A t \in 1..n : numCollisions'[t] = numCollisions[t]) /\ numCollisions'[n + 1] = 0
  <2>1. 0 \in Nat /\ numCollisions \in Seq(Nat) /\ Len(numCollisions) = n BY <1>0 DEF TypeInv, CountType
  <2>2. numCollisions' = Append(numCollisions, 0) BY <1>1
  <2>3. QED BY <2>1, <2>2, AppendProperties
<1>6. (\A t \in 1..n : rcvBelowSensitivity'[t] = rcvBelowSensitivity[t]) /\ rcvBelowSensitivity'[n + 1] = 0
  <2>1. 0 \in Nat /\ rcvBelowSensitivity \in Seq(Nat) /\ Len(rcvBelowSensitivity) = n
    BY <1>0 DEF TypeInv, CountType
  <2>2. rcvBelowSensitivity' = Append(rcvBelowSensitivity, 0) BY <1>1
  <2>3. QED BY <2>1, <2>2, AppendProperties
<1>7. 1..(n + 1) = 1..n \union {n + 1} /\ first \notin Parts \union {"ENDED"} BY DEF Parts
<1>8. Seen' = Seen BY <1>0, <1>3, <1>4, <1>7 DEF Seen, InReception
<1>9. \A t \in 1..n : Verdicts(t)' = Verdicts(t) BY <1>5, <1>6 DEF Verdicts
<1>10. Verdicts(n + 1)' = 0
  <2>1. n + 1 \notin delivered BY <1>0 DEF TypeInv, CountType
  <2>2. QED BY <1>5, <1>6, <2>1 DEF Verdicts
<1>11. /\ \A t \in 1..n : Listed(t)' = Listed(t)
       /\ \A t \in 1..(n + 1) : Listed(t)' => t \in 1..n
  BY <1>0, <1>3, AddressEnters
<1>12. ASSUME NEW t \in 1..(n + 1)
       PROVE  /\ t \notin Seen => Verdicts(t)' = 0
              /\ Listed(t)' => Verdicts(t)' <= ListedVerdicts(t)
              /\ Verdicts(t)' <= AllVerdicts(t)
  <2>1. CASE t \in 1..n BY <1>0, <1>9, <1>11, <2>1 DEF CollisionInv
  <2>2. CASE t = n + 1 BY <1>10, <1>11, <2>2 DEF ListedVerdicts, AllVerdicts
  <2>3. QED BY <1>7, <2>1, <2>2
<1>13. QED BY <1>3, <1>8, <1>12 DEF CollisionInv, ListedVerdicts, AllVerdicts

\* One reception starts, goes on or ends; the verdicts of the others stay.
LEMMA CollisionMoves ==
    ASSUME CollisionInv, NEW t \in 1..Len(sent), UNCHANGED sent, t \in Seen', Seen \subseteq Seen',
           \A u \in 1..Len(sent) : u # t => /\ Listed(u)' = Listed(u)
                                            /\ Verdicts(u)' = Verdicts(u)
                                            /\ u \in mistaken' <=> u \in mistaken,
           Listed(t)' => Verdicts(t)' <= ListedVerdicts(t)',
           Verdicts(t)' <= AllVerdicts(t)'
    PROVE  CollisionInv'
<1> SUFFICES ASSUME NEW u \in 1..Len(sent)
             PROVE  /\ u \notin Seen' => Verdicts(u)' = 0
                    /\ Listed(u)' => Verdicts(u)' <= ListedVerdicts(u)'
                    /\ Verdicts(u)' <= AllVerdicts(u)'
  BY DEF CollisionInv
<1>1. CASE u = t BY <1>1
<1>2. CASE u # t
  <2>1. /\ Listed(u)' = Listed(u) /\ Verdicts(u)' = Verdicts(u)
        /\ ListedVerdicts(u)' = ListedVerdicts(u) /\ AllVerdicts(u)' = AllVerdicts(u)
    BY <1>2 DEF ListedVerdicts, AllVerdicts
  <2>2. QED BY <2>1 DEF CollisionInv
<1>3. QED BY <1>1, <1>2

\* The counters of one frame take a verdict each at most, and the others none.
LEMMA VerdictMoves ==
    ASSUME DownInv, TypeInv, NEW t \in 1..Len(sent), NEW collided \in BOOLEAN, NEW weak \in BOOLEAN,
           NEW up \in BOOLEAN,
           numCollisions' = numCollisions \/ CountCollision(t, collided),
           rcvBelowSensitivity' = [rcvBelowSensitivity EXCEPT ![t] = IF weak THEN @ + 1 ELSE @],
           delivered' = IF up THEN delivered \union {t} ELSE delivered
    PROVE  /\ \A u \in 1..Len(sent) : u # t => Verdicts(u)' = Verdicts(u)
           /\ ~weak /\ ~up => Verdicts(t)' <= Verdicts(t) + 1
           /\ ~collided => Verdicts(t)' <= Verdicts(t) + (IF weak THEN 1 ELSE 0) + IF up THEN 1 ELSE 0
<1>1. /\ numCollisions[t] \in Nat /\ rcvBelowSensitivity[t] \in Nat
      /\ numCollisions'[t] \in {numCollisions[t], numCollisions[t] + 1}
      /\ ~collided => numCollisions'[t] = numCollisions[t]
      /\ \A u \in 1..Len(sent) : u # t => numCollisions'[u] = numCollisions[u]
  <2>1. CASE numCollisions' = numCollisions BY <2>1, VerdictType
  <2>2. CASE CountCollision(t, collided)
    <3>1. PICK c \in BOOLEAN : c = (collided /\ IsUplink(t)) OBVIOUS
    <3>2. numCollisions' = [numCollisions EXCEPT ![t] = IF c THEN @ + 1 ELSE @]
      BY <2>2, <3>1 DEF CountCollision
    <3>3. numCollisions \in Seq(Nat) /\ Len(numCollisions) = Len(sent) BY DEF TypeInv, CountType
    <3>4. /\ numCollisions'[t] = IF c THEN numCollisions[t] + 1 ELSE numCollisions[t]
          /\ \A u \in 1..Len(sent) : u # t => numCollisions'[u] = numCollisions[u]
      BY <3>2, <3>3, TallyStep
    <3>5. QED BY <3>1, <3>4, VerdictType
  <2>3. QED BY <2>1, <2>2
<1>2. /\ rcvBelowSensitivity'[t] = IF weak THEN rcvBelowSensitivity[t] + 1 ELSE rcvBelowSensitivity[t]
      /\ \A u \in 1..Len(sent) : u # t => rcvBelowSensitivity'[u] = rcvBelowSensitivity[u]
  <2>1. rcvBelowSensitivity \in Seq(Nat) /\ Len(rcvBelowSensitivity) = Len(sent) BY DEF TypeInv, CountType
  <2>2. QED BY <2>1, TallyStep
<1>3. \A u \in 1..Len(sent) : u # t => (u \in delivered' <=> u \in delivered) OBVIOUS
<1>4. \A u \in 1..Len(sent) : u # t => Verdicts(u)' = Verdicts(u) BY <1>1, <1>2, <1>3 DEF Verdicts
<1>5. ~weak /\ ~up => Verdicts(t)' <= Verdicts(t) + 1 BY <1>1, <1>2 DEF Verdicts
<1>6. ~collided => Verdicts(t)' <= Verdicts(t) + (IF weak THEN 1 ELSE 0) + IF up THEN 1 ELSE 0
  BY <1>1, <1>2 DEF Verdicts
<1>7. QED BY <1>4, <1>5, <1>6

\* The receptions that are in progress or have ended.
LEMMA SeenMoves ==
    ASSUME MediumInv, NEW t \in 1..Len(sent), NEW next \in Parts \union {"ENDED"},
           UNCHANGED sent, reception' = [reception EXCEPT ![t] = next]
    PROVE  t \in Seen' /\ Seen \subseteq Seen'
<1>1. reception'[t] = next /\ \A u \in 1..Len(sent) : u # t => reception'[u] = reception[u]
  <2>1. next \in ReceptionStates BY DEF ReceptionStates
  <2>2. QED BY <2>1, ExceptSeq DEF MediumInv, MediumType
<1>2. QED BY <1>1 DEF Seen, InReception

LEMMA CollisionReceptionSteps ==
    ASSUME DownInv, MediumInv, TypeInv, AddressInv, CollisionInv, NEW t \in 1..Len(sent),
           \/ StartReception(t) \/ ContinueReception(t)
           \/ EndReceptionIgnored(t) \/ EndReceptionDecided(t)
    PROVE  CollisionInv'
<1> USE DEF mediumVars, countVars, tallyVars
<1>0. Verdicts(t) \in Nat BY VerdictType
<1>1. ASSUME rcvBelowSensitivity' = rcvBelowSensitivity
      PROVE  rcvBelowSensitivity' = [rcvBelowSensitivity EXCEPT ![t] = IF FALSE THEN @ + 1 ELSE @]
  BY <1>1 DEF TypeInv, CountType
<1>2. CASE StartReception(t)
  <2>1. PICK collided \in BOOLEAN : collided = (CanReceive /\ IsCollidedNow(t)) OBVIOUS
  <2>2. /\ reception[t] = "ARRIVING" /\ reception' = [reception EXCEPT ![t] = FirstPart]
        /\ UNCHANGED <<sent, delivered, rcvBelowSensitivity>> /\ CountCollision(t, collided)
    BY <1>2, <2>1 DEF StartReception
  <2>3. FirstPart \in Parts BY DEF FirstPart, Parts
  <2>4. t \in Seen' /\ Seen \subseteq Seen' BY <2>2, <2>3, SeenMoves
  <2>5. Verdicts(t) = 0
    <3>1. t \notin Seen BY <2>2 DEF Seen, InReception, Parts
    <3>2. QED BY <3>1 DEF CollisionInv
  <2>6. /\ \A u \in 1..Len(sent) : u # t => Verdicts(u)' = Verdicts(u)
        /\ Verdicts(t)' <= Verdicts(t) + 1
        /\ ~collided => Verdicts(t)' <= Verdicts(t) + 0 + 0
    BY <1>1, <2>2, VerdictMoves
  <2>7. /\ \A u \in 1..Len(sent) : u # t => Listed(u)' = Listed(u)
        /\ ~(CanReceive /\ ~IsCollidedNow(t)) /\ Listed(t)' => t \in mistaken'
        /\ mistaken \subseteq mistaken' /\ mistaken' \subseteq mistaken \union {t}
    BY <1>2, ListedStart
  <2>8. Verdicts(t)' \in Nat
    <3>1. TypeInv' BY <1>2, TypeReceptionSteps
    <3>2. QED BY <2>2, <3>1, VerdictTypeNext
  <2>9. Verdicts(t)' <= 1 /\ (~collided => Verdicts(t)' = 0) BY <2>5, <2>6, <2>8
  <2>10. Listed(t)' => Verdicts(t)' <= ListedVerdicts(t)'
    <3>1. CASE collided
      <4>1. Listed(t)' => t \in mistaken' BY <2>1, <2>7, <3>1
      <4>2. QED BY <2>9, <4>1 DEF ListedVerdicts
    <3>2. CASE ~collided BY <2>9, <3>2 DEF ListedVerdicts
    <3>3. QED BY <3>1, <3>2
  <2>11. Verdicts(t)' <= AllVerdicts(t)' BY <2>8, <2>9 DEF AllVerdicts
  <2>12. QED BY <2>2, <2>4, <2>6, <2>7, <2>10, <2>11, CollisionMoves
<1>3. ASSUME ContinueReception(t) \/ EndReceptionIgnored(t) \/ EndReceptionDecided(t)
      PROVE  /\ UNCHANGED <<sent, mistaken>> /\ t \in Seen' /\ Seen \subseteq Seen'
             /\ \A u \in 1..Len(sent) : u # t => Listed(u)' = Listed(u)
             /\ ListedVerdicts(t)' = ListedVerdicts(t) /\ AllVerdicts(t)' = AllVerdicts(t)
             /\ AllVerdicts(t) = ListedVerdicts(t) + 1 /\ ListedVerdicts(t) \in Nat
             /\ Found(t) => Verdicts(t) <= ListedVerdicts(t)
             /\ Listed(t)' => Verdicts(t) <= ListedVerdicts(t)
             /\ Verdicts(t) <= AllVerdicts(t)
             /\ Forget(t) => ~Listed(t)'
  <2>1. UNCHANGED <<sent, mistaken>>
    BY <1>3 DEF ContinueReception, EndReceptionIgnored, EndReceptionDecided
  <2>2. PICK next \in Parts \union {"ENDED"} : reception' = [reception EXCEPT ![t] = next]
    <3>1. ContinueReception(t) => NextPart[reception[t]] \in Parts BY DEF ContinueReception, NextPart, Parts
    <3>2. QED BY <1>3, <3>1 DEF ContinueReception, EndReceptionIgnored, EndReceptionDecided
  <2>3. t \in Seen' /\ Seen \subseteq Seen' BY <2>1, <2>2, SeenMoves
  <2>4. /\ \A u \in 1..Len(sent) : u # t => Listed(u)' = Listed(u)
        /\ (Found(t) <=> Listed(t)) /\ (Listed(t)' => Listed(t)) /\ (Forget(t) => ~Listed(t)')
    BY <1>3, ListedGoesOn
  <2>5. (Listed(t) => Verdicts(t) <= ListedVerdicts(t)) /\ Verdicts(t) <= AllVerdicts(t) BY DEF CollisionInv
  <2>6. /\ ListedVerdicts(t)' = ListedVerdicts(t) /\ AllVerdicts(t)' = AllVerdicts(t)
        /\ AllVerdicts(t) = ListedVerdicts(t) + 1 /\ ListedVerdicts(t) \in Nat
    BY <2>1 DEF ListedVerdicts, AllVerdicts
  <2>7. QED BY <2>1, <2>3, <2>4, <2>5, <2>6
<1>4. CASE ContinueReception(t)
  <2>1. PICK collided \in BOOLEAN : collided = IsCollidedNow(t) BY DEF IsCollidedNow, IsPacketCollided
  <2>2. /\ UNCHANGED <<delivered, rcvBelowSensitivity>>
        /\ \/ numCollisions' = numCollisions
           \/ Found(t) /\ CountCollision(t, collided) /\ (collided => Forget(t))
    BY <1>4, <2>1 DEF ContinueReception
  <2>3. numCollisions' = numCollisions =>
            \A u \in 1..Len(sent) : Verdicts(u)' = Verdicts(u)
    BY <2>2 DEF Verdicts
  <2>4. CASE numCollisions' = numCollisions BY <1>3, <1>4, <2>3, <2>4, CollisionMoves
  <2>5. CASE Found(t) /\ CountCollision(t, collided) /\ (collided => Forget(t))
    <3>1. /\ \A u \in 1..Len(sent) : u # t => Verdicts(u)' = Verdicts(u)
          /\ Verdicts(t)' <= Verdicts(t) + 1
          /\ ~collided => Verdicts(t)' <= Verdicts(t) + 0 + 0
      BY <1>1, <2>2, <2>5, VerdictMoves
    <3>2. /\ Verdicts(t)' \in Nat
          /\ Verdicts(t) <= ListedVerdicts(t) /\ ListedVerdicts(t) \in Nat
          /\ ListedVerdicts(t)' = ListedVerdicts(t) /\ AllVerdicts(t)' = ListedVerdicts(t) + 1
      <4>1. TypeInv' /\ UNCHANGED sent BY <1>3, <1>4, TypeReceptionSteps
      <4>2. QED BY <1>3, <1>4, <2>5, <4>1, VerdictTypeNext
    <3>3. Verdicts(t)' <= AllVerdicts(t)' BY <1>0, <3>1, <3>2
    <3>4. Listed(t)' => Verdicts(t)' <= ListedVerdicts(t)' BY <1>0, <1>3, <1>4, <2>5, <3>1, <3>2
    <3>5. QED BY <1>3, <1>4, <3>1, <3>3, <3>4, CollisionMoves
  <2>6. QED BY <2>2, <2>4, <2>5
<1>5. CASE EndReceptionIgnored(t)
  <2>1. UNCHANGED <<numCollisions, rcvBelowSensitivity, delivered>> BY <1>5 DEF EndReceptionIgnored
  <2>2. \A u \in 1..Len(sent) : Verdicts(u)' = Verdicts(u) BY <2>1 DEF Verdicts
  <2>3. QED BY <1>3, <1>5, <2>2, CollisionMoves
<1>6. CASE EndReceptionDecided(t)
  <2>1. PICK possible \in BOOLEAN, collided \in BOOLEAN :
          /\ possible = IsReceptionPossible(Signal(t))
          /\ collided = IsPacketCollided(Signal(t), Signals(InterferenceOf(t)))
    <3>1. IsReceptionPossible(Signal(t)) \in BOOLEAN BY DEF IsReceptionPossible
    <3>2. IsPacketCollided(Signal(t), Signals(InterferenceOf(t))) \in BOOLEAN BY DEF IsPacketCollided
    <3>3. QED BY <3>1, <3>2
  <2>2. PICK weak \in BOOLEAN, both \in BOOLEAN, up \in BOOLEAN :
          weak = ~possible /\ both = (possible /\ collided) /\ up = (possible /\ ~collided)
    OBVIOUS
  <2>3. /\ Found(t) /\ Forget(t)
        /\ CountCollision(t, both)
        /\ rcvBelowSensitivity' = [rcvBelowSensitivity EXCEPT ![t] = IF weak THEN @ + 1 ELSE @]
        /\ delivered' = IF up THEN delivered \union {t} ELSE delivered
    BY <1>6, <2>1, <2>2 DEF EndReceptionDecided
  <2>4. /\ \A u \in 1..Len(sent) : u # t => Verdicts(u)' = Verdicts(u)
        /\ ~weak /\ ~up => Verdicts(t)' <= Verdicts(t) + 1
        /\ ~both => Verdicts(t)' <= Verdicts(t) + (IF weak THEN 1 ELSE 0) + IF up THEN 1 ELSE 0
    BY <2>3, VerdictMoves
  <2>5. Verdicts(t)' <= Verdicts(t) + 1
    <3>1. CASE ~both BY <1>0, <2>2, <2>4, <3>1
    <3>2. CASE both BY <2>2, <2>4, <3>2
    <3>3. QED BY <3>1, <3>2
  <2>6. /\ ~Listed(t)' /\ Verdicts(t) <= ListedVerdicts(t) /\ ListedVerdicts(t) \in Nat
        /\ AllVerdicts(t)' = ListedVerdicts(t) + 1
    BY <1>3, <1>6, <2>3
  <2>7. Verdicts(t)' <= AllVerdicts(t)'
    <3>1. TypeInv' /\ UNCHANGED sent BY <1>3, <1>6, TypeReceptionSteps
    <3>2. Verdicts(t)' \in Nat BY <3>1, VerdictTypeNext
    <3>3. QED BY <1>0, <2>5, <2>6, <3>2
  <2>8. QED BY <1>3, <1>6, <2>4, <2>6, <2>7, CollisionMoves
<1>7. QED BY <1>2, <1>4, <1>5, <1>6

LEMMA CollisionStep == DownInv /\ MediumInv /\ TypeInv /\ AddressInv /\ CollisionInv /\ [Next]_vars => CollisionInv'
<1> SUFFICES ASSUME DownInv, MediumInv, TypeInv, AddressInv, CollisionInv, [Next]_vars PROVE CollisionInv' OBVIOUS
<1>1. DOMAIN sent = 1..Len(sent) BY DEF DownInv, DownType
<1> USE DEF collisionVars, mediumVars, radioVars, countVars
<1>2. CASE \E t \in DOMAIN sent : \/ StartReception(t) \/ ContinueReception(t)
                                  \/ EndReceptionIgnored(t) \/ EndReceptionDecided(t)
  BY <1>1, <1>2, CollisionReceptionSteps
<1>3. CASE StartTransmission
  <2>1. Head(toRadio) \in Downlinks BY <1>3 DEF StartTransmission, DownInv, DownType
  <2>2. CASE iAmTransmiting BY <1>3, <2>2, CollisionUnchanged DEF StartTransmission
  <2>3. CASE ~iAmTransmiting
    <3>1. /\ EntersMedium(gateway, Head(toRadio), "NONE")
          /\ UNCHANGED <<separateReceptionParts, concurrentReceptions, mistaken, delivered>>
      BY <1>3, <2>3 DEF StartTransmission
    <3>2. QED BY <2>1, <3>1, CollisionEnters
  <2>4. QED BY <2>2, <2>3
<1>4. CASE \E f \in NodeFrames : NodeTransmits(f)
  <2>1. PICK f \in NodeFrames : /\ EntersMedium("node", f, "ARRIVING")
                                /\ UNCHANGED <<separateReceptionParts, concurrentReceptions, mistaken, delivered>>
    BY <1>4 DEF NodeTransmits
  <2>2. QED BY <2>1, CollisionEnters
<1>5. CASE RemovalTimerFires BY <1>5, CollisionUnchanged DEF RemovalTimerFires, RemoveNonInterferingTransmissions
<1>6. CASE EndTransmission BY <1>6, CollisionUnchanged DEF EndTransmission
<1>7. CASE ForwardUp BY <1>7, CollisionUnchanged DEF ForwardUp
<1>8. CASE DutyCycleEnds BY <1>8, CollisionUnchanged DEF DutyCycleEnds
<1>9. CASE \E f \in Downlinks : DownlinkArrives(f) BY <1>9, CollisionUnchanged DEF DownlinkArrives
<1>10. CASE Tick BY <1>10, CollisionUnchanged DEF Tick
<1>11. CASE UNCHANGED vars BY <1>11, CollisionUnchanged DEF vars
<1>12. QED
  BY <1>2, <1>3, <1>4, <1>5, <1>6, <1>7, <1>8, <1>9, <1>10, <1>11 DEF Next, Handlers, Radio, Environment

(***************************************************************************)
(* LoRaReceiver comes to one verdict on a frame at most, collided, too     *)
(* weak or delivered, although it looks at it up to four times; to two on  *)
(* one whose timer got the address of a listed one when it started.        *)
(***************************************************************************)
THEOREM CollisionsCountedOnce == Spec => []CollisionCountedOnce
<1>1. DownInv /\ CollisionInv => CollisionCountedOnce
  <2>1. DownInv => DOMAIN sent = 1..Len(sent) BY DEF DownInv, DownType
  <2>2. QED BY <2>1 DEF CollisionInv, AllVerdicts, CollisionCountedOnce
<1>2. Init => DownInv /\ MediumInv /\ TypeInv /\ AddressInv /\ CollisionInv
  BY DownInitial, MediumInitial, TypeInitial, AddressInitial, CollisionInitial
<1>3. DownInv /\ MediumInv /\ TypeInv /\ AddressInv /\ CollisionInv /\ [Next]_vars
      => DownInv' /\ MediumInv' /\ TypeInv' /\ AddressInv' /\ CollisionInv'
  BY DownStep, MediumStep, TypeStep, AddressStep, CollisionStep
<1>4. QED BY <1>1, <1>2, <1>3, PTL DEF Spec

-----------------------------------------------------------------------------
(***************************************************************************)
(* What DutyCycleAssumption rests on: the pause of LoRaGWMac is longer     *)
(* than LoRaTransmitter keeps a downlink on the air.                       *)
(***************************************************************************)

(***************************************************************************)
(* The six constants of LoRaGWMac::handleUpperPacket are ten times the     *)
(* time LoRaTransmitter keeps a downlink of coding rate 4 on the air: a    *)
(* duty cycle of ten percent.                                              *)
(***************************************************************************)
THEOREM TenPercent == \A sf \in SpreadingFactors : Delta(sf) = 10 * TimeOnAir(GatewayPayload, sf, 4)
<1> TAKE sf \in SpreadingFactors
<1> USE DEF Delta, TimeOnAir, GatewayPayload, Tpreamble, Tsym, payloadSymbNb, TwoToThe
<1>1. CASE sf = 7  BY <1>1
<1>2. CASE sf = 8  BY <1>2
<1>3. CASE sf = 9  BY <1>3
<1>4. CASE sf = 10 BY <1>4
<1>5. CASE sf = 11 BY <1>5
<1>6. CASE sf = 12 BY <1>6
<1>7. QED BY <1>1, <1>2, <1>3, <1>4, <1>5, <1>6 DEF SpreadingFactors

(***************************************************************************)
(* A downlink of any spreading factor and coding rate has left the air     *)
(* before LoRaGWMac lets the next one pass.                                *)
(***************************************************************************)
THEOREM PauseCoversDownlink ==
    \A sf \in SpreadingFactors, cr \in CodingRates :
        TimeOnAir(GatewayPayload, sf, cr) < Delta(sf)
<1> TAKE sf \in SpreadingFactors, cr \in CodingRates
<1> USE DEF Delta, TimeOnAir, GatewayPayload, Tpreamble, Tsym, payloadSymbNb, TwoToThe
<1>0. cr \in 1..4 BY DEF CodingRates
<1>1. CASE sf = 7  BY <1>0, <1>1
<1>2. CASE sf = 8  BY <1>0, <1>2
<1>3. CASE sf = 9  BY <1>0, <1>3
<1>4. CASE sf = 10 BY <1>0, <1>4
<1>5. CASE sf = 11 BY <1>0, <1>5
<1>6. CASE sf = 12 BY <1>0, <1>6
<1>7. QED BY <1>1, <1>2, <1>3, <1>4, <1>5, <1>6 DEF SpreadingFactors
=============================================================================
