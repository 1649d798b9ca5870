----------------------------- MODULE LoRaMedium -----------------------------
(***************************************************************************)
(* The record of transmissions kept by LoRaPhy/LoRaMedium.cc and by the    *)
(* communication cache beside it.  The medium forgets a transmission once  *)
(* it can interfere with nothing that is still being received; `sent' is   *)
(* everything ever transmitted, and only the properties look at all of it. *)
(*                                                                         *)
(* A transmission is named by its place in `sent', as the code names it by *)
(* a running id.                                                           *)
(***************************************************************************)
EXTENDS Integers, Sequences

CONSTANTS
    Radios,                  \* the radios on the medium
    maxTransmissionDuration  \* LoRaMediumCache's parameter

Off == -1

ASSUME DurationAssumption == maxTransmissionDuration \in Nat \ {0}

\* A frame is [duration, delay, ...]; delay[r] is its propagation time to r, 0 to its own sender.
IsFrame(f) ==
    /\ f.duration \in Nat \ {0}
    /\ f.delay \in [Radios -> Nat]
    /\ \E far \in Radios : \A r \in Radios : f.delay[r] <= f.delay[far]

VARIABLES
    now,              \* simTime()
    sent,             \* all transmissions: [from, start, frame]
    transmissions,    \* LoRaMedium::transmissions, as places in sent
    interferenceEndTime, \* of every transmission, cached when it is added
    removeNonInterferingTransmissionsTimer \* the time it fires, or Off

mediumVars == <<sent, transmissions, interferenceEndTime, removeNonInterferingTransmissionsTimer>>

MediumInit ==
    /\ now = 0
    /\ sent = <<>> /\ transmissions = <<>> /\ interferenceEndTime = <<>>
    /\ removeNonInterferingTransmissionsTimer = Off

Latest(times) == CHOOSE t \in times : \A u \in times : u <= t

ArrivalStart(r, t) == sent[t].start + sent[t].frame.delay[r]
ArrivalEnd(r, t) == ArrivalStart(r, t) + sent[t].frame.duration

EndOfInterferenceAtSender(frame) == now + frame.duration + maxTransmissionDuration
EndOfInterference(frame) ==
    now + frame.duration + Latest({frame.delay[r] : r \in Radios}) + maxTransmissionDuration

\* addTransmission.
AddTransmission(from, frame) ==
    /\ sent' = Append(sent, [from |-> from, start |-> now, frame |-> frame])
    /\ transmissions' = Append(transmissions, Len(sent'))
    /\ interferenceEndTime' = Append(interferenceEndTime, EndOfInterference(frame))
    /\ removeNonInterferingTransmissionsTimer' =
        IF removeNonInterferingTransmissionsTimer = Off
        THEN interferenceEndTime'[Head(transmissions')]
        ELSE removeNonInterferingTransmissionsTimer

\* The first n transmissions, and no more, cannot interfere any more.
Removable(n) ==
    /\ \A i \in 1..n : interferenceEndTime[transmissions[i]] <= now
    /\ n < Len(transmissions) => interferenceEndTime[transmissions[n + 1]] > now

NextRemovalNever == Off
NextRemoval == IF transmissions' = <<>> THEN Off ELSE interferenceEndTime[Head(transmissions')]

\* removeNonInterferingTransmissions.
RemoveNonInterferingTransmissions ==
    /\ removeNonInterferingTransmissionsTimer = now
    /\ \E n \in 0..Len(transmissions) :
        /\ Removable(n)
        /\ transmissions' = SubSeq(transmissions, n + 1, Len(transmissions))
    /\ removeNonInterferingTransmissionsTimer' = NextRemoval
    /\ UNCHANGED <<now, sent, interferenceEndTime>>

KnownTransmissions == {transmissions[i] : i \in 1..Len(transmissions)}

\* isInterferingTransmission(transmission, reception), minInterferenceTime being below the time unit.
IsInterfering(r, t, u) ==
    /\ u # t /\ sent[u].from # r
    /\ ArrivalEnd(r, u) > ArrivalStart(r, t)
    /\ ArrivalStart(r, u) < ArrivalEnd(r, t)

\* computeInterferingReceptions: what the medium knows of at this moment.
Interference(r, t) == {u \in KnownTransmissions : IsInterfering(r, t, u)}
=============================================================================
