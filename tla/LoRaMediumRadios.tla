-------------------------- MODULE LoRaMediumRadios --------------------------
(***************************************************************************)
(* The radios on the medium: LoRaMedium::addRadio and removeRadio with the *)
(* list `radios', the communication cache (VectorCommunicationCache) and   *)
(* the neighbour cache behind them.                                        *)
(*                                                                         *)
(* The list and the rows of the communication cache are indexed by the     *)
(* difference of radio ids.  An id is unique among all radios, but that of *)
(* a LoRaRadio is the second one it takes: its base class Radio takes one  *)
(* of its own from the same counter.                                       *)
(***************************************************************************)
EXTENDS LoRaNeighborCache, Sequences, FiniteSets

CONSTANTS
    LoRaRadios,              \* the radios of nodes; the others are LoRaGWRadios
    InitialRadios,           \* in the order in which they are created
    MayLeave,                \* radios that may be removed
    OnlyFirstLeaves,         \* whether radios leave in the order of their ids only
    MaxTransmissions, MaxTime \* bounds

Null == "nullptr"
NoId == -1
NoArrival == "no arrival"

InitialSet == {InitialRadios[i] : i \in DOMAIN InitialRadios}

ASSUME RadiosAssumption ==
    /\ LoRaRadios \subseteq Radios /\ MayLeave \subseteq Radios /\ OnlyFirstLeaves \in BOOLEAN
    /\ InitialRadios \in Seq(Radios) /\ InitialRadios # <<>>
    /\ \A i, j \in DOMAIN InitialRadios : InitialRadios[i] = InitialRadios[j] => i = j
    /\ Null \notin Radios /\ NoArrival \notin Radios

VARIABLES
    nextId, id,              \* IRadio::nextId, and the ids given
    radios,                  \* LoRaMedium::radios, with null pointers
    left,                    \* of every radio: when it was removed, or Off
    baseRadioId,
    radioCache,              \* of every entry: whether it is stale
    transmissions,           \* LoRaMedium::transmissions: the transmitter of each
    receptionCache,          \* of every transmission: whose arrival an entry holds
    transmitted,             \* number of transmissions so far
    corrupted                \* memory outside a vector or of a deleted radio was used

cacheVars == <<baseRadioId, radioCache, transmissions, receptionCache>>
vars == <<now, position, neighborVars, nextId, id, radios, left, cacheVars, transmitted, corrupted>>

\* What one radio takes from nextId, and its id when nextId is n.
IdsTaken(r) == IF r \in LoRaRadios THEN 2 ELSE 1
IdFrom(n, r) == n + IdsTaken(r) - 1

\* What the first n of the initial radios take from nextId, and the id of the i-th.
IdsBefore(n) == n + Cardinality({i \in 1..n : InitialRadios[i] \in LoRaRadios})
InitialId(i) == IdFrom(IdsBefore(i - 1), InitialRadios[i])

Registered == {r \in Radios : id[r] # NoId /\ left[r] = Off}
First(s) == s[1]

Init ==
    /\ NeighborInit(InitialSet)
    /\ nextId = IdsBefore(Len(InitialRadios))
    /\ id = [r \in Radios |->
                IF r \in InitialSet
                THEN InitialId(CHOOSE i \in DOMAIN InitialRadios : InitialRadios[i] = r) ELSE NoId]
    /\ radios = InitialRadios
    /\ left = [r \in Radios |-> Off]
    /\ baseRadioId = InitialId(1)
    /\ radioCache = [i \in 1..(nextId - baseRadioId) |-> FALSE]
    /\ transmissions = <<>> /\ receptionCache = <<>> /\ transmitted = 0
    /\ corrupted = FALSE

-----------------------------------------------------------------------------
\* A sequence made at least n long, as vector::resize does.
Resized(s, n, fill) == [i \in 1..(IF n > Len(s) THEN n ELSE Len(s)) |-> IF i \in DOMAIN s THEN s[i] ELSE fill]

\* The place of r in radioCache and in the rows of receptionCache.
CacheIndex(r) == id[r] - baseRadioId + 1

\* addRadio: the transmissions under way get an arrival at the new radio.
AddRadio(r) ==
    /\ ~corrupted /\ id[r] = NoId
    /\ id' = [id EXCEPT ![r] = IdFrom(nextId, r)]
    /\ nextId' = nextId + IdsTaken(r)
    /\ radios' = Append(radios, r)
    /\ baseRadioId' = IF radioCache = <<>> THEN id'[r] ELSE baseRadioId
    /\ LET index == id'[r] - baseRadioId' + 1 IN
        /\ radioCache' = Resized(radioCache, index, FALSE)
        /\ receptionCache' = [t \in DOMAIN receptionCache |->
                [Resized(receptionCache[t], index, NoArrival) EXCEPT ![index] = r]]
    /\ NeighborAddRadio(r)
    /\ UNCHANGED <<now, position, left, transmissions, transmitted, corrupted>>

\* radio->getId() - radios[0]->getId(), from 1.
RadioIndexFromZero(r) == id[r] + 1
RadioIndex(r) == id[r] - id[First(radios)] + 1

\* s without the longest prefix whose elements are all e.
WithoutLeading(s, e) ==
    LET n == CHOOSE k \in 0..Len(s) : (\A i \in 1..k : s[i] = e) /\ (k < Len(s) => s[k + 1] # e)
    IN SubSeq(s, n + 1, Len(s))

\* VectorCommunicationCache::removeRadio: stale entries at the front go, and baseRadioId with them.
BaseKept(dropped) == baseRadioId
NewBase(dropped) == baseRadioId + dropped
CacheRemoveRadio(r) ==
    LET stale == [radioCache EXCEPT ![CacheIndex(r)] = TRUE]
        dropped == Len(stale) - Len(WithoutLeading(stale, TRUE))
    IN
    /\ radioCache' = WithoutLeading(stale, TRUE)
    /\ baseRadioId' = NewBase(dropped)
    /\ receptionCache' = [t \in DOMAIN receptionCache |->
            SubSeq(receptionCache[t], dropped + 1, Len(receptionCache[t]))]

\* The first of the registered radios.
IsFirst(r) == \A s \in Registered : id[r] <= id[s]

\* removeRadio.  Its loop looks at the entry after the null pointers before it asks whether there
\* is one, and radios[0] may be a radio that was deleted.
RemoveRadio(r) ==
    /\ ~corrupted /\ r \in Registered \intersect MayLeave
    /\ OnlyFirstLeaves => IsFirst(r)
    /\ left' = [left EXCEPT ![r] = now]
    /\ IF radios # <<>> /\ First(radios) \in Registered /\ RadioIndex(r) \in DOMAIN radios
       THEN /\ radios' = WithoutLeading([radios EXCEPT ![RadioIndex(r)] = Null], Null)
            /\ corrupted' = (radios' = <<>>)
       ELSE corrupted' = TRUE /\ UNCHANGED radios
    /\ CacheRemoveRadio(r)
    /\ NeighborRemoveRadio(r)
    /\ UNCHANGED <<now, position, nextId, id, transmissions, transmitted>>

\* sendToAllRadios sends to these.
Receivers == {radios[i] : i \in DOMAIN radios} \ {Null}

\* The row of a transmission of r: its arrivals at the other radios.
ArrivalsOf(r) ==
    [i \in DOMAIN radioCache |->
        IF \E s \in Receivers \ {r} : CacheIndex(s) = i
        THEN CHOOSE s \in Receivers \ {r} : CacheIndex(s) = i ELSE NoArrival]

\* addTransmission: the arrival at every other radio goes into the cache.
Transmit(r) ==
    /\ ~corrupted /\ r \in Registered /\ transmitted < MaxTransmissions
    /\ transmitted' = transmitted + 1
    /\ transmissions' = Append(transmissions, r)
    /\ IF Receivers \subseteq Registered
       THEN receptionCache' = Append(receptionCache, ArrivalsOf(r)) /\ UNCHANGED corrupted
       ELSE corrupted' = TRUE /\ UNCHANGED receptionCache
    /\ UNCHANGED <<now, position, neighborVars, nextId, id, radios, left, baseRadioId, radioCache>>

\* removeNonInterferingTransmissions.
ForgetTransmission ==
    /\ ~corrupted /\ receptionCache # <<>>
    /\ transmissions' = Tail(transmissions) /\ receptionCache' = Tail(receptionCache)
    /\ UNCHANGED <<now, position, neighborVars, nextId, id, radios, left, baseRadioId, radioCache>>
    /\ UNCHANGED <<transmitted, corrupted>>

TimerFires ==
    /\ ~corrupted /\ NeighborListsTimerFires
    /\ UNCHANGED <<nextId, id, radios, left, cacheVars, transmitted, corrupted>>
Tick ==
    /\ ~corrupted /\ now < MaxTime /\ MoveOn
    /\ UNCHANGED <<nextId, id, radios, left, cacheVars, transmitted, corrupted>>

Next ==
    \/ \E r \in Radios : AddRadio(r) \/ RemoveRadio(r) \/ Transmit(r)
    \/ ForgetTransmission \/ TimerFires \/ Tick
Spec == Init /\ [][Next]_vars

-----------------------------------------------------------------------------
(***************************************************************************)
(* Whom sendToAllRadios sends to: all the radios on the medium and no      *)
(* other, and the list is never used beyond its ends while a radio is      *)
(* left.  It holds as long as radios leave in the order of their ids only, *)
(* as when the simulation ends: then the index of the one that leaves is   *)
(* 0.                                                                      *)
(***************************************************************************)
ReceiversAreRadios == Receivers = Registered /\ (Registered # {} => ~corrupted)

(***************************************************************************)
(* Whichever radios came or left since a transmission began, the cache has *)
(* its arrival at every radio on the medium but the transmitter, under the *)
(* index of that radio and nowhere else.                                   *)
(***************************************************************************)
ArrivalsFound ==
    \A t \in DOMAIN receptionCache, r \in Registered :
        {i \in DOMAIN receptionCache[t] : receptionCache[t][i] = r} =
            IF r = transmissions[t] THEN {} ELSE {CacheIndex(r)}

InRange(r, s) == Distance(position[r], position[s]) <= range

(***************************************************************************)
(* Between two refills no radio comes into range that is not in the list,  *)
(* if at most one of the two moves and both were there from the start.     *)
(***************************************************************************)
NeighborsComplete ==
    \A r, s \in Registered \intersect InitialSet :
        (r # s /\ InRange(r, s) /\ (Speed[r] = 0 \/ Speed[s] = 0)) => s \in neighborVector[r]

(***************************************************************************)
(* What INeighborCache says of sendToNeighbors: the frame goes to all      *)
(* neighbours within the range.  (Not if both move, or one came later.)    *)
(***************************************************************************)
NeighborsWithinRange ==
    \A r, s \in Registered : (r # s /\ InRange(r, s)) => s \in neighborVector[r]

(***************************************************************************)
(* What IRadioMedium says of a radio that was removed, of sendToNeighbors: *)
(* it "will not receive any further transmission".  (It does: removeRadio  *)
(* takes it out of copies of the lists, and the frames of the others are   *)
(* sent to it, deleted as it is, until the next refill.)                   *)
(***************************************************************************)
RemovedGetNothing == \A r \in Registered : neighborVector[r] \subseteq Registered
=============================================================================
