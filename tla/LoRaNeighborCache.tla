-------------------------- MODULE LoRaNeighborCache --------------------------
(***************************************************************************)
(* LoRaPhy/LoRaNeighborCache.cc: a list of neighbours per radio, made anew *)
(* every refillPeriod as long as something can move, with a margin for the *)
(* movement in between.  Radios are on a line and move at most Speed[r] a  *)
(* time unit.  The maximum speed comes from the medium's MediumLimitCache, *)
(* which LoRaMedium tells of a radio after it told the neighbour cache.    *)
(***************************************************************************)
EXTENDS Integers

CONSTANTS
    Radios,
    Speed,                   \* getMaxSpeed() of the radios' mobilities
    range, refillPeriod,     \* parameters of the cache
    Places, StartPlaces      \* bounds: where radios can be, and where each can start

ASSUME CacheAssumption ==
    /\ Speed \in [Radios -> Nat] /\ Places \subseteq Int
    /\ range \in Nat /\ refillPeriod \in Nat \ {0}

Off == -1
NaN == -1                    \* of a speed: not a number

VARIABLES
    now, position,
    limitRadios,             \* MediumLimitCache::radios
    neighborRadios,          \* LoRaNeighborCache::radios
    neighborVector,          \* the list of every radio
    maxSpeed, updateNeighborListsTimer

neighborVars == <<limitRadios, neighborRadios, neighborVector, maxSpeed, updateNeighborListsTimer>>

\* MediumLimitCache::computeMaxSpeed.
ComputeMaxSpeed(rs) ==
    LET speeds == {Speed[r] : r \in rs}
    IN IF rs = {} THEN NaN ELSE CHOOSE v \in speeds : \A w \in speeds : w <= v

Distance(p, q) == IF p < q THEN q - p ELSE p - q

RadiusOfRange == range
Radius == maxSpeed * refillPeriod + range

\* The radios of rs that updateNeighborList finds near r; no distance is below one that is NaN.
Near(rs, r) == {s \in rs \ {r} : maxSpeed # NaN /\ Distance(position[r], position[s]) <= Radius}

\* updateNeighborList for each of the radios rs.
UpdateNeighborLists(rs) ==
    neighborVector' = [r \in Radios |-> IF r \in rs THEN Near(rs, r) ELSE neighborVector[r]]

\* After both stages of initialize, with the radios rs on the medium.
NeighborInit(rs) ==
    /\ now = 0
    /\ position \in {p \in [Radios -> Places] : \A r \in Radios : p[r] \in StartPlaces[r]}
    /\ limitRadios = rs /\ neighborRadios = rs
    /\ maxSpeed = ComputeMaxSpeed(rs)
    /\ neighborVector = [r \in Radios |-> IF r \in rs THEN Near(rs, r) ELSE {}]
    /\ updateNeighborListsTimer = IF maxSpeed # 0 THEN now + refillPeriod ELSE Off

\* handleMessage.
NeighborListsTimerFires ==
    /\ updateNeighborListsTimer = now
    /\ UpdateNeighborLists(neighborRadios)
    /\ updateNeighborListsTimer' = now + refillPeriod
    /\ UNCHANGED <<now, position, limitRadios, neighborRadios, maxSpeed>>

\* addRadio; the limits still are those without r.
NeighborAddRadio(r) ==
    /\ neighborRadios' = neighborRadios \union {r}
    /\ UpdateNeighborLists(neighborRadios')
    /\ maxSpeed' = ComputeMaxSpeed(limitRadios)
    /\ updateNeighborListsTimer' =
        IF maxSpeed' # 0 /\ updateNeighborListsTimer = Off THEN now + refillPeriod
        ELSE updateNeighborListsTimer
    /\ limitRadios' = limitRadios \union {r}

\* removeRadio; removeRadioFromNeighborLists changes copies of the lists.
NeighborRemoveRadio(r) ==
    /\ neighborRadios' = neighborRadios \ {r}
    /\ maxSpeed' = ComputeMaxSpeed(limitRadios)
    /\ updateNeighborListsTimer' = IF maxSpeed' = 0 THEN Off ELSE updateNeighborListsTimer
    /\ limitRadios' = limitRadios \ {r}
    /\ UNCHANGED neighborVector

\* Time passes and the radios move.
MoveOn ==
    /\ now # updateNeighborListsTimer
    /\ now' = now + 1
    /\ position' \in [Radios -> Places]
    /\ \A r \in Radios : Distance(position[r], position'[r]) <= Speed[r]
    /\ UNCHANGED neighborVars
=============================================================================
