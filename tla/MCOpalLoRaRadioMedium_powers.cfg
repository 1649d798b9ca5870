SPECIFICATION Spec
CONSTANTS
    Radios = {r1, r2, r3}
    InitialRadios = {r1, r2}
    Removable = {r3}
    radioModeFilter = FALSE
    TransmissionPowers = {1, 2}
    Gains = {0, 1}
    MaxTransmissions = 3
SYMMETRY Symmetry
CHECK_DEADLOCK FALSE
INVARIANTS
    ThrowsOnlyAfterRemoval
    ReceptionHasItsPower
