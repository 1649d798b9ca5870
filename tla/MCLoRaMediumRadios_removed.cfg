SPECIFICATION Spec
CONSTANTS
    n1 = n1
    n2 = n2
    n3 = n3
    gw = gw
    Radios = {n1, n2, n3, gw}
    LoRaRadios = {n1, n2, n3}
    InitialRadios <- MCInitialRadios
    MayLeave = {n1, n2, n3}
    OnlyFirstLeaves = FALSE
    Speed <- MCSpeed
    range = 1
    refillPeriod = 2
    Places = {0, 1, 2, 3}
    StartPlaces <- MCStartPlaces
    MaxTransmissions = 2
    MaxTime = 4
CHECK_DEADLOCK FALSE
INVARIANTS
    ReceiversAreRadios
