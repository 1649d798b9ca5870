SPECIFICATION FairSpec
CONSTANTS
    gateway = gw
    Radios = {gw, n}
    maxTransmissionDuration = 1
    alohaChannelModel = FALSE
    NodeFrames <- MCNodeFrames
    Downlinks <- MCDownlinks
    PartsChoices = {TRUE, FALSE}
    WarmupPeriod = 0
    MaxSent = 2
    MaxDownlinks = 2
    LastStart = 3
    MaxTime = 15
CHECK_DEADLOCK FALSE
INVARIANTS
    TypeOK
    DeliveredUncollidedAsChecked
    HeardIsForwarded
    HalfDuplexAtEnds
    RemovedAfterArrival
    ForwardedDownIsTransmitted
    CollisionCountedOnce
    GatewayRatio
PROPERTIES
    MediumEmpties
