SPECIFICATION FairSpec
CONSTANTS
    gateway = gw
    Radios = {gw, n}
    maxTransmissionDuration = 1
    alohaChannelModel = FALSE
    NodeFrames <- MCTwoFrames
    Downlinks <- MCDownlinks
    PartsChoices = {FALSE}
    WarmupPeriod = 0
    MaxSent = 3
    MaxDownlinks = 1
    LastStart = 6
    MaxTime = 20
CHECK_DEADLOCK FALSE
INVARIANT
    DeliveredUncollided
