SPECIFICATION FairSpec
CONSTANTS
    Nodes = {n1, n2}
    Gateways = {g1, g2}
    MaxSNIR = 0
    SFs = {7}
    MaxFrames = 2
    MinGap = 6
    AirTimes = {1}
    MaxJitter = 1
    Window = 2
    AdrFrames = 2
    WarmupPeriod = 0
    evaluateADRinServer = FALSE
INVARIANTS DeliveryRatio
PROPERTIES ImplementsFrameCounter EveryFrameCounted
