SPECIFICATION Spec
CONSTANTS
    Nodes = {n1}
    Gateways = {g1, g2}
    MaxSNIR = 1
    SFs = {7, 8}
    MaxFrames = 5
    MinGap = 6
    AirTimes = {1}
    MaxJitter = 1
    Window = 2
    AdrFrames = 3
    WarmupPeriod = 0
    evaluateADRinServer = TRUE
INVARIANTS TypeOK BestGateway AdrPace AdrPacketsCounted DeliveryRatioPerSF
