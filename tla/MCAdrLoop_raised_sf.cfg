SPECIFICATION LoopSpec
CONSTANTS
    Nodes = {n1}
    Gateways = {g1, g2}
    MaxSNIR = 0
    SFs = {7, 8, 9, 10, 11, 12}
    MaxFrames = 5
    MinGap = 6
    AirTimes = {1}
    MaxJitter = 1
    Window = 2
    AdrFrames = 3
    WarmupPeriod = 0
    evaluateADRinServer = TRUE
    evaluateADRinNode = TRUE
    InitialSFs = {7, 8}
    ADR_ACK_LIMIT = 1
    ADR_ACK_DELAY = 1
    RxWindows = 5
    SFOptions <- MCSFOptions
SYMMETRY Symmetry
INVARIANTS DeliveryRatioPerSF
