SPECIFICATION Spec
CONSTANTS
    Nodes = {n1}
    Gateways = {g1, g2}
    MaxSNIR = 1
    SFs = {7}
    MaxFrames = 2
    MinGap = 6
    AirTimes = {1, 2}
    MaxJitter = 1
    Window = 2
    AdrFrames = 2
    WarmupPeriod = 2
    evaluateADRinServer = FALSE
INVARIANTS DeliveryRatio
