SPECIFICATION Spec
CONSTANTS
    f1 = f1
    f2 = f2
    Frames = {f1, f2}
    NoFrame = NoFrame
    AirTimes = {1, 2}
    UplinkAirTime = 1
    waitDelay1Time = 1
    listening1Time = 4
    waitDelay2Time = 1
    listening2Time = 1
    MinGap = 12
    MaxGap = 12
    numberOfPacketsToSend = 2
    separateReceptionParts = TRUE
SYMMETRY Symmetry
CHECK_DEADLOCK FALSE
INVARIANTS
    RadioFollowsMac
    TimersFollowMac
    QueueIsCurrentTransmission
    OneDownlinkPerUplink
PROPERTIES
    ReceptionsChainFromWindow
