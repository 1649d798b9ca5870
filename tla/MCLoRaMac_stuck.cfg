SPECIFICATION Spec
CONSTANTS
    f1 = f1
    Frames = {f1}
    NoFrame = NoFrame
    AirTimes = {1, 2}
    UplinkAirTime = 1
    waitDelay1Time = 1
    listening1Time = 1
    waitDelay2Time = 1
    listening2Time = 1
    MinGap = 8
    MaxGap = 9
    numberOfPacketsToSend = 3
    separateReceptionParts = TRUE
INVARIANT
    NeverAborts
