SPECIFICATION FairSpec
CONSTANTS
    Nodes = {n1}
    InitialSFs = {7, 9, 10, 11, 12}
    OptionSFs = {7, 10, 12}
    SFOptions <- MCSFOptions
    ADR_ACK_LIMIT = 3
    ADR_ACK_DELAY = 2
    evaluateADRinNode = TRUE
INVARIANTS TypeOK RequestNotLost
PROPERTIES RaiseOnlyUnanswered SilenceEndsInSF12
