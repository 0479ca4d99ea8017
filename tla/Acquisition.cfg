CONSTANTS
    FftLen = 4
    Template <- MCTemplate
    SyncThreshold <- MCThreshold
    Clean <- MCClean
    Turns = {0, 1, 3}
    CpLen = 2
    TrainValues <- MCTrainValues
    NTraining = 2
    Preamble <- MCTemplate
    Payloads <- MCPayloads
    Channels <- MCChannels
    NoiseVars <- MCNoiseVars
SPECIFICATION MCSpec
INVARIANTS FirstPreamble AirUndone
CHECK_DEADLOCK FALSE
