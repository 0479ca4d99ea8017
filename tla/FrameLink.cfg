CONSTANTS
    ByteBits = 3
    KeyBytes <- MCKeyBytes
    PolyOrig <- MCPolyOrig
    GfPoly <- MCGfPoly
    NRoots = 4
    ConstraintLength = 3
    G1 <- MCG1
    G2 <- MCG2
    LdpcBase <- MCLdpcBase
    LdpcZ = 3
    LdpcIterations = 4
    SeededPermutation <- MCSeededPermutation
    BlockSize = 2
    DecodePadPairs = 3
    FftSize = 16
    NData = 10
    NPilot = 2
    DcNull = TRUE
    ScrambleMask <- MCScrambleMask
    MaxPayloadSymbols = 4
    Filler <- MCFiller
    TrainingPoint <- MCTrainingPoint
    Links <- MCLinks
    Payloads <- MCPayloads
    Noises <- MCNoises
    BurstReach = 9
    ConvWindow = 10
    KeyReach <- MCKeyReach
    MaxRun = 5
    Delays = {1}
    MaxFrames = 2
SPECIFICATION FrameSpec
INVARIANTS CorrectedWithinReach DamageNoticed UncheckedOnlyAsSent KernelsAgree
CHECK_DEADLOCK FALSE
