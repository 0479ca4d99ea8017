CONSTANTS
    ByteBits = 4
    KeyBytes <- MCKeyBytes
    PolyOrig <- MCPolyOrig
    GfPoly <- MCGfPoly
    NRoots = 4
    ConstraintLength = 3
    G1 <- MCG1
    G2 <- MCG2
    LdpcBase <- MCLdpcBase
    LdpcZ = 1
    LdpcIterations = 1
    SeededPermutation <- MCSeededPermutation
    FftSize = 16
    NData = 12
    NPilot = 2
    DcNull = TRUE
    ScrambleMask <- MCScrambleMask
    MaxPayloadSymbols = 128
    Filler <- MCFiller
    TrainingPoint <- MCTrainingPoint
    MacHeaderBits = 32
    Schemes <- MCSchemes
    Modems <- MCModems
    Fecs <- MCFecs
    SduSizes <- MCSduSizes
    PeerLimits <- MCPeerLimits
    MaxBuffered = 2
    SoLimit = 65536
    U16Max = 4
    TableLen = 3
    DownPercent = 50
    UpPercent = 98
    UpStreak = 2
    McsTable <- MCMcsTable
    Paths = {"iq"}
    Failures = {"fec"}
    AdaptiveSchemes <- MCAdaptiveSchemes
    MaxAttempts = 5
    MaxLives = 2
SPECIFICATION FairSpec
INVARIANTS SegmentsFit
PROPERTIES CapacityIsLargest DownOnBadInterval UpOnGoodRun Recovers
CHECK_DEADLOCK FALSE
