\* mark_as_good / mark_as_bad never return once a queued block is acknowledged.
CONSTANTS
    b1 = b1  b2 = b2  b3 = b3  g = g  r1 = r1  r2 = r2  r3 = r3
    Hashes <- MCHashes
    Genesis = g
    Parent <- MCParent
    RawHash <- MCRawHash
    Difficulty <- MCDifficulty
    NumCpus = 2
    ConfiguredVerifiers = 2
    ScaleVerifiers = FALSE
    ScaleThreshold = 20
    ReadjustmentPeriod = 1
    UsizeBits = 3
    CreateOutcomes = {"Ok"}
    DrainMax = {1}
    ClientAcks = TRUE
    AdminOps = {"flush"}
    MaxImports = 1
    MaxAdminCalls = 1
    SendFails = FALSE

SPECIFICATION FairSpec
PROPERTY BatchAcknowledged
CHECK_DEADLOCK FALSE
