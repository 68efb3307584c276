\* With auto-scaling, a verifier put to sleep after the last item never notifies flush().
CONSTANTS
    b1 = b1  b2 = b2  b3 = b3  g = g  r1 = r1  r2 = r2  r3 = r3
    Hashes <- MCHashes
    Genesis = g
    Parent <- MCParent
    RawHash <- MCRawHash
    Difficulty <- MCDifficulty
    NumCpus = 2
    ConfiguredVerifiers = 2
    ScaleVerifiers = TRUE
    ScaleThreshold = 20
    ReadjustmentPeriod = 1
    UsizeBits = 3
    CreateOutcomes = {"Ok"}
    DrainMax = {1}
    ClientAcks = FALSE
    AdminOps = {"gc", "flush"}
    MaxImports = 1
    MaxAdminCalls = 2
    SendFails = FALSE

SPECIFICATION FairSpec
PROPERTY FlushReturns
CHECK_DEADLOCK FALSE
