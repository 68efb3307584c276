\* A failed send of BlockVerified leaves `signalled` set: no later completion signals again and verified blocks are never drained.
CONSTANTS
    b1 = b1  b2 = b2  b3 = b3  g = g  r1 = r1  r2 = r2  r3 = r3
    Hashes <- MCHashes
    Genesis = g
    Parent <- MCParent
    RawHash <- MCRawHash
    Difficulty <- MCDifficulty
    NumCpus = 2
    ConfiguredVerifiers = 2
    ScaleVerifiers = FALSE
    ScaleThreshold = 20
    ReadjustmentPeriod = 1
    UsizeBits = 3
    CreateOutcomes = {"Ok"}
    DrainMax = {1}
    ClientAcks = FALSE
    AdminOps = {"flush"}
    MaxImports = 1
    MaxAdminCalls = 0
    SendFails = TRUE

SPECIFICATION FairSpec
PROPERTY ItemsDrained
CHECK_DEADLOCK FALSE
