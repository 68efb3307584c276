\* clear() during import() leaves a hash in processing with total_difficulty zeroed; acknowledging it underflows U256.
CONSTANTS
    b1 = b1  b2 = b2  b3 = b3  g = g  r1 = r1  r2 = r2  r3 = r3
    Hashes <- MCHashes
    Genesis = g
    Parent <- MCParent
    RawHash <- MCRawHash
    Difficulty <- MCDifficulty
    NumCpus = 2
    ConfiguredVerifiers = 2
    ScaleVerifiers = FALSE
    ScaleThreshold = 20
    ReadjustmentPeriod = 1
    UsizeBits = 3
    CreateOutcomes = {"Ok"}
    DrainMax = {1, 3}
    ClientAcks = TRUE
    AdminOps = {"clear"}
    MaxImports = 1
    MaxAdminCalls = 1
    SendFails = FALSE

SPECIFICATION Spec
INVARIANT NoPanic
CHECK_DEADLOCK FALSE
