\* Auto-scaling and clear(): ScaleThreshold lowered to 1 so every branch of the scaling target is reached.
CONSTANTS
    b1 = b1  b2 = b2  b3 = b3  g = g  r1 = r1  r2 = r2  r3 = r3
    Hashes <- MCHashes
    Genesis = g
    Parent <- MCParent
    RawHash <- MCRawHash
    Difficulty <- MCDifficulty
    NumCpus = 2
    ConfiguredVerifiers = 2
    ScaleVerifiers = TRUE
    ScaleThreshold = 1
    ReadjustmentPeriod = 2
    UsizeBits = 3
    CreateOutcomes = {"Ok"}
    DrainMax = {1}
    ClientAcks = FALSE
    AdminOps = {"gc", "clear"}
    MaxImports = 2
    MaxAdminCalls = 3
    SendFails = FALSE

SPECIFICATION Spec
INVARIANT TypeOK
INVARIANT OrderPreserved
PROPERTY Refines
CHECK_DEADLOCK FALSE
