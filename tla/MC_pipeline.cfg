\* Two verifiers, imports in any order, acknowledgements, flush.
CONSTANTS
    b1 = b1  b2 = b2  b3 = b3  g = g  r1 = r1  r2 = r2  r3 = r3
    Hashes <- MCHashes
    Genesis = g
    Parent <- MCParent
    RawHash <- MCRawHash
    Difficulty <- MCDifficulty
    NumCpus = 2
    ConfiguredVerifiers = 2
    ScaleVerifiers = FALSE
    ScaleThreshold = 20
    ReadjustmentPeriod = 1
    UsizeBits = 3
    CreateOutcomes = {"Ok", "TemporarilyInvalid", "InvalidBody", "Other"}
    DrainMax = {1, 3}
    ClientAcks = TRUE
    AdminOps = {"flush"}
    MaxImports = 3
    MaxAdminCalls = 1
    SendFails = FALSE

SPECIFICATION Spec
INVARIANT OrderPreserved
INVARIANT ProcessingCovers
INVARIANT TotalDifficultyMatches
INVARIANT ParentsMatch
INVARIANT SizesMatch
PROPERTY Refines
CHECK_DEADLOCK FALSE
