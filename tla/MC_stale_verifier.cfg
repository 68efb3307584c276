\* A verifier that claimed a block before clear() fills the placeholder of its re-imported copy, which its own verifier fills again.
CONSTANTS
    b1 = b1  b2 = b2  b3 = b3  g = g  r1 = r1  r2 = r2  r3 = r3
    Hashes <- MCPair
    Genesis = g
    Parent <- MCPairParent
    RawHash <- MCPairRawHash
    Difficulty <- MCPairDifficulty
    NumCpus = 3
    ConfiguredVerifiers = 3
    ScaleVerifiers = FALSE
    ScaleThreshold = 20
    ReadjustmentPeriod = 1
    UsizeBits = 3
    CreateOutcomes = {"Ok"}
    DrainMax = {1}
    ClientAcks = FALSE
    AdminOps = {"clear"}
    MaxImports = 3
    MaxAdminCalls = 1
    SendFails = FALSE

SPECIFICATION Spec
INVARIANT VerifyingSizeMatches
CHECK_DEADLOCK FALSE
