\* Liveness: the consumer drains without acknowledging; one admin call: flush, drop or is_empty.
CONSTANTS
    b1 = b1  b2 = b2  b3 = b3  g = g  r1 = r1  r2 = r2  r3 = r3
    Hashes <- MCHashes
    Genesis = g
    Parent <- MCParent
    RawHash <- MCRawHash
    Difficulty <- MCDifficulty
    NumCpus = 2
    ConfiguredVerifiers = 2
    ScaleVerifiers = FALSE
    ScaleThreshold = 20
    ReadjustmentPeriod = 1
    UsizeBits = 3
    CreateOutcomes = {"Ok"}
    DrainMax = {1}
    ClientAcks = FALSE
    AdminOps = {"flush", "drop", "is_empty"}
    MaxImports = 2
    MaxAdminCalls = 1
    SendFails = FALSE

SPECIFICATION FairSpec
PROPERTY ItemsDrained
PROPERTY FlushReturns
PROPERTY ShutdownCompletes
PROPERTY EmptyAnswerSound
CHECK_DEADLOCK FALSE
