SPECIFICATION FairSpec
CONSTANTS
    NoEvidence = NoEvidence
    NoAnswer = NoAnswer
    NTargets = 2
    Sources = {s1}
    Answers <- Batches
    LogCap = 4
    Failures = {"stop", "clear"}
    MaxMoves = 3
    MaxFailures = 2
INVARIANTS
    TypeOK
    NoDuplicateChange
    LogReadable
    LogBeforeBaseline
    UninterruptedRecord
PROPERTIES
    Converges
