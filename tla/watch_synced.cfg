SPECIFICATION Spec
CONSTANTS
    NoEvidence = NoEvidence
    NoAnswer = NoAnswer
    NTargets = 1
    Sources = {s1}
    Answers <- OneValued
    LogCap = 2
    Failures = {"stop"}
    MaxMoves = 3
    MaxFailures = 1
INVARIANT SyncedBeforeReplaced
