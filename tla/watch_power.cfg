SPECIFICATION Spec
CONSTANTS
    NoEvidence = NoEvidence
    NoAnswer = NoAnswer
    NTargets = 1
    Sources = {s1, s2}
    Answers <- Silent
    LogCap = 2
    Failures = {"power"}
    MaxMoves = 3
    MaxFailures = 2
INVARIANTS
    SyncedBeforeReplaced
