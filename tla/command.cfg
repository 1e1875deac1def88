SPECIFICATION Spec
CONSTANTS
    Lines <- MCLines
    FileTargets <- MCFileTargets
    SearchRows <- MCSearchRows
    OldDirs = {"output"}
    OldFiles <- MCOldFiles
    MaxFaults = 2
    MaxResults = 3
    MaxSources = 2
    MaxRecords = 2
    MaxClaims = 2
    MaxRefs = 2
    MaxTotalRefs = 3
    Titles = {"a", "b"}
    Prose <- MCProse
    NoReport = NoReport
CHECK_DEADLOCK FALSE
INVARIANTS
    TypeOK
    OldOrNew
    ExitHonest
    ReportFaithful
