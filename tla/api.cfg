SPECIFICATION FairSpec
CONSTANTS
    Requests = {r1, r2}
    MaxConcurrent = 2
    Permits = 1
    MaxRows = 1
    ProviderRows = {"ok", "timeout"}
INVARIANTS
    TypeOK
    SlotsMatch
    EndedClean
    OkMeansComplete
    CloseAfterSearches
PROPERTIES
    Stops
    HandlersFinish
