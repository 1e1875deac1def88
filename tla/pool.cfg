SPECIFICATION FairSpec
CONSTANTS
    NSites = 4
    Workers = {w1, w2, w3}
INVARIANTS
    TypeOK
    NilMeansEverySite
PROPERTIES
    SilentAfterRefusal
    SearchReturns
