SPECIFICATION FairSpec
CONSTANTS
    NSources = 3
    BatchSize = 2
    MaxRows = 3
INVARIANTS
    TypeOK
    EmitMeansAccepted
    NilMeansComplete
PROPERTIES
    ImplementsAbstract
    SearchReturns
