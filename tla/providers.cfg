SPECIFICATION MCSpec
CONSTANTS
    Searches = {s1, s2}
    Providers = {"bitcoin", "bitcoin-tx", "bitcoin-labels", "securitytrails", "ipinfo", "hibp", "pwned-passwords"}
    Interval = 1
    RequestTimeout = 2
    Investigation = 3
    RetryDelays = {0, 2}
    PageSize = 2
    MaxPages = 2
    MaxTransactions = 3
    Pages <- MCPages
    MaxBreaches = 2
    Ranges <- MCRanges
    Target = "t"
    MaxMoney = 3
    MaxIO = 2
    WireOutputs <- MCOutputs
    WireInputs <- MCInputs
    Fees <- MCFees
INVARIANTS
    TypeOK
    AnswersHonest
    EvidenceSound
PROPERTIES
    PacingKept
    SearchesReturn
