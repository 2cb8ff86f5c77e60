\* Two processes, two notifications; nobody but the owner of the partition writes
\* a row.
SPECIFICATION FairSpec
CONSTANTS
    n1 = n1
    n2 = n2
    w1 = w1
    w2 = w2
    h1 = h1
    None = None
    Junk = Junk
    Nobody = Nobody
    Ids <- TwoIds
    Keys <- TwoIds
    Workers <- TwoWorkers
    Hooks <- NoHooks
    Procs <- TwoWorkers
    Channels = {"email", "fax"}
    Recipients = {"alice"}
    Request <- FaxAndNobody
    Receipts = {}
    Supported <- Adapters
    Flaky = {}
    FaultKinds = {"crash", "db", "produce", "junk"}
    MaxFaults = 3
    MaxAttempts = 3
    NoRecipients <- SecondId
INVARIANTS
    TypeOK
    LossIsVisible
    RepeatsNeedFaults
    RowsConsistent
PROPERTIES
    StatusSettles
    DueIsPassed
    StatusAdvances
CHECK_DEADLOCK FALSE
