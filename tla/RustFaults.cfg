\* Two processes, two notifications, every kind of fault, and a provider that
\* reports on sms of the first at any moment; the adapter of sms may fail.
SPECIFICATION Spec
CONSTANTS
    n1 = n1
    n2 = n2
    w1 = w1
    w2 = w2
    h1 = h1
    None = None
    Junk = Junk
    Nobody = Nobody
    Ids <- TwoIds
    Keys <- TwoIds
    Workers <- TwoWorkers
    Hooks <- OneHook
    Procs <- TwoWorkersOneHook
    Channels = {"email", "sms"}
    Recipients = {"alice"}
    Request <- EmailAndSms
    Receipts = {"COMPLETED"}
    Supported <- Adapters
    Flaky = {"sms"}
    FaultKinds = {"crash", "rebalance", "db", "produce", "disconnect", "junk"}
    MaxFaults = 1
    Reporting <- SmsOfFirst
INVARIANTS
    TypeOK
    OneLossPerCrash
    NoneSkippedAfterBase
    CompletedIsTrue
    RowsConsistent
    MetricsExact
SYMMETRY WorkerSymmetry
CHECK_DEADLOCK FALSE
