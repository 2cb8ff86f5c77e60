\* Two processes that crash, a broker that doubles messages, foreign messages;
\* nobody but the owner of the partition writes a row.
SPECIFICATION FairSpec
CONSTANTS
    n1 = n1
    n2 = n2
    w1 = w1
    w2 = w2
    h1 = h1
    None = None
    Junk = Junk
    Nobody = Nobody
    Ids <- TwoIds
    Keys <- TwoIds
    Workers <- TwoWorkers
    Hooks <- NoHooks
    Procs <- TwoWorkers
    Channels = {"email", "fax"}
    Recipients = {"alice"}
    Request <- TwiceAndNobody
    Receipts = {}
    Supported <- Adapters
    Flaky = {}
    FaultKinds = {"crash", "produce", "junk"}
    MaxFaults = 2
INVARIANTS
    RepeatsNeedFaults
    RowPrecedesMessage
    CommittedIsFinal
    MetricsExact
PROPERTIES
    ImplementsLedger
    ImplementsPromise
    OwedIsDelivered
    AcceptedIsDelivered
    StatusSettles
    StatusAdvances
CHECK_DEADLOCK FALSE
