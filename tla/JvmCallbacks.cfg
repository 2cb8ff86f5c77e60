\* Two processes, and a provider that reports on any channel at any moment; the
\* adapter of sms may throw, and workers may lose the partition in mid-message.
SPECIFICATION Spec
CONSTANTS
    n1 = n1
    n2 = n2
    w1 = w1
    w2 = w2
    h1 = h1
    None = None
    Junk = Junk
    Nobody = Nobody
    Ids <- OneId
    Keys <- OneId
    Workers <- TwoWorkers
    Hooks <- OneHook
    Procs <- TwoWorkersOneHook
    Channels = {"Email", "sms"}
    Recipients = {"alice", "bob"}
    Request <- MixedCase
    Receipts = {"COMPLETED"}
    Supported <- Adapters
    Flaky = {"sms"}
    FaultKinds = {"crash", "rebalance", "db", "junk"}
    MaxFaults = 1
    MaxAttempts = 2
    NoRecipients = {}
INVARIANTS
    CompletedChannelsAreTrue
PROPERTIES
    ImplementsLedger
CHECK_DEADLOCK FALSE
