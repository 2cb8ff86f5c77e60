\* One database error in the middle of the work.
SPECIFICATION Spec
CONSTANTS
    n1 = n1
    n2 = n2
    w1 = w1
    w2 = w2
    h1 = h1
    None = None
    Junk = Junk
    Nobody = Nobody
    Ids <- OneId
    Keys <- OneId
    Workers <- OneWorker
    Hooks <- NoHooks
    Procs <- OneWorker
    Channels = {"email"}
    Recipients = {"alice"}
    Request <- EmailOnly
    Receipts = {}
    Supported <- Adapters
    Flaky = {}
    FaultKinds = {"db"}
    MaxFaults = 1
    MaxAttempts = 2
    NoRecipients = {}
INVARIANTS
    CommittedIsDelivered
CHECK_DEADLOCK FALSE
