\* The worker is done before the row is there; nothing fails.
SPECIFICATION FairSpec
CONSTANTS
    n1 = n1
    n2 = n2
    w1 = w1
    w2 = w2
    h1 = h1
    None = None
    Junk = Junk
    Nobody = Nobody
    Ids <- OneId
    Keys <- OneId
    Workers <- OneWorker
    Hooks <- NoHooks
    Procs <- OneWorker
    Channels = {"email"}
    Recipients = {"alice"}
    Request <- EmailOnly
    Receipts = {}
    Supported <- Adapters
    Flaky = {}
    FaultKinds = {}
    MaxFaults = 0
    Reporting = {}
PROPERTIES
    StatusSettles
CHECK_DEADLOCK FALSE
