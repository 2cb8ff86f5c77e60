\* Two callers that update different channels of one notification.
SPECIFICATION StatusSpec
CONSTANTS
    n1 = n1
    p1 = p1
    p2 = p2
    None = None
    Ids <- OneId
    Procs <- TwoCallers
    Channels = {"email", "sms"}
    Receipts = {"completed", "failed"}
PROPERTY UpdatesAreIsolated
