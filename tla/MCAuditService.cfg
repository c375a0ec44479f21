CONSTANTS
    Handler = {h1, h2, h3}
    Logs = {h1, h2, h3}
    Syncs = {h3}
    Mails = {h3}
    Capacity = 1
    None = None
SPECIFICATION FairAuditSpec
INVARIANTS NoSendOnClosed CleanEndLosesNothing OneLateWrite
PROPERTIES LogReturns ShutdownEnds
