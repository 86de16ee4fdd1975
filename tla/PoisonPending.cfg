CONSTANTS
    HTTPSessions = {h1}
    ConsumerSessions = {}
    WorkerSessions = {r1}
    Identifiers <- MCIdentifiers
    Wallets <- MCWallets
    Commands <- ReferenceCommands
    MessageIDs = {}
    Messages = {}
    OpenRequests <- OneWallet
    OpeningExternalID <- MCOpeningExternalID
    MaxInt64 = 9
    MaxReferenceAttempts = 2
    MaxAttempts = 4
    MaxFailures = 0
    None = None
SPECIFICATION FairSpec
PROPERTIES PendingReferenceResolves
CHECK_DEADLOCK FALSE
