CONSTANTS
    HTTPSessions = {h1}
    ConsumerSessions = {}
    WorkerSessions = {r1, r2}
    Identifiers <- MCIdentifiers
    Wallets <- MCWallets
    Commands <- ChainCommands
    MessageIDs = {}
    Messages = {}
    OpenRequests <- OneWallet
    OpeningExternalID <- MCOpeningExternalID
    MaxInt64 = 9
    MaxReferenceAttempts = 1
    MaxAttempts = 4
    MaxFailures = 0
    None = None
SPECIFICATION Spec
PROPERTIES NotResolvedIsTrue
CHECK_DEADLOCK FALSE
