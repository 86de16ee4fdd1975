CONSTANTS
    HTTPSessions = {h1}
    ConsumerSessions = {}
    WorkerSessions = {}
    Identifiers <- MCIdentifiers
    Wallets <- MCWallets
    Commands <- WinCommands
    MessageIDs = {}
    Messages = {}
    OpenRequests <- OneWallet
    OpeningExternalID <- MCOpeningExternalID
    MaxInt64 = 9
    MaxReferenceAttempts = 1
    MaxAttempts = 4
    MaxFailures = 0
    None = None
SPECIFICATION Spec
INVARIANTS RefusedOnlyByReversal
CHECK_DEADLOCK FALSE
