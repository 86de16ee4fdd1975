CONSTANTS
    HTTPSessions = {h1}
    ConsumerSessions = {}
    WorkerSessions = {r1, r2}
    Identifiers <- MCIdentifiers
    Wallets <- MCWallets
    Commands <- ChainCommands
    MessageIDs = {}
    Messages = {}
    OpenRequests <- OneWallet
    OpeningExternalID <- MCOpeningExternalID
    MaxInt64 = 9
    MaxReferenceAttempts = 2
    MaxAttempts = 4
    MaxFailures = 1
    None = None
SPECIFICATION FairSpec
INVARIANTS WalletMatchesLedger ReplayAvailable WalletEventsMirrorLedger NoLockCycle
PROPERTIES TerminalIsFinal NotFoundIsTrue PendingReferenceResolves ImplementsContract
CHECK_DEADLOCK FALSE
