CONSTANTS
    HTTPSessions = {h1}
    ConsumerSessions = {}
    WorkerSessions = {r1}
    Identifiers <- MCIdentifiers
    Wallets <- MCWallets
    Commands <- RuleCommands
    MessageIDs = {}
    Messages = {}
    OpenRequests <- OneWallet
    OpeningExternalID <- MCOpeningExternalID
    MaxInt64 = 5
    MaxReferenceAttempts = 1
    MaxAttempts = 5
    MaxFailures = 0
    None = None
SPECIFICATION Spec
INVARIANTS TypeOK ExactlyOnceMovement ReversalSound
PROPERTIES ImplementsContract
CHECK_DEADLOCK FALSE
