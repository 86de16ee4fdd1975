CONSTANTS
    HTTPSessions = {h1, h2}
    ConsumerSessions = {c1, c2}
    WorkerSessions = {}
    Identifiers <- MCIdentifiers
    Wallets <- MCWallets
    Commands <- ContentionCommands
    MessageIDs = {"m1"}
    Messages <- ContentionMessages
    OpenRequests <- TwoWallets
    OpeningExternalID <- MCOpeningExternalID
    MaxInt64 = 4
    MaxReferenceAttempts = 1
    MaxAttempts = 4
    MaxFailures = 1
    None = None
SYMMETRY Symmetry
SPECIFICATION Spec
INVARIANTS TypeOK SnapshotCurrent ExactlyOnceMovement OneRowPerIdentity ConflictIsReal RepliesAreDurable InboxAtomic NoLockCycle
PROPERTIES OutboxOrder ImplementsContract
CHECK_DEADLOCK FALSE
