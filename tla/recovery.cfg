\* A recovery request from its notification to the replacement passkey.
SPECIFICATION Spec
SYMMETRY Symmetry
INVARIANTS TypeOK RevokedBeforeReplacement ReplacementIsGood ApprovedSinceReset
INVARIANTS VerifiedMeansPresented NewestTapStored ActiveExchangeIsWhole OperationIsAlive
PROPERTIES FailureNeedsNewRound TerminalStaysTerminal
CHECK_DEADLOCK FALSE
CONSTANTS
    w1 = w1
    w2 = w2
    k1 = k1
    k2 = k2
    Worker = {w1, w2}
    Key = {k1, k2}
    MaxAttempts = 2
    MaxTaps = 2
    MaxPresentationRetries = 2
    MaxVerificationFailures = 1
    None = None
    Events = {"crash", "graph-fault", "service-fault", "mail-fault", "session-fault",
              "admin", "escalation", "request-deadline", "exchange-deadline",
              "new-passkey", "storage-fault"}
    GroupCheckDefined = TRUE
