\* From the proof of identity to the new passkey.
SPECIFICATION Spec
SYMMETRY Symmetry
INVARIANTS OneTapOperation NewestTapStored NotRetainedAfterDisplay PasskeyIsNew
PROPERTIES KeepsLifecycle RestartAwaitsAdministrator
CHECK_DEADLOCK FALSE
CONSTANTS
    w1 = w1
    w2 = w2
    k1 = k1
    k2 = k2
    Worker = {w1, w2}
    Approver = {"direct-manager", "skip-manager"}
    Key = {k1, k2}
    MaxAttempts = 1
    MaxTaps = 2
    MaxIssuanceRetries = 1
    MaxPresentationRetries = 1
    MaxVerificationFailures = 2
    MaxInviteAttempts = 2
    None = None
    Events = {"graph-fault", "new-passkey", "crash", "request-deadline", "admin",
              "storage-fault"}
    GroupCheckDefined = TRUE
