\* The way to approval: notification, invitation, sign-in, escalation, reset.
SPECIFICATION Spec
SYMMETRY Symmetry
INVARIANTS TypeOK RedeemedOncePerArming
PROPERTIES DecisionFollowsRedemption ResetActsOnWhatWasSeen TerminalStaysTerminal
CHECK_DEADLOCK FALSE
CONSTANTS
    w1 = w1
    w2 = w2
    Worker = {w1, w2}
    Approver = {"direct-manager", "skip-manager"}
    Key = {}
    MaxAttempts = 0
    MaxTaps = 0
    MaxIssuanceRetries = 1
    MaxPresentationRetries = 1
    MaxVerificationFailures = 2
    MaxInviteAttempts = 2
    None = None
    Events = {"crash", "mail-fault", "session-fault", "graph-fault", "admin",
              "escalation", "invitation", "request-deadline", "token-deadline",
              "forwarded-link"}
    GroupCheckDefined = TRUE
