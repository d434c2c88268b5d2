--------------------------- MODULE OnboardingService ---------------------------
(***************************************************************************)
(* The update functions of src/services/onboarding-v2-service.js, as pure   *)
(* operators on the stored request row r.  updateRequest reads the row,     *)
(* checks the allowed states, applies one of these functions and writes the *)
(* result under the row's etag; here that is one step.  For every operation *)
(* Op, OpAllowed is the conjunction of its allowed states and of the checks *)
(* its callback makes, and Op is the row it writes.                         *)
(*                                                                         *)
(* Abstracted: times (the caller says whether a deadline has passed),       *)
(* hashes and secrets (named by what they open), display names, failure     *)
(* codes, audit rows.                                                       *)
(***************************************************************************)
EXTENDS Naturals

CONSTANTS
    Worker,                   \* handler executions, which name TAP operations
    Approver,                 \* {"direct-manager", "skip-manager"}
    Key,                      \* FIDO2 method ids the employee may have
    MaxAttempts,              \* bound: exchanges of each kind ever started
    MaxTaps,                  \* bound: Temporary Access Passes ever created
    MaxIssuanceRetries,       \* config: maxIssuanceRetries
    MaxPresentationRetries,   \* config: maxPresentationRetries
    MaxVerificationFailures,  \* config: maxVerificationFailures
    MaxInviteAttempts,        \* config: maxEmployeeInviteConfirmAttempts
    None                      \* an undefined field of the row

ASSUME BoundsAssumption ==
    /\ MaxAttempts \in Nat
    /\ MaxTaps \in Nat

ASSUME LimitsAssumption ==
    /\ MaxIssuanceRetries \in Nat
    /\ MaxPresentationRetries \in Nat
    /\ MaxVerificationFailures \in Nat \ {0}
    /\ MaxInviteAttempts \in Nat \ {0}

ASSUME ApproverAssumption == Approver = {"direct-manager", "skip-manager"}

ASSUME NoneAssumption == None \notin Worker \cup Approver \cup Key

-----------------------------------------------------------------------------
(* The row *)

TerminalStates ==
    {"manager-rejected", "admin-cancelled", "complete", "expired", "locked"}

States == TerminalStates \cup
    {"requested", "manager-notified", "employee-invited", "manager-approved",
     "credential-issued", "credential-presented", "verified", "tap-issued",
     "passkey-registered"}

Terminal(r) == r.state \in TerminalStates

TokenStatus == {"none", "active", "redeemed", "revoked"}

\* An attempt number stands for the random callback state of an exchange and for
\* the request id the Verified ID service returns for it; 0 is "undefined".
Attempt == 1 .. MaxAttempts

Exchange == [status : {"none", "creating", "active", "retrieved", "error", "done"},
             state : 0 .. MaxAttempts,
             requestId : 0 .. MaxAttempts,
             retryCount : Nat]

NoExchange == [status |-> "none", state |-> 0, requestId |-> 0, retryCount |-> 0]

\* A token is named by the approver it was mailed to.
Row ==
    [state : States,
     managerTokenStatus : TokenStatus,
     skipManager : BOOLEAN,               \* skipManagerObjectId is set
     managerAuth : Approver \cup {None},    \* whose browser holds managerAuthState
     managerDecisionByRole : Approver \cup {None},
     employeeInviteTokenStatus : TokenStatus,
     employeeInviteTokenAttemptCount : Nat,
     issuance : Exchange,
     presentation : Exchange,
     verificationFailureCount : Nat,
     tapStatus : {"none", "creating", "issued", "error"},
     tapOperationId : Worker \cup {None},
     tapProtected : 0 .. MaxTaps,           \* which pass is stored; 0: none
     passkeyBaseline : SUBSET Key,
     passkeyMethodId : Key \cup {None}]

BlankRow ==
    [state |-> "requested",
     managerTokenStatus |-> "none",
     skipManager |-> FALSE,
     managerAuth |-> None,
     managerDecisionByRole |-> None,
     employeeInviteTokenStatus |-> "none",
     employeeInviteTokenAttemptCount |-> 0,
     issuance |-> NoExchange,
     presentation |-> NoExchange,
     verificationFailureCount |-> 0,
     tapStatus |-> "none",
     tapOperationId |-> None,
     tapProtected |-> 0,
     passkeyBaseline |-> {},
     passkeyMethodId |-> None]

\* createRequest: the employee's own request, waiting for the manager's mail.
RequestedRow == [BlankRow EXCEPT !.managerTokenStatus = "active"]

\* createManagerInitiatedRequest: approved by its creator, waiting for the employee.
InvitedRow == [BlankRow EXCEPT !.state = "employee-invited",
                               !.employeeInviteTokenStatus = "active"]

-----------------------------------------------------------------------------
(* Expiry, notification, escalation *)

\* loadRequest: the test on the row it read ...
LapsedOnLoad(r, lifetimeOver) == ~Terminal(r) /\ lifetimeOver

\* ... and the update it then makes, which allows every state.
Expire(r) == [r EXCEPT !.state = "expired"]

MarkManagerNotifiedAllowed(r) == r.state = "requested"

\* Faulty: the state's name is misspelt.
MarkManagerNotifiedMisspelt(r) == [r EXCEPT !.state = "manager_notified"]

MarkManagerNotified(r) == [r EXCEPT !.state = "manager-notified"]

EscalateAllowed(r) == r.state = "manager-notified"

\* Escalation makes a new token for the skip manager and puts the one status
\* that both tokens share back to active.
EscalateToSkipManager(r) ==
    [r EXCEPT !.skipManager = TRUE,
              !.managerTokenStatus = "active",
              !.managerAuth = None]

-----------------------------------------------------------------------------
(* The manager's token, sign-in and decision *)

\* activateManagerToken: a lookup by either hash, then a comparison with the
\* direct manager's hash alone.
ActivateManagerTokenAllowed(r, token, tokenOver) ==
    /\ r.state = "manager-notified"
    /\ r.managerTokenStatus = "active"
    /\ ~tokenOver
    /\ token = "direct-manager"

\* The token hash in the pre-auth session equals one of the row's two hashes.
TokenKnown(r, token) ==
    \/ token = "direct-manager"
    \/ token = "skip-manager" /\ r.skipManager

BeginManagerSignInAllowed(r, token) ==
    /\ r.state = "manager-notified"
    /\ r.managerTokenStatus = "active"
    /\ TokenKnown(r, token)

BeginManagerSignIn(r, browser) == [r EXCEPT !.managerAuth = browser]

\* The flow's own deadline (managerAuthExpiresAt) is left out: that only adds callbacks
\* that arrive later than the code would take them.
LoadManagerAuthFlowAllowed(r, browser) ==
    /\ r.managerAuth = browser
    /\ r.state = "manager-notified"
    /\ r.managerTokenStatus = "active"

\* approver is the stored managerObjectId or the stored skipManagerObjectId.
EligibleApprover(r, approver) ==
    \/ approver = "direct-manager"
    \/ approver = "skip-manager" /\ r.skipManager

\* Faulty: the token's status is not checked.
RedeemWhateverStatus(r, approver, tokenOver) ==
    /\ r.state = "manager-notified"
    /\ ~tokenOver
    /\ EligibleApprover(r, approver)

\* The token is the one the sign-in was begun with.  Activation admits only the
\* direct manager's, whose hash the row keeps, so the comparison always succeeds.
RedeemManagerTokenAllowed(r, approver, tokenOver) ==
    /\ r.state = "manager-notified"
    /\ r.managerTokenStatus = "active"
    /\ ~tokenOver
    /\ EligibleApprover(r, approver)

RedeemManagerToken(r) ==
    [r EXCEPT !.managerTokenStatus = "redeemed", !.managerAuth = None]

\* Faulty: a session is enough to decide.
DecideWithoutRedemption(r, approver) ==
    r.state = "manager-notified" /\ EligibleApprover(r, approver)

DecideAllowed(r, approver) ==
    /\ r.state = "manager-notified"
    /\ r.managerTokenStatus = "redeemed"
    /\ EligibleApprover(r, approver)

Decide(r, approver, decision) ==
    [r EXCEPT !.state = IF decision = "approve"
                        THEN "manager-approved" ELSE "manager-rejected",
              !.managerDecisionByRole = approver]

-----------------------------------------------------------------------------
(* The employee's invitation *)

InviteOpen(r, tokenOver) ==
    /\ r.state = "employee-invited"
    /\ r.employeeInviteTokenStatus = "active"
    /\ ~tokenOver

ConfirmEmployeeInvite(r) ==
    [r EXCEPT !.state = "manager-approved",
              !.employeeInviteTokenStatus = "redeemed",
              !.employeeInviteTokenAttemptCount = @ + 1]

RecordEmployeeInviteFailure(r) ==
    LET attempts == r.employeeInviteTokenAttemptCount + 1
    IN  [r EXCEPT !.state = IF attempts >= MaxInviteAttempts
                            THEN "locked" ELSE "employee-invited",
                  !.employeeInviteTokenAttemptCount = attempts]

-----------------------------------------------------------------------------
(* The administrator's reset *)

AdminActions == {"cancel", "restart", "unblock"}

Revoked(status) == IF status = "none" THEN "none" ELSE "revoked"

\* Faulty: the etag is not compared.
AdminResetWithoutEtag(r, etagMatches) == ~Terminal(r)

\* Faulty: terminal requests are reset too.
AdminResetWithoutTerminalCheck(r, etagMatches) == etagMatches

\* The update checks the etag the administrator read, then the state.
AdminResetAllowed(r, etagMatches) == etagMatches /\ ~Terminal(r)

AdminResetRequest(r, action) ==
    LET cancel == action = "cancel"
        cleared(x) == [NoExchange EXCEPT !.retryCount =
                          IF cancel THEN x.retryCount ELSE 0]
    IN  [r EXCEPT
            !.state = IF cancel THEN "admin-cancelled" ELSE "requested",
            !.managerTokenStatus = Revoked(@),
            !.employeeInviteTokenStatus = Revoked(@),
            !.managerAuth = None,
            !.issuance = cleared(@),
            !.presentation = cleared(@),
            !.verificationFailureCount = IF cancel THEN @ ELSE 0,
            !.tapStatus = "none",
            !.tapOperationId = None,
            !.tapProtected = 0]

-----------------------------------------------------------------------------
(* Exchanges with the Verified ID service *)

\* issuanceActive and presentationActive.
ExchangeActive(x, windowOver) ==
    x.status \in {"creating", "active", "retrieved"} /\ ~windowOver

Begun(x, n) == [x EXCEPT !.status = "creating",
                         !.state = n,
                         !.retryCount = @ + 1]

\* Faulty: whose creation it was is not checked.
OwnsAnyCreation(x, n) == x.status = "creating"

OwnsCreation(x, n) == x.status = "creating" /\ x.state = n

Attached(x, n) == [x EXCEPT !.status = "active", !.requestId = n]

\* findByIssuanceCorrelation and findByPresentationCorrelation.
Correlated(x, n) == x.requestId = n /\ x.state = n

\* Faulty: one attempt too many.
BeginIssuanceOffByOne(r, windowOver) ==
    /\ r.state = "manager-approved"
    /\ ~ExchangeActive(r.issuance, windowOver)
    /\ r.issuance.retryCount <= MaxIssuanceRetries

BeginIssuanceAllowed(r, windowOver) ==
    /\ r.state = "manager-approved"
    /\ ~ExchangeActive(r.issuance, windowOver)
    /\ r.issuance.retryCount < MaxIssuanceRetries

BeginIssuance(r, n) == [r EXCEPT !.issuance = Begun(@, n)]

AttachIssuanceAllowed(r, n) ==
    r.state = "manager-approved" /\ OwnsCreation(r.issuance, n)

AttachIssuance(r, n) == [r EXCEPT !.issuance = Attached(@, n)]

FailIssuanceAllowed(r, n) ==
    r.state = "manager-approved" /\ r.issuance.state = n

FailIssuance(r) == [r EXCEPT !.issuance.status = "error"]

\* handleIssuanceCallback: the checks on the row it looked up ...
IssuanceCallbackAccepted(r, n) ==
    /\ Correlated(r.issuance, n)
    /\ r.state = "manager-approved"
    /\ r.issuance.status \in {"active", "retrieved"}

\* ... and the update, which checks the state alone.
IssuanceCallbackAllowed(r) == r.state = "manager-approved"

\* Faulty: a scanned code counts as an issued credential.
IssuanceCallbackTooEarly(r, status) ==
    IF status = "error" THEN [r EXCEPT !.issuance.status = "error"]
    ELSE [r EXCEPT !.state = "credential-issued", !.issuance.status = "done"]

IssuanceCallback(r, status) ==
    CASE status = "retrieved" -> [r EXCEPT !.issuance.status = "retrieved"]
      [] status = "error"     -> [r EXCEPT !.issuance.status = "error"]
      [] status = "success"   -> [r EXCEPT !.state = "credential-issued",
                                           !.issuance.status = "done"]

BeginPresentationAllowed(r, windowOver) ==
    /\ r.state \in {"credential-issued", "credential-presented"}
    /\ ~ExchangeActive(r.presentation, windowOver)
    /\ r.presentation.retryCount < MaxPresentationRetries

BeginPresentation(r, n) ==
    [r EXCEPT !.state = "credential-issued", !.presentation = Begun(@, n)]

AttachPresentationAllowed(r, n) ==
    r.state = "credential-issued" /\ OwnsCreation(r.presentation, n)

AttachPresentation(r, n) == [r EXCEPT !.presentation = Attached(@, n)]

FailPresentationAllowed(r, n) ==
    r.state = "credential-issued" /\ r.presentation.state = n

FailPresentation(r) == [r EXCEPT !.presentation.status = "error"]

\* Faulty: the state is not checked again when the update is made.
HandlePresentationRetrievedAnyState(r) == ~Terminal(r)

HandlePresentationRetrievedAllowed(r) == r.state = "credential-issued"

HandlePresentationRetrieved(r) ==
    [r EXCEPT !.state = "credential-presented", !.presentation.status = "retrieved"]

HandlePresentationErrorAllowed(r) ==
    r.state \in {"credential-issued", "credential-presented"}

HandlePresentationError(r) ==
    [r EXCEPT !.state = "credential-issued", !.presentation.status = "error"]

RecordVerificationFailureAllowed(r) == r.state = "credential-presented"

\* Faulty: the handler goes on as if the credential had passed.
RecordVerificationFailureAsSuccess(r) == [r EXCEPT !.state = "verified"]

RecordVerificationFailure(r) ==
    LET failures == r.verificationFailureCount + 1
    IN  [r EXCEPT !.state = IF failures >= MaxVerificationFailures
                            THEN "locked" ELSE "credential-presented",
                  !.verificationFailureCount = failures]

MarkVerifiedAllowed(r) == r.state = "credential-presented"

MarkVerified(r) == [r EXCEPT !.state = "verified", !.presentation.status = "done"]

-----------------------------------------------------------------------------
(* The Temporary Access Pass and the passkey *)

\* issueTapOnce: the claim, the record of the result and the record of an error.
\* Faulty: an operation under way does not keep a second one from starting.
ClaimTapTwice(r) == r.state = "verified"

ClaimTapAllowed(r) == r.state = "verified" /\ r.tapStatus # "creating"

ClaimTap(r, op) == [r EXCEPT !.tapStatus = "creating", !.tapOperationId = op]

RecordTapAllowed(r, op) ==
    /\ r.state = "verified"
    /\ r.tapOperationId = op
    /\ r.tapStatus = "creating"

\* Faulty: the methods registered before are not kept.
RecordTapWithoutBaseline(r, tap, baseline) ==
    [r EXCEPT !.state = "tap-issued",
              !.tapStatus = "issued",
              !.tapProtected = tap]

RecordTap(r, tap, baseline) ==
    [r EXCEPT !.state = "tap-issued",
              !.tapStatus = "issued",
              !.tapProtected = tap,
              !.passkeyBaseline = baseline]

\* Faulty: the error is recorded only in a state it cannot occur in.
FailTapInWrongState(r, op) == r.state = "tap-issued" /\ r.tapOperationId = op

FailTapAllowed(r, op) == r.state = "verified" /\ r.tapOperationId = op

FailTap(r) == [r EXCEPT !.tapStatus = "error"]

TakeTapAllowed(r) == r.state = "tap-issued" /\ r.tapProtected # 0

\* Faulty: the pass is not cleared.
TakeTapAndKeep(r) == r

TakeTapForDisplay(r) == [r EXCEPT !.tapProtected = 0]

NewMethods(r, methods) == methods \ r.passkeyBaseline

ConfirmPasskeyAllowed(r, methods) ==
    r.state = "tap-issued" /\ NewMethods(r, methods) # {}

ConfirmPasskey(r, key) ==
    [r EXCEPT !.state = "passkey-registered", !.passkeyMethodId = key]

\* Faulty: the state is not checked again when the update is made.
CompleteAnyOpenState(r) == ~Terminal(r)

CompleteAllowed(r) == r.state = "passkey-registered"

Complete(r) ==
    [r EXCEPT !.state = "complete",
              !.issuance.state = 0,
              !.presentation.state = 0,
              !.passkeyBaseline = {}]
=============================================================================
