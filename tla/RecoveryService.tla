---------------------------- MODULE RecoveryService ----------------------------
(***************************************************************************)
(* The update functions of src/services/recovery-v2-service.js, as pure     *)
(* operators on the stored row r of a recovery request, in the form of      *)
(* OnboardingService: OpAllowed is what the update checks, Op is the row    *)
(* that it writes.                                                          *)
(***************************************************************************)
EXTENDS Naturals

CONSTANTS
    Worker,                   \* handler executions, which name TAP operations
    Key,                      \* FIDO2 method ids the employee may ever have
    MaxAttempts,              \* bound: presentations ever started
    MaxTaps,                  \* bound: Temporary Access Passes ever created
    MaxPresentationRetries,   \* config: recovery.maxPresentationRetries
    MaxVerificationFailures,  \* config: recovery.maxVerificationFailures
    None                      \* an undefined field of the row

ASSUME RecoveryBoundsAssumption ==
    /\ MaxAttempts \in Nat
    /\ MaxTaps \in Nat
    /\ MaxPresentationRetries \in Nat
    /\ MaxVerificationFailures \in Nat \ {0}

ASSUME RecoveryNoneAssumption == None \notin Worker \cup Key

-----------------------------------------------------------------------------
(* The row *)

TerminalStates == {"complete", "expired", "locked", "admin-cancelled"}

\* What follows the approval, in this order; credential-presented may go back.
Approved == {"manager-approved", "credential-presented", "verified",
             "passkeys-revoked", "tap-issued", "passkey-registered", "complete"}

States == TerminalStates \cup Approved \cup {"requested", "manager-notified"}

Terminal(r) == r.state \in TerminalStates

\* An attempt number stands for the random callback state of a presentation and
\* for the request id the Verified ID service returns for it; 0 is "undefined".
Attempt == 1 .. MaxAttempts

Row ==
    [state : States,
     managerTokenStatus : {"active", "redeemed", "revoked"},
     managerAuth : BOOLEAN,                 \* managerAuthState is set
     presentationStatus : {"none", "creating", "active", "retrieved", "error",
                           "verified"},
     presentationState : 0 .. MaxAttempts,
     presentationRequestId : 0 .. MaxAttempts,
     presentationRetryCount : Nat,
     verificationFailureCount : Nat,
     tapStatus : {"none", "creating", "issued", "error"},
     tapOperationId : Worker \cup {None},
     tapProtected : 0 .. MaxTaps,           \* which pass is stored; 0: none
     passkeyBaseline : SUBSET Key,
     passkeyMethodId : Key \cup {None}]

\* createRecoveryRequest
RequestedRow ==
    [state |-> "requested",
     managerTokenStatus |-> "active",
     managerAuth |-> FALSE,
     presentationStatus |-> "none",
     presentationState |-> 0,
     presentationRequestId |-> 0,
     presentationRetryCount |-> 0,
     verificationFailureCount |-> 0,
     tapStatus |-> "none",
     tapOperationId |-> None,
     tapProtected |-> 0,
     passkeyBaseline |-> {},
     passkeyMethodId |-> None]

-----------------------------------------------------------------------------
(* Expiry, approval, escalation *)

\* loadRequest: the test on the row it read ...
LapsedOnLoad(r, lifetimeOver) == ~Terminal(r) /\ lifetimeOver

\* ... and the update it then makes, which allows every state.
Expire(r) == [r EXCEPT !.state = "expired"]

MarkManagerNotifiedAllowed(r) == r.state = "requested"

\* Faulty: the state's name is misspelt.
MarkManagerNotifiedMisspelt(r) == [r EXCEPT !.state = "manager_notified"]

MarkManagerNotified(r) == [r EXCEPT !.state = "manager-notified"]

\* The token is looked up by either hash and compared with the direct manager's, so
\* the skip manager's is refused.  The row keeps the direct manager's hash and id,
\* and from here on the comparisons with them always succeed.
ActivateManagerTokenAllowed(r, tokenOver) ==
    /\ r.state = "manager-notified"
    /\ r.managerTokenStatus = "active"
    /\ ~tokenOver

BeginManagerSignInAllowed(r) ==
    r.state = "manager-notified" /\ r.managerTokenStatus = "active"

BeginManagerSignIn(r) == [r EXCEPT !.managerAuth = TRUE]

\* The flow's own deadline is left out, as in onboarding: that only adds callbacks.
LoadManagerAuthFlowAllowed(r) ==
    /\ r.managerAuth
    /\ r.state = "manager-notified"
    /\ r.managerTokenStatus = "active"

RedeemManagerTokenAllowed(r, tokenOver) ==
    /\ r.state = "manager-notified"
    /\ r.managerTokenStatus = "active"
    /\ ~tokenOver

RedeemManagerToken(r) ==
    [r EXCEPT !.managerTokenStatus = "redeemed", !.managerAuth = FALSE]

DecideAllowed(r) ==
    r.state = "manager-notified" /\ r.managerTokenStatus = "redeemed"

\* A rejected recovery is locked.
Decide(r, decision) ==
    [r EXCEPT !.state = IF decision = "approve" THEN "manager-approved" ELSE "locked"]

EscalateAllowed(r) == r.state = "manager-notified"

\* The one status that both tokens share is active again, also after a reset.
EscalateToSkipManager(r) ==
    [r EXCEPT !.managerTokenStatus = "active", !.managerAuth = FALSE]

-----------------------------------------------------------------------------
(* The presentation *)

BeginPresentationAllowed(r, windowOver) ==
    /\ r.state \in {"manager-approved", "credential-presented"}
    /\ r.presentationStatus \in {"creating", "active", "retrieved"} => windowOver
    /\ r.presentationRetryCount < MaxPresentationRetries

BeginPresentation(r, n) ==
    [r EXCEPT !.state = "manager-approved",
              !.presentationStatus = "creating",
              !.presentationState = n,
              !.presentationRetryCount = @ + 1]

\* Faulty: whose creation it was is not checked.
AttachAnyPresentation(r, n) ==
    r.state = "manager-approved" /\ r.presentationStatus = "creating"

AttachPresentationAllowed(r, n) ==
    /\ r.state = "manager-approved"
    /\ r.presentationStatus = "creating"
    /\ r.presentationState = n

AttachPresentation(r, n) ==
    [r EXCEPT !.presentationStatus = "active", !.presentationRequestId = n]

FailPresentationAllowed(r, n) ==
    r.state = "manager-approved" /\ r.presentationState = n

FailPresentation(r) == [r EXCEPT !.presentationStatus = "error"]

\* findByPresentationCorrelation
Correlated(r, n) == r.presentationRequestId = n /\ r.presentationState = n

HandlePresentationRetrievedAllowed(r) == r.state = "manager-approved"

HandlePresentationRetrieved(r) ==
    [r EXCEPT !.state = "credential-presented", !.presentationStatus = "retrieved"]

\* Faulty: every open request is put back.
HandlePresentationErrorAnyState(r) == ~Terminal(r)

HandlePresentationErrorAllowed(r) ==
    r.state \in {"manager-approved", "credential-presented"}

HandlePresentationError(r) ==
    [r EXCEPT !.state = "manager-approved", !.presentationStatus = "error"]

RecordVerificationFailureAllowed(r) == r.state = "credential-presented"

\* Faulty: the handler goes on as if the credential had passed.
RecordVerificationFailureAsSuccess(r) == [r EXCEPT !.state = "verified"]

RecordVerificationFailure(r) ==
    LET failures == r.verificationFailureCount + 1
    IN  [r EXCEPT !.state = IF failures >= MaxVerificationFailures
                            THEN "locked" ELSE "credential-presented",
                  !.verificationFailureCount = failures]

MarkVerifiedAllowed(r) == r.state = "credential-presented"

MarkVerified(r) == [r EXCEPT !.state = "verified", !.presentationStatus = "verified"]

-----------------------------------------------------------------------------
(* revokePasskeysAndIssueTap *)

\* Faulty: the claim may be repeated once the first one has moved the state.
ClaimRevocationTwice(r) == r.state \in {"verified", "passkeys-revoked"}

\* Faulty: an operation that failed is simply tried again.
ClaimRevocationAfterFailure(r) ==
    \/ r.state = "verified" /\ r.tapStatus \notin {"issued", "creating"}
    \/ r.state = "passkeys-revoked" /\ r.tapStatus = "error"

ClaimRevocationAllowed(r) ==
    r.state = "verified" /\ r.tapStatus \notin {"issued", "creating"}

ClaimRevocation(r, op) ==
    [r EXCEPT !.state = "passkeys-revoked",
              !.tapStatus = "creating",
              !.tapOperationId = op]

\* Faulty: whose operation it is is not checked.
RecordAnyTap(r, op) == r.state = "passkeys-revoked" /\ r.tapStatus = "creating"

RecordTapAllowed(r, op) ==
    /\ r.state = "passkeys-revoked"
    /\ r.tapOperationId = op
    /\ r.tapStatus = "creating"

\* The methods that were revoked are the baseline of the confirmation.
RecordTap(r, tap, revoked) ==
    [r EXCEPT !.state = "tap-issued",
              !.tapStatus = "issued",
              !.tapProtected = tap,
              !.passkeyBaseline = revoked]

\* Faulty: the state is the one that onboarding uses here.
FailTapInVerified(r, op) == r.state = "verified" /\ r.tapOperationId = op

FailTapAllowed(r, op) == r.state = "passkeys-revoked" /\ r.tapOperationId = op

FailTap(r) == [r EXCEPT !.tapStatus = "error"]

-----------------------------------------------------------------------------
(* The replacement *)

TakeTapAllowed(r) == r.state = "tap-issued" /\ r.tapProtected # 0

TakeTapForDisplay(r) == [r EXCEPT !.tapProtected = 0]

NewMethods(r, methods) == methods \ r.passkeyBaseline

ConfirmPasskeyAllowed(r, methods) ==
    r.state = "tap-issued" /\ NewMethods(r, methods) # {}

ConfirmPasskey(r, key) ==
    [r EXCEPT !.state = "passkey-registered", !.passkeyMethodId = key]

CompleteAllowed(r) == r.state = "passkey-registered"

Complete(r) ==
    [r EXCEPT !.state = "complete", !.presentationState = 0, !.passkeyBaseline = {}]

-----------------------------------------------------------------------------
(* The administrator's reset *)

AdminActions == {"cancel", "restart", "unblock"}

\* Faulty: terminal requests are reset too.
AdminResetAnyState(r) == TRUE

\* The update is refused unless the row still has the etag that the administrator
\* read, so his lookup might as well have been made in the same step.
AdminResetAllowed(r) == ~Terminal(r)

\* Restart and unblock lead to manager-notified, with a token that is revoked.
AdminResetRequest(r, action) ==
    LET cancel == action = "cancel"
    IN  [r EXCEPT
            !.state = IF cancel THEN "admin-cancelled" ELSE "manager-notified",
            !.managerTokenStatus = "revoked",
            !.managerAuth = FALSE,
            !.presentationStatus = "none",
            !.presentationState = 0,
            !.presentationRequestId = 0,
            !.presentationRetryCount = IF cancel THEN @ ELSE 0,
            !.verificationFailureCount = IF cancel THEN @ ELSE 0,
            !.tapStatus = "none",
            !.tapOperationId = None,
            !.tapProtected = 0]
=============================================================================
