------------------------ MODULE OnboardingService_proofs ------------------------
(***************************************************************************)
(* Every update function of the onboarding service takes a row to a row.    *)
(***************************************************************************)
EXTENDS OnboardingService, TLAPS

\* createRequest and createManagerInitiatedRequest store well-formed rows.
LEMMA InitialRowsType == RequestedRow \in Row /\ InvitedRow \in Row
<1>1. NoExchange \in Exchange
  BY BoundsAssumption DEF NoExchange, Exchange
<1>2. BlankRow \in Row
  BY <1>1, BoundsAssumption DEF BlankRow, Row, States, TokenStatus
<1>3. RequestedRow \in Row
  BY <1>2 DEF RequestedRow, Row, TokenStatus
<1>4. InvitedRow \in Row
  BY <1>2 DEF InvitedRow, Row, States, TokenStatus
<1> QED
  BY <1>3, <1>4

\* An exchange stays an exchange when it is begun, attached or cleared.
LEMMA ExchangeType ==
    ASSUME NEW x \in Exchange, NEW n \in 0 .. MaxAttempts
    PROVE  /\ Begun(x, n) \in Exchange
           /\ Attached(x, n) \in Exchange
           /\ NoExchange \in Exchange
           /\ [NoExchange EXCEPT !.retryCount = x.retryCount] \in Exchange
<1>1. 0 \in 0 .. MaxAttempts
  BY BoundsAssumption
<1>2. x.retryCount \in Nat /\ x.retryCount + 1 \in Nat
  BY DEF Exchange
<1>3. Begun(x, n) \in Exchange
  BY <1>1, <1>2 DEF Exchange, Begun
<1>4. Attached(x, n) \in Exchange
  BY <1>1 DEF Exchange, Attached
<1>5. NoExchange \in Exchange
  BY <1>1 DEF Exchange, NoExchange
<1>6. [NoExchange EXCEPT !.retryCount = x.retryCount] \in Exchange
  BY <1>2, <1>5 DEF Exchange
<1> QED
  BY <1>3, <1>4, <1>5, <1>6

\* The updates on the way to approval.
LEMMA ApprovalRowsType ==
    ASSUME NEW r \in Row, NEW a \in Approver, NEW decision
    PROVE  /\ Expire(r) \in Row
           /\ MarkManagerNotified(r) \in Row
           /\ EscalateToSkipManager(r) \in Row
           /\ BeginManagerSignIn(r, a) \in Row
           /\ RedeemManagerToken(r) \in Row
           /\ Decide(r, a, decision) \in Row
           /\ ConfirmEmployeeInvite(r) \in Row
           /\ RecordEmployeeInviteFailure(r) \in Row
<1>1. Expire(r) \in Row
  BY DEF Expire, Row, States, TerminalStates
<1>2. MarkManagerNotified(r) \in Row
  BY DEF MarkManagerNotified, Row, States
<1>3. EscalateToSkipManager(r) \in Row
  BY DEF EscalateToSkipManager, Row, TokenStatus
<1>4. BeginManagerSignIn(r, a) \in Row
  BY DEF BeginManagerSignIn, Row
<1>5. RedeemManagerToken(r) \in Row
  BY DEF RedeemManagerToken, Row, TokenStatus
<1>6. Decide(r, a, decision) \in Row
  <2>1. {"manager-approved", "manager-rejected"} \subseteq States
    BY DEF States, TerminalStates
  <2> QED BY <2>1 DEF Decide, Row
<1>a. r.employeeInviteTokenAttemptCount + 1 \in Nat
  BY DEF Row
<1>7. ConfirmEmployeeInvite(r) \in Row
  <2>1. "manager-approved" \in States /\ "redeemed" \in TokenStatus
    BY DEF States, TokenStatus
  <2> QED BY <1>a, <2>1 DEF ConfirmEmployeeInvite, Row
<1>8. RecordEmployeeInviteFailure(r) \in Row
  <2>1. \A s \in States : [r EXCEPT !.state = s,
           !.employeeInviteTokenAttemptCount = r.employeeInviteTokenAttemptCount + 1] \in Row
    BY <1>a DEF Row
  <2> QED
    BY <2>1 DEF RecordEmployeeInviteFailure, States, TerminalStates
<1> QED
  BY <1>1, <1>2, <1>3, <1>4, <1>5, <1>6, <1>7, <1>8

\* The administrator's reset.
LEMMA AdminResetType ==
    ASSUME NEW r \in Row, NEW action
    PROVE  AdminResetRequest(r, action) \in Row
<1> DEFINE cleared(x) == [NoExchange EXCEPT !.retryCount =
                             IF action = "cancel" THEN x.retryCount ELSE 0]
<1>1. ASSUME NEW x \in Exchange PROVE cleared(x) \in Exchange
  BY BoundsAssumption DEF Exchange, NoExchange
<1>2. cleared(r.issuance) \in Exchange /\ cleared(r.presentation) \in Exchange
  BY <1>1 DEF Row
<1>3. \A status \in TokenStatus : Revoked(status) \in TokenStatus
  BY DEF Revoked, TokenStatus
<1> HIDE DEF cleared
<1> DEFINE reset(state, t1, t2, x1, x2, count) ==
               [r EXCEPT !.state = state,
                         !.managerTokenStatus = t1,
                         !.employeeInviteTokenStatus = t2,
                         !.managerAuth = None,
                         !.issuance = x1,
                         !.presentation = x2,
                         !.verificationFailureCount = count,
                         !.tapStatus = "none",
                         !.tapOperationId = None,
                         !.tapProtected = 0]
<1>4. ASSUME NEW state \in States, NEW t1 \in TokenStatus, NEW t2 \in TokenStatus,
             NEW x1 \in Exchange, NEW x2 \in Exchange, NEW count \in Nat
      PROVE  reset(state, t1, t2, x1, x2, count) \in Row
  <2>1. 0 \in 0 .. MaxTaps
    BY BoundsAssumption
  <2> QED
    BY <2>1 DEF Row
<1>5. (IF action = "cancel" THEN "admin-cancelled" ELSE "requested") \in States
  BY DEF States, TerminalStates
<1>6. (IF action = "cancel" THEN r.verificationFailureCount ELSE 0) \in Nat
  BY DEF Row
<1>7. r.managerTokenStatus \in TokenStatus /\ r.employeeInviteTokenStatus \in TokenStatus
  BY DEF Row
<1>8. Revoked(r.managerTokenStatus) \in TokenStatus
      /\ Revoked(r.employeeInviteTokenStatus) \in TokenStatus
  BY <1>3, <1>7
<1>9. AdminResetRequest(r, action) =
        reset(IF action = "cancel" THEN "admin-cancelled" ELSE "requested",
              Revoked(r.managerTokenStatus), Revoked(r.employeeInviteTokenStatus),
              cleared(r.issuance), cleared(r.presentation),
              IF action = "cancel" THEN r.verificationFailureCount ELSE 0)
  BY DEF AdminResetRequest, cleared
<1> HIDE DEF reset
<1> QED
  BY <1>2, <1>4, <1>5, <1>6, <1>8, <1>9

\* The updates of an exchange with the Verified ID service.
LEMMA ExchangeRowsType ==
    ASSUME NEW r \in Row, NEW n \in 0 .. MaxAttempts
    PROVE  /\ BeginIssuance(r, n) \in Row
           /\ AttachIssuance(r, n) \in Row
           /\ FailIssuance(r) \in Row
           /\ BeginPresentation(r, n) \in Row
           /\ AttachPresentation(r, n) \in Row
           /\ FailPresentation(r) \in Row
<1>1. r.issuance \in Exchange /\ r.presentation \in Exchange
  BY DEF Row
<1>2. \A x \in Exchange : [x EXCEPT !.status = "error"] \in Exchange
  BY DEF Exchange
<1>3. BeginIssuance(r, n) \in Row
  BY <1>1, ExchangeType DEF BeginIssuance, Row
<1>4. AttachIssuance(r, n) \in Row
  BY <1>1, ExchangeType DEF AttachIssuance, Row
<1>5. FailIssuance(r) \in Row
  BY <1>1, <1>2 DEF FailIssuance, Row
<1>6. BeginPresentation(r, n) \in Row
  BY <1>1, ExchangeType DEF BeginPresentation, Row, States
<1>7. AttachPresentation(r, n) \in Row
  BY <1>1, ExchangeType DEF AttachPresentation, Row
<1>8. FailPresentation(r) \in Row
  BY <1>1, <1>2 DEF FailPresentation, Row
<1> QED
  BY <1>3, <1>4, <1>5, <1>6, <1>7, <1>8

\* The updates a callback makes.
LEMMA CallbackRowsType ==
    ASSUME NEW r \in Row, NEW status \in {"retrieved", "error", "success"}
    PROVE  /\ IssuanceCallback(r, status) \in Row
           /\ HandlePresentationRetrieved(r) \in Row
           /\ HandlePresentationError(r) \in Row
           /\ RecordVerificationFailure(r) \in Row
           /\ MarkVerified(r) \in Row
<1>1. r.issuance \in Exchange /\ r.presentation \in Exchange
  BY DEF Row
<1>2. \A x \in Exchange, s \in {"retrieved", "error", "done"} :
         [x EXCEPT !.status = s] \in Exchange
  BY DEF Exchange
<1>3. IssuanceCallback(r, status) \in Row
  BY <1>1, <1>2 DEF IssuanceCallback, Row, States
<1>4. HandlePresentationRetrieved(r) \in Row
  BY <1>1, <1>2 DEF HandlePresentationRetrieved, Row, States
<1>5. HandlePresentationError(r) \in Row
  BY <1>1, <1>2 DEF HandlePresentationError, Row, States
<1>6. RecordVerificationFailure(r) \in Row
  <2>1. r.verificationFailureCount + 1 \in Nat
    BY DEF Row
  <2>2. \A s \in States : [r EXCEPT !.state = s,
           !.verificationFailureCount = r.verificationFailureCount + 1] \in Row
    BY <2>1 DEF Row
  <2> QED
    BY <2>2 DEF RecordVerificationFailure, States, TerminalStates
<1>7. MarkVerified(r) \in Row
  BY <1>1, <1>2 DEF MarkVerified, Row, States
<1> QED
  BY <1>3, <1>4, <1>5, <1>6, <1>7

\* The updates of the pass and the passkey.
LEMMA TapRowsType ==
    ASSUME NEW r \in Row, NEW op \in Worker, NEW tap \in 0 .. MaxTaps,
           NEW methods \in SUBSET Key, NEW key \in Key
    PROVE  /\ ClaimTap(r, op) \in Row
           /\ RecordTap(r, tap, methods) \in Row
           /\ FailTap(r) \in Row
           /\ TakeTapForDisplay(r) \in Row
           /\ ConfirmPasskey(r, key) \in Row
<1>1. ClaimTap(r, op) \in Row
  BY DEF ClaimTap, Row
<1>2. RecordTap(r, tap, methods) \in Row
  BY DEF RecordTap, Row, States
<1>3. FailTap(r) \in Row
  BY DEF FailTap, Row
<1>4. TakeTapForDisplay(r) \in Row
  BY BoundsAssumption DEF TakeTapForDisplay, Row
<1>5. ConfirmPasskey(r, key) \in Row
  BY DEF ConfirmPasskey, Row, States
<1> QED
  BY <1>1, <1>2, <1>3, <1>4, <1>5

\* The end of a request.
LEMMA EndType ==
    ASSUME NEW r \in Row
    PROVE  Complete(r) \in Row
<1>1. \A x \in Exchange : [x EXCEPT !.state = 0] \in Exchange
  BY BoundsAssumption DEF Exchange
<1>2. r.issuance \in Exchange /\ r.presentation \in Exchange
  BY DEF Row
<1> QED
  BY <1>1, <1>2 DEF Complete, Row, States, TerminalStates
=============================================================================
