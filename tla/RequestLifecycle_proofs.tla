------------------------- MODULE RequestLifecycle_proofs -------------------------
(***************************************************************************)
(* What the state of an onboarding request rests on: the approval, the      *)
(* credential, the presentation and the new passkey, and that the portal    *)
(* implements RequestLifecycle.                                             *)
(***************************************************************************)
EXTENDS TapOperation_proofs, FiniteSetTheorems

-----------------------------------------------------------------------------
(* Who changes what.  The steps of a worker fall into three groups, and each *)
(* invariant below is about what one of them writes; for the others it is    *)
(* enough to know what they leave alone.                                     *)

ApprovalStep(w) ==
    \/ LoadLapsed(w) \/ ExpireLapsed(w) \/ Crash(w)
    \/ Notify(w) \/ MarkNotified(w) \/ MarkFailed(w) \/ BindEmployee(w)
    \/ SubmitInvite(w) \/ ConfirmInvite(w) \/ InviteFailed(w)
    \/ \E a, token \in Approver : SignIn(w, a, token)
    \/ \E a \in Approver : SignInCallback(w, a) \/ OpenDecision(w, a)
    \/ Redeem(w) \/ SaveManagerSession(w)
    \/ \E decision \in {"approve", "reject"} : RecordDecision(w, decision)
    \/ OpenEscalation(w) \/ Escalate(w) \/ MailSkipManager(w)

ExchangeStep(w) ==
    \/ \E kind \in Kind : OpenExchange(w, kind)
    \/ Begin(w) \/ Create(w) \/ Attach(w) \/ Fail(w)
    \/ \E n \in Attempt, event \in Event :
          IssuanceCallbackArrives(w, n, event) \/ PresentationCallbackArrives(w, n, event)
    \/ ApplyIssuanceCallback(w)
    \/ ApplyPresentationReport(w) \/ ApplyPresentationSuccess(w)

TapStep(w) ==
    \/ ClaimTapStep(w) \/ CheckEligibility(w) \/ CreateTap(w)
    \/ RecordTapStep(w) \/ FailTapStep(w)
    \/ OpenDisplay(w) \/ OpenConfirm(w) \/ OpenComplete(w)
    \/ DisplayTap(w) \/ ListMethods(w) \/ Confirm(w) \/ CompleteStep(w)

ResetStep(w) == \E action \in AdminActions : AdminReset(w, action)

LEMMA StepGroups ==
    ASSUME Next
    PROVE  \/ \E w \in Worker :
                 ApprovalStep(w) \/ ExchangeStep(w) \/ TapStep(w) \/ ResetStep(w)
           \/ Outside
<1>1. ASSUME NEW w \in Worker, Continue(w)
      PROVE  ApprovalStep(w) \/ ExchangeStep(w) \/ TapStep(w)
  BY <1>1 DEF Continue, ApprovalStep, ExchangeStep, TapStep
<1>2. ASSUME NEW w \in Worker, Arrive(w)
      PROVE  ApprovalStep(w) \/ ExchangeStep(w) \/ TapStep(w) \/ ResetStep(w)
  BY <1>2 DEF Arrive, ApprovalStep, ExchangeStep, TapStep, ResetStep
<1>3. ASSUME NEW w \in Worker, Crash(w) PROVE ApprovalStep(w)
  BY <1>3 DEF ApprovalStep
<1> QED
  BY <1>1, <1>2, <1>3 DEF Next

Others(w) == \A v \in Worker \ {w} : handler'[v] = handler[v]

LEMMA StepTurn ==
    ASSUME TypeInv, NEW w \in Worker, NEW local, Step(w, local)
    PROVE  Others(w) /\ handler'[w] = local /\ UNCHANGED <<request, admin>>
  BY DEF TypeInv, Core, Others, Step

LEMMA WriteTurn ==
    ASSUME TypeInv, NEW w \in Worker, NEW local, NEW row, Write(w, row, local)
    PROVE  Others(w) /\ handler'[w] = local /\ request' = row /\ ~admin'.fresh
  BY DEF TypeInv, Core, Others, Write

LEMMA GoingAt == ASSUME NEW place PROVE Going(place).at = place /\ Idle.at = "idle"
  BY DEF Going, Idle

-----------------------------------------------------------------------------
(* What the groups leave alone *)

ExchangePlaces == {"begin", "create", "attach", "fail", "callback"}

\* The states before the approval, those of the exchanges, those after a
\* presentation and those after a credential.
WaitingStates == {"requested", "manager-notified", "employee-invited"}
ExchangeStates == {"manager-approved", "credential-issued", "credential-presented"}
VerifiedStates == {"verified", "tap-issued", "passkey-registered", "complete"}
IssuedStates == {"credential-issued", "credential-presented"} \cup VerifiedStates

SameToken(r, row) == row.managerTokenStatus = r.managerTokenStatus

SameExchanges(r, row) ==
    row.issuance = r.issuance /\ row.presentation = r.presentation

SamePasskey(r, row) ==
    row.passkeyBaseline = r.passkeyBaseline /\ row.passkeyMethodId = r.passkeyMethodId

\* An approval moves a waiting request, and expiry any.
ApprovalRow(r, row) ==
    /\ SameExchanges(r, row) /\ SamePasskey(r, row)
    /\ \/ row.state \in {r.state, "expired"}
       \/ /\ r.state \in WaitingStates
          /\ row.state \in WaitingStates \cup {"manager-approved", "manager-rejected", "locked"}

LEMMA ApprovalRows ==
    ASSUME NEW r \in Row, NEW a, NEW decision, NEW tokenOver
    PROVE  /\ ApprovalRow(r, r)
           /\ ApprovalRow(r, Expire(r))
           /\ MarkManagerNotifiedAllowed(r) => ApprovalRow(r, MarkManagerNotified(r))
           /\ ApprovalRow(r, EscalateToSkipManager(r))
           /\ ApprovalRow(r, BeginManagerSignIn(r, a))
           /\ ApprovalRow(r, RedeemManagerToken(r))
           /\ DecideAllowed(r, a) => ApprovalRow(r, Decide(r, a, decision))
           /\ InviteOpen(r, tokenOver) => ApprovalRow(r, ConfirmEmployeeInvite(r))
           /\ InviteOpen(r, tokenOver) => ApprovalRow(r, RecordEmployeeInviteFailure(r))
<1> USE DEF ApprovalRow, SameExchanges, SamePasskey, WaitingStates, Row
<1>1. ApprovalRow(r, r) /\ ApprovalRow(r, Expire(r))
  BY DEF Expire
<1>2. MarkManagerNotifiedAllowed(r) => ApprovalRow(r, MarkManagerNotified(r))
  BY DEF MarkManagerNotifiedAllowed, MarkManagerNotified
<1>3. /\ ApprovalRow(r, EscalateToSkipManager(r))
      /\ ApprovalRow(r, BeginManagerSignIn(r, a))
      /\ ApprovalRow(r, RedeemManagerToken(r))
  BY DEF EscalateToSkipManager, BeginManagerSignIn, RedeemManagerToken
<1>4. DecideAllowed(r, a) => ApprovalRow(r, Decide(r, a, decision))
  BY DEF DecideAllowed, Decide
<1>5. InviteOpen(r, tokenOver) => ApprovalRow(r, ConfirmEmployeeInvite(r))
  BY DEF InviteOpen, ConfirmEmployeeInvite
<1>6. InviteOpen(r, tokenOver) => ApprovalRow(r, RecordEmployeeInviteFailure(r))
  BY DEF InviteOpen, RecordEmployeeInviteFailure
<1> QED
  BY <1>1, <1>2, <1>3, <1>4, <1>5, <1>6

\* An approval step leaves the exchanges, Graph and the passkeys alone.
LEMMA ApprovalChanges ==
    ASSUME TypeInv, NEW w \in Worker, ApprovalStep(w)
    PROVE  /\ Others(w)
           /\ handler'[w].at \notin ExchangePlaces \cup TapPlaces
           /\ Notifying(w)' => Notifying(w)
           /\ ApprovalRow(request, request')
           /\ UNCHANGED <<attempts, graph>>
           /\ history'.methodsAtProof = history.methodsAtProof
           /\ history'.shown = history.shown
<1> DEFINE Quietly == /\ UNCHANGED <<attempts, graph>>
                      /\ history'.methodsAtProof = history.methodsAtProof
                      /\ history'.shown = history.shown
           Effect == /\ Others(w)
                     /\ handler'[w].at \notin ExchangePlaces \cup TapPlaces
                     /\ Notifying(w)' => Notifying(w)
                     /\ ApprovalRow(request, request')
           Calm(local) == /\ local.at \notin ExchangePlaces \cup TapPlaces
                          /\ local.at \in {"notify", "mark-notified"} => Notifying(w)
<1>0. request \in Row /\ handler[w] \in Local
  BY DEF TypeInv, Core, ReadyLocal
<1>1. ASSUME NEW local, Calm(local), Step(w, local) PROVE Effect
  BY <1>0, <1>1, StepTurn, ApprovalRows DEF Notifying
<1>2. ASSUME NEW local, NEW row, Calm(local), Write(w, row, local), ApprovalRow(request, row)
      PROVE  Effect
  BY <1>1, <1>2, WriteTurn DEF Notifying
<1>3. /\ Calm(Idle)
      /\ \A place \in Place \ (ExchangePlaces \cup TapPlaces \cup {"notify", "mark-notified"}) :
            /\ Calm(Going(place))
            /\ \A a : Calm([Going(place) EXCEPT !.approver = a])
            /\ Calm([handler[w] EXCEPT !.at = place])
  BY <1>0, GoingType DEF Idle, TapPlaces, ExchangePlaces, Local
<1> HIDE DEF Calm, Effect
<1> USE DEF Place, ExchangePlaces, TapPlaces
<1>4. CASE LoadLapsed(w) \/ ExpireLapsed(w) \/ Crash(w)
  <2>1. Effect
    BY <1>0, <1>1, <1>2, <1>3, <1>4, ApprovalRows DEF LoadLapsed, ExpireLapsed, Crash
  <2>2. Quietly
    BY <1>4 DEF LoadLapsed, ExpireLapsed, Crash, TypeInv, HistoryType
  <2> QED
    BY <2>1, <2>2 DEF Effect
<1>5. CASE Notify(w) \/ MarkNotified(w) \/ MarkFailed(w) \/ BindEmployee(w)
  <2>1. Notify(w) => Calm(Going("mark-notified"))
    BY GoingAt DEF Notify, At, Notifying, Calm
  <2>2. Effect
    BY <1>0, <1>1, <1>2, <1>3, <1>5, <2>1, ApprovalRows
       DEF Notify, MarkNotified, MarkFailed, BindEmployee
  <2> QED
    BY <1>5, <2>2 DEF Notify, MarkNotified, MarkFailed, BindEmployee, Effect
<1>6. CASE SubmitInvite(w) \/ ConfirmInvite(w) \/ InviteFailed(w)
  <2>1. Effect
    BY <1>0, <1>1, <1>2, <1>3, <1>6, ApprovalRows
       DEF SubmitInvite, ConfirmInvite, InviteFailed
  <2> QED
    BY <1>6, <2>1 DEF SubmitInvite, ConfirmInvite, InviteFailed, Effect
<1>7. ASSUME NEW a \in Approver, NEW token \in Approver,
             SignIn(w, a, token) \/ SignInCallback(w, a) \/ OpenDecision(w, a)
      PROVE  Effect /\ Quietly
  <2>1. Effect
    BY <1>0, <1>1, <1>2, <1>3, <1>7, ApprovalRows DEF SignIn, SignInCallback, OpenDecision
  <2> QED
    BY <1>7, <2>1 DEF SignIn, SignInCallback, OpenDecision
<1>8. CASE \/ SaveManagerSession(w) \/ OpenEscalation(w) \/ MailSkipManager(w)
           \/ \E decision \in {"approve", "reject"} : RecordDecision(w, decision)
  <2>1. Effect
    BY <1>0, <1>1, <1>2, <1>3, <1>8, ApprovalRows
       DEF SaveManagerSession, OpenEscalation, MailSkipManager, RecordDecision
  <2> QED
    BY <1>8, <2>1
       DEF SaveManagerSession, OpenEscalation, MailSkipManager, RecordDecision, Effect
<1>9. CASE Redeem(w) \/ Escalate(w)
  <2>1. Effect
    BY <1>0, <1>1, <1>2, <1>3, <1>9, ApprovalRows DEF Redeem, Escalate
  <2>2. /\ history'.methodsAtProof = history.methodsAtProof
        /\ history'.shown = history.shown
    BY <1>9 DEF Redeem, Escalate, TypeInv, HistoryType
  <2> QED
    BY <1>9, <2>1, <2>2 DEF Redeem, Escalate, Effect
<1>10. "direct-manager" \in Approver
  BY ApproverAssumption
<1> QED
  BY <1>4, <1>5, <1>6, <1>7, <1>8, <1>9, <1>10 DEF ApprovalStep, Effect

\* An exchange step leaves the token alone, Graph and the passkeys, and moves an
\* approved request as far as verified.
ExchangeRow(r, row) ==
    /\ SameToken(r, row) /\ SamePasskey(r, row)
    /\ \/ row.state = r.state
       \/ /\ r.state \in ExchangeStates
          /\ row.state \in ExchangeStates \cup {"verified", "locked"}

LEMMA ExchangeRows ==
    ASSUME NEW r \in Row, NEW n, NEW windowOver, NEW status \in {"retrieved", "error", "success"}
    PROVE  /\ ExchangeRow(r, r)
           /\ ExchangeRow(r, BeginIssuance(r, n))
           /\ ExchangeRow(r, AttachIssuance(r, n))
           /\ ExchangeRow(r, FailIssuance(r))
           /\ BeginPresentationAllowed(r, windowOver) => ExchangeRow(r, BeginPresentation(r, n))
           /\ ExchangeRow(r, AttachPresentation(r, n))
           /\ ExchangeRow(r, FailPresentation(r))
           /\ IssuanceCallbackAllowed(r) => ExchangeRow(r, IssuanceCallback(r, status))
           /\ HandlePresentationRetrievedAllowed(r) => ExchangeRow(r, HandlePresentationRetrieved(r))
           /\ HandlePresentationErrorAllowed(r) => ExchangeRow(r, HandlePresentationError(r))
           /\ RecordVerificationFailureAllowed(r) => ExchangeRow(r, RecordVerificationFailure(r))
           /\ MarkVerifiedAllowed(r) => ExchangeRow(r, MarkVerified(r))
<1> USE DEF ExchangeRow, SameToken, SamePasskey, ExchangeStates, Row
<1>1. /\ ExchangeRow(r, r)
      /\ ExchangeRow(r, BeginIssuance(r, n))
      /\ ExchangeRow(r, AttachIssuance(r, n))
      /\ ExchangeRow(r, FailIssuance(r))
  BY DEF BeginIssuance, AttachIssuance, FailIssuance
<1>2. /\ BeginPresentationAllowed(r, windowOver) => ExchangeRow(r, BeginPresentation(r, n))
      /\ ExchangeRow(r, AttachPresentation(r, n))
      /\ ExchangeRow(r, FailPresentation(r))
  BY DEF BeginPresentationAllowed, BeginPresentation, AttachPresentation, FailPresentation
<1>3. IssuanceCallbackAllowed(r) => ExchangeRow(r, IssuanceCallback(r, status))
  BY DEF IssuanceCallbackAllowed, IssuanceCallback
<1>4. HandlePresentationRetrievedAllowed(r) => ExchangeRow(r, HandlePresentationRetrieved(r))
  BY DEF HandlePresentationRetrievedAllowed, HandlePresentationRetrieved
<1>5. HandlePresentationErrorAllowed(r) => ExchangeRow(r, HandlePresentationError(r))
  BY DEF HandlePresentationErrorAllowed, HandlePresentationError
<1>6. RecordVerificationFailureAllowed(r) => ExchangeRow(r, RecordVerificationFailure(r))
  BY DEF RecordVerificationFailureAllowed, RecordVerificationFailure
<1>7. MarkVerifiedAllowed(r) => ExchangeRow(r, MarkVerified(r))
  BY DEF MarkVerifiedAllowed, MarkVerified
<1> QED
  BY <1>1, <1>2, <1>3, <1>4, <1>5, <1>6, <1>7

LEMMA ExchangeChanges ==
    ASSUME TypeInv, NEW w \in Worker, ExchangeStep(w)
    PROVE  /\ Others(w)
           /\ handler'[w].at \in ExchangePlaces \cup {"idle", "claim-tap"}
           /\ ExchangeRow(request, request')
           /\ UNCHANGED <<graph, browser>>
           /\ admin'.fresh => UNCHANGED <<request, admin>>
           /\ UNCHANGED history \/ ApplyPresentationSuccess(w)
           /\ history'.redeemedSinceArmed = history.redeemedSinceArmed
           /\ history'.shown = history.shown
<1> DEFINE Quietly == UNCHANGED <<graph, browser, history>>
           Effect == /\ Others(w)
                     /\ handler'[w].at \in ExchangePlaces \cup {"idle", "claim-tap"}
                     /\ ExchangeRow(request, request')
                     /\ admin'.fresh => UNCHANGED <<request, admin>>
           Calm(local) == local.at \in ExchangePlaces \cup {"idle", "claim-tap"}
<1>0. request \in Row /\ handler[w] \in ReadyLocal /\ handler[w] \in Local
  BY DEF TypeInv, Core, ReadyLocal
<1>1. ASSUME NEW local, Calm(local), Step(w, local) PROVE Effect
  <2>1. ExchangeRow(request, request)
    BY DEF ExchangeRow, SameToken, SamePasskey
  <2> QED
    BY <1>1, <2>1, StepTurn
<1>2. ASSUME NEW local, NEW row, Calm(local), Write(w, row, local), ExchangeRow(request, row)
      PROVE  Effect
  BY <1>2, WriteTurn
<1>3. /\ Calm(Idle)
      /\ \A place \in ExchangePlaces \cup {"claim-tap"} :
            /\ \A kind : Calm([Going(place) EXCEPT !.kind = kind])
            /\ \A kind, event : Calm([Going(place) EXCEPT !.kind = kind, !.status = event])
            /\ Calm([handler[w] EXCEPT !.at = place])
            /\ \A n : Calm([handler[w] EXCEPT !.at = place, !.n = n])
  BY <1>0, GoingType DEF Idle, ExchangePlaces, Place, Local
<1> HIDE DEF Calm, Effect
<1> USE DEF Place, ExchangePlaces
<1>4. ASSUME NEW kind \in Kind, OpenExchange(w, kind) PROVE Effect /\ Quietly
  BY <1>1, <1>3, <1>4 DEF OpenExchange
<1>5. CASE Begin(w)
  <2>1. BeginAllowed(handler[w].kind) =>
           \A n : ExchangeRow(request, BeginRow(handler[w].kind, n))
    BY <1>0, ExchangeRows DEF BeginAllowed, BeginRow
  <2> QED
    BY <1>1, <1>2, <1>3, <1>5, <2>1 DEF Begin, Effect
<1>6. CASE Create(w)
  BY <1>1, <1>3, <1>6 DEF Create, Effect
<1>7. CASE Attach(w) \/ Fail(w)
  <2>1. /\ \A n : ExchangeRow(request, AttachRow(handler[w].kind, n))
        /\ ExchangeRow(request, FailRow(handler[w].kind))
    BY <1>0, ExchangeRows DEF AttachRow, FailRow
  <2> QED
    BY <1>1, <1>2, <1>3, <1>7, <2>1 DEF Attach, Fail, Effect
<1>8. ASSUME NEW n \in Attempt, NEW event \in Event,
             IssuanceCallbackArrives(w, n, event) \/ PresentationCallbackArrives(w, n, event)
      PROVE  Effect /\ Quietly
  <2>1. AfterLookup(request.state, event) \in {"callback", "claim-tap", "idle"}
    BY DEF AfterLookup
  <2> QED
    BY <1>1, <1>3, <1>8, <2>1 DEF IssuanceCallbackArrives, PresentationCallbackArrives
<1>9. CASE ApplyIssuanceCallback(w)
  <2>1. handler[w].status \in {"retrieved", "error", "success"}
    BY <1>0, <1>9 DEF ApplyIssuanceCallback, At, ReadyLocal, Ready
  <2>2. IssuanceCallbackAllowed(request) =>
           ExchangeRow(request, IssuanceCallback(request, handler[w].status))
    BY <1>0, <2>1, ExchangeRows
  <2> QED
    BY <1>1, <1>2, <1>3, <1>9, <2>2 DEF ApplyIssuanceCallback, Effect
<1>10. CASE ApplyPresentationReport(w)
  <2>1. handler[w].status \in {"retrieved", "error", "bad"}
    BY <1>0, <1>10 DEF ApplyPresentationReport, At, ReadyLocal, Ready
  <2>2. ReportAllowed(handler[w].status) =>
           ExchangeRow(request, ReportRow(handler[w].status))
    BY <1>0, <2>1, ExchangeRows DEF ReportAllowed, ReportRow
  <2> QED
    BY <1>1, <1>2, <1>3, <1>10, <2>2 DEF ApplyPresentationReport, Effect
<1>11. CASE ApplyPresentationSuccess(w)
  <2>1. MarkVerifiedAllowed(request) => ExchangeRow(request, MarkVerified(request))
    BY <1>0, ExchangeRows
  <2>2. Effect
    BY <1>1, <1>2, <1>3, <1>11, <2>1 DEF ApplyPresentationSuccess
  <2>3. /\ history'.redeemedSinceArmed = history.redeemedSinceArmed
        /\ history'.shown = history.shown
    BY <1>11 DEF ApplyPresentationSuccess, TypeInv, HistoryType
  <2> QED
    BY <1>11, <2>2, <2>3 DEF ApplyPresentationSuccess, Effect
<1> QED
  BY <1>4, <1>5, <1>6, <1>7, <1>8, <1>9, <1>10, <1>11 DEF ExchangeStep, Effect

\* A step of the pass or the passkey leaves the approval alone, and of the exchanges
\* all but the callback states that the end of the request clears.
TapRow(r, row) ==
    /\ SameToken(r, row)
    /\ \/ SameExchanges(r, row)
       \/ /\ r.state = "passkey-registered"
          /\ row.issuance.status = r.issuance.status
          /\ row.issuance.retryCount = r.issuance.retryCount
          /\ row.presentation.status = r.presentation.status
          /\ row.presentation.retryCount = r.presentation.retryCount
    /\ row.state = r.state \/ {r.state, row.state} \subseteq VerifiedStates

LEMMA TapRows ==
    ASSUME NEW r \in Row, NEW op, NEW tap, NEW methods, NEW key
    PROVE  /\ TapRow(r, r)
           /\ TapRow(r, ClaimTap(r, op))
           /\ RecordTapAllowed(r, op) => TapRow(r, RecordTap(r, tap, methods))
           /\ TapRow(r, FailTap(r))
           /\ TapRow(r, TakeTapForDisplay(r))
           /\ ConfirmPasskeyAllowed(r, methods) => TapRow(r, ConfirmPasskey(r, key))
           /\ CompleteAllowed(r) => TapRow(r, Complete(r))
<1> USE DEF TapRow, SameToken, SameExchanges, VerifiedStates, Row
<1>1. /\ TapRow(r, r) /\ TapRow(r, ClaimTap(r, op))
      /\ TapRow(r, FailTap(r)) /\ TapRow(r, TakeTapForDisplay(r))
  BY DEF ClaimTap, FailTap, TakeTapForDisplay
<1>2. RecordTapAllowed(r, op) => TapRow(r, RecordTap(r, tap, methods))
  BY DEF RecordTapAllowed, RecordTap
<1>3. ConfirmPasskeyAllowed(r, methods) => TapRow(r, ConfirmPasskey(r, key))
  BY DEF ConfirmPasskeyAllowed, ConfirmPasskey
<1>4. CompleteAllowed(r) => TapRow(r, Complete(r))
  BY DEF CompleteAllowed, Complete, Exchange
<1> QED
  BY <1>1, <1>2, <1>3, <1>4

LEMMA TapChanges ==
    ASSUME TypeInv, NEW w \in Worker, TapStep(w)
    PROVE  /\ Others(w)
           /\ handler'[w].at \in TapPlaces
                 \cup {"idle", "take", "list-methods", "confirm", "complete"}
           /\ TapRow(request, request')
           /\ UNCHANGED attempts
           /\ admin'.fresh => UNCHANGED <<request, admin>>
           /\ browser'.signedIn = browser.signedIn
           /\ history'.redeemedSinceArmed = history.redeemedSinceArmed
           /\ history'.methodsAtProof = history.methodsAtProof
<1> DEFINE Quietly == UNCHANGED <<attempts, browser, history>>
           Marks == /\ history'.redeemedSinceArmed = history.redeemedSinceArmed
                    /\ history'.methodsAtProof = history.methodsAtProof
           Effect == /\ Others(w)
                     /\ handler'[w].at \in TapPlaces
                           \cup {"idle", "take", "list-methods", "confirm", "complete"}
                     /\ TapRow(request, request')
                     /\ admin'.fresh => UNCHANGED <<request, admin>>
           Calm(local) == local.at \in TapPlaces
                              \cup {"idle", "take", "list-methods", "confirm", "complete"}
<1>0. request \in Row /\ handler[w] \in Local
  BY DEF TypeInv, Core, ReadyLocal
<1>1. ASSUME NEW local, Calm(local), Step(w, local) PROVE Effect
  BY <1>0, <1>1, StepTurn, TapRows
<1>2. ASSUME NEW local, NEW row, Calm(local), Write(w, row, local), TapRow(request, row)
      PROVE  Effect
  BY <1>2, WriteTurn
<1>3. /\ Calm(Idle)
      /\ \A place \in TapPlaces \cup {"take", "list-methods", "confirm", "complete"} :
            /\ Calm(Going(place))
            /\ Calm([handler[w] EXCEPT !.at = place])
            /\ \A methods : Calm([handler[w] EXCEPT !.at = place, !.methods = methods])
            /\ \A tap : Calm([handler[w] EXCEPT !.at = place, !.tap = tap])
  BY <1>0, GoingType DEF Idle, TapPlaces, Place, Local
<1> HIDE DEF Calm, Effect
<1> USE DEF TapPlaces
<1>4. CASE ClaimTapStep(w) \/ CheckEligibility(w) \/ CreateTap(w)
  <2>1. Effect
    BY <1>0, <1>1, <1>2, <1>3, <1>4, TapRows DEF ClaimTapStep, CheckEligibility, CreateTap
  <2>2. Marks
    BY <1>4 DEF ClaimTapStep, CheckEligibility, CreateTap, Abandon, TypeInv, HistoryType
  <2>3. UNCHANGED <<attempts, browser>>
    BY <1>4 DEF ClaimTapStep, CheckEligibility, CreateTap
  <2> QED
    BY <2>1, <2>2, <2>3 DEF Effect
<1>5. CASE RecordTapStep(w) \/ FailTapStep(w)
  <2>1. Effect
    BY <1>0, <1>1, <1>2, <1>3, <1>5, TapRows DEF RecordTapStep, FailTapStep
  <2>2. Marks
    BY <1>5 DEF RecordTapStep, FailTapStep, Abandon, TypeInv, HistoryType
  <2>3. UNCHANGED <<attempts, browser>>
    BY <1>5 DEF RecordTapStep, FailTapStep
  <2> QED
    BY <2>1, <2>2, <2>3 DEF Effect
<1>6. CASE OpenDisplay(w) \/ OpenConfirm(w) \/ ListMethods(w) \/ Confirm(w)
  <2>1. Effect
    BY <1>0, <1>1, <1>2, <1>3, <1>6, TapRows
       DEF OpenDisplay, OpenConfirm, OpenRoute, ListMethods, Confirm
  <2> QED
    BY <1>6, <2>1 DEF OpenDisplay, OpenConfirm, OpenRoute, ListMethods, Confirm, Effect
<1>7. CASE OpenComplete(w) \/ CompleteStep(w)
  <2>1. Effect
    BY <1>0, <1>1, <1>2, <1>3, <1>7, TapRows DEF OpenComplete, CompleteStep
  <2>2. browser'.signedIn = browser.signedIn
    BY <1>7 DEF OpenComplete, CompleteStep, TypeInv, BrowserType
  <2> QED
    BY <1>7, <2>1, <2>2 DEF OpenComplete, CompleteStep, Effect
<1>8. CASE DisplayTap(w)
  <2>1. Effect
    BY <1>0, <1>1, <1>2, <1>3, <1>8, TapRows DEF DisplayTap
  <2>2. /\ history'.redeemedSinceArmed = history.redeemedSinceArmed
        /\ history'.methodsAtProof = history.methodsAtProof
    BY <1>8 DEF DisplayTap, TypeInv, HistoryType
  <2> QED
    BY <1>8, <2>1, <2>2 DEF DisplayTap, Effect
<1> QED
  BY <1>4, <1>5, <1>6, <1>7, <1>8 DEF TapStep, Effect

\* A reset clears what it finds and starts nothing.
LEMMA ResetChanges ==
    ASSUME TypeInv, NEW w \in Worker, ResetStep(w)
    PROVE  /\ Others(w)
           /\ handler'[w].at \in {"idle", "expire"}
           /\ ~Terminal(request)
           /\ request'.state \in {"requested", "admin-cancelled"}
           /\ request'.managerTokenStatus \in {"none", "revoked"}
           /\ request'.issuance.status = "none" /\ request'.presentation.status = "none"
           /\ request'.tapProtected = 0
           /\ SamePasskey(request, request')
           /\ UNCHANGED <<attempts, graph, browser>>
           /\ ~admin'.fresh
           /\ history'.redeemedSinceArmed = 0
           /\ history'.methodsAtProof = history.methodsAtProof
           /\ history'.shown = history.shown
<1>1. PICK action \in AdminActions : AdminReset(w, action)
  BY DEF ResetStep
<1> DEFINE row == AdminResetRequest(request, action)
<1>2. request \in Row
  BY DEF TypeInv, Core
<1>3. /\ row.state \in {"requested", "admin-cancelled"}
      /\ row.managerTokenStatus \in {"none", "revoked"}
      /\ row.tapProtected = 0
      /\ SamePasskey(request, row)
  BY <1>2 DEF AdminResetRequest, Row, SamePasskey, Revoked
<1>4. row.issuance.status = "none" /\ row.presentation.status = "none"
  BY <1>2 DEF AdminResetRequest, Row, NoExchange
<1> HIDE DEF row
<1>5. PICK local \in {Idle, Going("expire")} : Write(w, row, local)
  BY <1>1 DEF AdminReset, row
<1>6. Others(w) /\ handler'[w] = local /\ request' = row /\ ~admin'.fresh
  BY <1>5, WriteTurn
<1>7. local.at \in {"idle", "expire"}
  BY GoingAt
<1>8. /\ history'.redeemedSinceArmed = 0
      /\ history'.methodsAtProof = history.methodsAtProof
      /\ history'.shown = history.shown
  BY <1>1 DEF AdminReset, TypeInv, HistoryType
<1> QED
  BY <1>1, <1>3, <1>4, <1>6, <1>7, <1>8 DEF AdminReset, AdminResetAllowed

\* Outside the portal's handlers.
LEMMA OutsideChanges ==
    ASSUME TypeInv, Outside
    PROVE  /\ UNCHANGED <<request, handler, history>>
           /\ browser'.signedIn = browser.signedIn
           /\ \A kind \in Kind, n \in Attempt : attempts[kind][n] \subseteq attempts'[kind][n]
           /\ graph'.taps = graph.taps /\ graph.methods \subseteq graph'.methods
           /\ UNCHANGED admin \/ AdminLookup
<1>1. CASE ActivateInvite \/ AdminLookup
  BY <1>1 DEF ActivateInvite, AdminLookup, TypeInv, BrowserType
<1>2. ASSUME NEW a \in Approver, NEW token \in Approver, ActivateToken(a, token)
      PROVE  browser'.signedIn = browser.signedIn
  BY <1>2 DEF ActivateToken, TypeInv, BrowserType
<1>3. ASSUME NEW kind \in Kind, NEW n \in Attempt, NEW event \in Event, Wallet(kind, n, event)
      PROVE  \A k \in Kind, m \in Attempt : attempts[k][m] \subseteq attempts'[k][m]
  BY <1>3 DEF Wallet, Happens, TypeInv, AttemptsType
<1>4. ASSUME NEW key \in Key, RegisterPasskey(key)
      PROVE  graph'.taps = graph.taps /\ graph.methods \subseteq graph'.methods
  BY <1>4 DEF RegisterPasskey, TypeInv, GraphType
<1> QED
  BY <1>1, <1>2, <1>3, <1>4
     DEF Outside, ActivateInvite, AdminLookup, ActivateToken, Wallet, DeadlinePasses,
         RegisterPasskey

-----------------------------------------------------------------------------
(* Approval *)

\* An active token has not been redeemed since it was armed, a redeemed one has; who
\* decides has signed in; and a fresh lookup shows the state that is stored.
ApprovalInv ==
    /\ RedeemedOncePerArming
    /\ request.managerTokenStatus = "active" => history.redeemedSinceArmed = 0
    /\ request.managerTokenStatus = "redeemed" => history.redeemedSinceArmed > 0
    /\ \A w \in Worker : At(w, "decide") => handler[w].approver \in browser.signedIn
    /\ admin.fresh => admin.seen = request.state

LEMMA TokenRows ==
    ASSUME NEW r \in Row, NEW a, NEW decision
    PROVE  /\ SameToken(r, r)
           /\ SameToken(r, Expire(r))
           /\ SameToken(r, MarkManagerNotified(r))
           /\ SameToken(r, BeginManagerSignIn(r, a))
           /\ SameToken(r, Decide(r, a, decision))
           /\ SameToken(r, ConfirmEmployeeInvite(r))
           /\ SameToken(r, RecordEmployeeInviteFailure(r))
  BY DEF SameToken, Row, Expire, MarkManagerNotified, BeginManagerSignIn, Decide,
         ConfirmEmployeeInvite, RecordEmployeeInviteFailure

\* Only a redemption and an escalation change the token.
LEMMA TokenChanges ==
    ASSUME TypeInv, NEW w \in Worker, ApprovalStep(w)
    PROVE  /\ \/ /\ SameToken(request, request')
                 /\ history'.redeemedSinceArmed = history.redeemedSinceArmed
              \/ /\ request.managerTokenStatus = "active"
                 /\ request'.managerTokenStatus = "redeemed"
                 /\ history'.redeemedSinceArmed = Again(history.redeemedSinceArmed)
              \/ /\ request'.managerTokenStatus = "active"
                 /\ history'.redeemedSinceArmed = 0
           /\ browser.signedIn \subseteq browser'.signedIn
           /\ handler'[w].at = "decide" => handler'[w].approver \in browser'.signedIn
           /\ admin'.fresh => UNCHANGED <<request, admin>>
<1> DEFINE Effect == /\ SameToken(request, request')
                     /\ handler'[w].at # "decide"
                     /\ admin'.fresh => UNCHANGED <<request, admin>>
           Calm(local) == local.at # "decide"
<1>0. request \in Row /\ handler[w] \in Local
  BY DEF TypeInv, Core, ReadyLocal
<1>1. ASSUME NEW local, Calm(local), Step(w, local) PROVE Effect
  BY <1>0, <1>1, StepTurn, TokenRows
<1>2. ASSUME NEW local, NEW row, Calm(local), Write(w, row, local), SameToken(request, row)
      PROVE  Effect
  BY <1>2, WriteTurn
<1>3. /\ Calm(Idle)
      /\ \A place \in Place \ {"decide"} :
            Calm(Going(place)) /\ \A a : Calm([Going(place) EXCEPT !.approver = a])
  BY GoingType DEF Idle, Place, Local
<1> HIDE DEF Calm, Effect
<1> USE DEF Place
<1>4. CASE \/ LoadLapsed(w) \/ ExpireLapsed(w) \/ Crash(w)
           \/ MarkNotified(w) \/ MarkFailed(w)
           \/ SubmitInvite(w) \/ ConfirmInvite(w) \/ InviteFailed(w)
           \/ \E decision \in {"approve", "reject"} : RecordDecision(w, decision)
           \/ OpenEscalation(w)
  <2>1. Effect
    BY <1>0, <1>1, <1>2, <1>3, <1>4, TokenRows
       DEF LoadLapsed, ExpireLapsed, Crash, MarkNotified, MarkFailed, SubmitInvite,
           ConfirmInvite, InviteFailed, RecordDecision, OpenEscalation
  <2>2. UNCHANGED browser /\ history'.redeemedSinceArmed = history.redeemedSinceArmed
    BY <1>4 DEF LoadLapsed, ExpireLapsed, Crash, MarkNotified, MarkFailed, SubmitInvite,
                ConfirmInvite, InviteFailed, RecordDecision, OpenEscalation,
                TypeInv, HistoryType
  <2> QED
    BY <2>1, <2>2 DEF Effect
<1>5. CASE Notify(w) \/ BindEmployee(w) \/ MailSkipManager(w)
  <2>1. Effect
    BY <1>1, <1>3, <1>5 DEF Notify, BindEmployee, MailSkipManager
  <2>2. browser'.signedIn = browser.signedIn /\ UNCHANGED history
    BY <1>5 DEF Notify, BindEmployee, MailSkipManager, Mailed, TypeInv, BrowserType
  <2> QED
    BY <2>1, <2>2 DEF Effect
<1>6. ASSUME NEW a \in Approver, NEW token \in Approver,
             SignIn(w, a, token) \/ SignInCallback(w, a)
      PROVE  Effect /\ browser'.signedIn = browser.signedIn /\ UNCHANGED history
  <2>1. Effect
    BY <1>0, <1>1, <1>2, <1>3, <1>6, TokenRows DEF SignIn, SignInCallback
  <2> QED
    BY <1>6, <2>1 DEF SignIn, SignInCallback, TypeInv, BrowserType
<1>7. CASE SaveManagerSession(w)
  <2>1. Effect
    BY <1>1, <1>3, <1>7 DEF SaveManagerSession
  <2>2. browser.signedIn \subseteq browser'.signedIn /\ UNCHANGED history
    BY <1>7 DEF SaveManagerSession, TypeInv, BrowserType
  <2> QED
    BY <2>1, <2>2 DEF Effect
<1>8. ASSUME NEW a \in Approver, OpenDecision(w, a)
      PROVE  /\ SameToken(request, request') /\ UNCHANGED <<browser, history>>
             /\ handler'[w].at = "decide" => handler'[w].approver \in browser'.signedIn
             /\ admin'.fresh => UNCHANGED <<request, admin>>
  <2>1. CASE Step(w, [Going("decide") EXCEPT !.approver = a])
    <3>1. [Going("decide") EXCEPT !.approver = a].approver = a
      BY GoingType DEF Local
    <3> QED
      BY <1>8, <2>1, <3>1, StepTurn DEF OpenDecision, SameToken
  <2>2. CASE Write(w, request, Idle)
    <3>1. Effect
      BY <1>0, <1>2, <1>3, <2>2, TokenRows
    <3> QED
      BY <1>8, <3>1 DEF OpenDecision, Effect
  <2> QED
    BY <1>8, <2>1, <2>2 DEF OpenDecision
<1>9. CASE Redeem(w)
  <2>1. CASE RedeemManagerTokenAllowed(request, handler[w].approver, "token" \in due)
    <3>1. Write(w, RedeemManagerToken(request), [handler[w] EXCEPT !.at = "save-session"])
      BY <1>9, <2>1 DEF Redeem
    <3>2. [handler[w] EXCEPT !.at = "save-session"].at = "save-session"
      BY <1>0 DEF Local
    <3>3. RedeemManagerToken(request).managerTokenStatus = "redeemed"
      BY <1>0 DEF RedeemManagerToken, Row
    <3>4. history'.redeemedSinceArmed = Again(history.redeemedSinceArmed)
      BY <1>9, <2>1 DEF Redeem, TypeInv, HistoryType
    <3> QED
      BY <1>9, <2>1, <3>1, <3>2, <3>3, <3>4, WriteTurn
         DEF Redeem, RedeemManagerTokenAllowed
  <2>2. CASE ~RedeemManagerTokenAllowed(request, handler[w].approver, "token" \in due)
    <3>1. Effect
      BY <1>0, <1>1, <1>2, <1>3, <1>9, <2>2, TokenRows DEF Redeem
    <3> QED
      BY <1>9, <2>2, <3>1 DEF Redeem, Effect
  <2> QED
    BY <2>1, <2>2
<1>10. CASE Escalate(w)
  <2>1. CASE EscalateAllowed(request)
    <3>1. Write(w, EscalateToSkipManager(request), Going("mail-skip"))
      BY <1>10, <2>1 DEF Escalate
    <3>2. EscalateToSkipManager(request).managerTokenStatus = "active"
      BY <1>0 DEF EscalateToSkipManager, Row
    <3>3. history'.redeemedSinceArmed = 0
      BY <1>10, <2>1 DEF Escalate, TypeInv, HistoryType
    <3> QED
      BY <1>10, <3>1, <3>2, <3>3, GoingAt, WriteTurn DEF Escalate
  <2>2. CASE ~EscalateAllowed(request)
    <3>1. Effect
      BY <1>1, <1>3, <1>10, <2>2 DEF Escalate
    <3> QED
      BY <1>10, <2>2, <3>1 DEF Escalate, Effect
  <2> QED
    BY <2>1, <2>2
<1>11. "direct-manager" \in Approver
  BY ApproverAssumption
<1> QED
  BY <1>4, <1>5, <1>6, <1>7, <1>8, <1>9, <1>10, <1>11 DEF ApprovalStep, Effect

LEMMA InitApproval == Init => ApprovalInv
<1> SUFFICES ASSUME Init PROVE ApprovalInv
  OBVIOUS
<1>1. \A w \in Worker : ~At(w, "decide")
  BY GoingAt DEF Init, At
<1>2. request.managerTokenStatus \in {"active", "none"}
  BY DEF Init, RequestedRow, InvitedRow, BlankRow
<1> QED
  BY <1>1, <1>2 DEF Init, ApprovalInv, RedeemedOncePerArming

LEMMA NextApproval == TypeInv /\ ApprovalInv /\ [Next]_vars => ApprovalInv'
<1> SUFFICES ASSUME TypeInv, ApprovalInv, [Next]_vars PROVE ApprovalInv'
  OBVIOUS
<1> USE DEF ApprovalInv, RedeemedOncePerArming, At
<1>1. ASSUME NEW w \in Worker, ApprovalStep(w) PROVE ApprovalInv'
  BY <1>1, ApprovalChanges, TokenChanges DEF Others, SameToken, Again
<1>2. ASSUME NEW w \in Worker, ExchangeStep(w) PROVE ApprovalInv'
  BY <1>2, ExchangeChanges DEF Others, ExchangeRow, SameToken, ExchangePlaces
<1>3. ASSUME NEW w \in Worker, TapStep(w) PROVE ApprovalInv'
  BY <1>3, TapChanges DEF Others, TapRow, SameToken, TapPlaces
<1>4. ASSUME NEW w \in Worker, ResetStep(w) PROVE ApprovalInv'
  BY <1>4, ResetChanges DEF Others
<1>5. CASE Outside
  BY <1>5, OutsideChanges DEF AdminLookup
<1>6. CASE UNCHANGED vars
  BY <1>6 DEF vars
<1> QED
  BY <1>1, <1>2, <1>3, <1>4, <1>5, <1>6, StepGroups

LEMMA ApprovalCorrect == Spec => []ApprovalInv
  BY InitType, NextType, InitApproval, NextApproval, PTL DEF Spec

\* Two sign-ins that complete at the same time cannot both spend the token, whatever
\* escalations and resets come between (redeemManagerToken and the etag of its row).
THEOREM TokenIsSpentOnce == Spec => []RedeemedOncePerArming
<1>1. ApprovalInv => RedeemedOncePerArming
  BY DEF ApprovalInv
<1> QED
  BY <1>1, ApprovalCorrect, PTL

\* Only the record of a decision brings a notified request to one.
LEMMA DecisionSteps ==
    ASSUME TypeInv, Next, request.state = "manager-notified",
           request'.state \in {"manager-approved", "manager-rejected"}
    PROVE  \E w \in Worker :
              /\ At(w, "decide")
              /\ DecideAllowed(request, handler[w].approver)
              /\ request'.managerDecisionByRole = handler[w].approver
<1>0. request \in Row
  BY DEF TypeInv, Core
<1>1. UNCHANGED request => FALSE
  OBVIOUS
<1>2. ASSUME NEW w \in Worker, ApprovalStep(w)
      PROVE  \E decision \in {"approve", "reject"} : RecordDecision(w, decision)
  <2>1. CASE \/ LoadLapsed(w) \/ Crash(w)
             \/ Notify(w) \/ MarkNotified(w) \/ MarkFailed(w) \/ BindEmployee(w)
             \/ SubmitInvite(w) \/ ConfirmInvite(w) \/ InviteFailed(w)
             \/ SaveManagerSession(w) \/ OpenEscalation(w) \/ MailSkipManager(w)
    BY <1>1, <2>1
       DEF LoadLapsed, Crash, Notify, MarkNotified, MarkFailed, BindEmployee,
           SubmitInvite, ConfirmInvite, InviteFailed, SaveManagerSession, OpenEscalation,
           MailSkipManager, MarkManagerNotifiedAllowed, InviteOpen, Step, Write
  <2>2. CASE ExpireLapsed(w)
    BY <1>0, <2>2 DEF ExpireLapsed, Expire, Write, Row
  <2>3. ASSUME NEW a \in Approver, NEW token \in Approver,
               SignIn(w, a, token) \/ SignInCallback(w, a) \/ OpenDecision(w, a)
        PROVE  FALSE
    <3>1. BeginManagerSignIn(request, a).state = request.state
      BY <1>0 DEF BeginManagerSignIn, Row
    <3> QED
      BY <1>1, <2>3, <3>1 DEF SignIn, SignInCallback, OpenDecision, Step, Write
  <2>4. CASE Redeem(w) \/ Escalate(w)
    <3>1. /\ RedeemManagerToken(request).state = request.state
          /\ EscalateToSkipManager(request).state = request.state
      BY <1>0 DEF RedeemManagerToken, EscalateToSkipManager, Row
    <3> QED
      BY <1>1, <2>4, <3>1 DEF Redeem, Escalate, Step, Write
  <2>5. "direct-manager" \in Approver
    BY ApproverAssumption
  <2> QED
    BY <1>2, <2>1, <2>2, <2>3, <2>4, <2>5 DEF ApprovalStep
<1>3. ASSUME NEW w \in Worker, NEW decision, RecordDecision(w, decision)
      PROVE  /\ At(w, "decide")
             /\ DecideAllowed(request, handler[w].approver)
             /\ request'.managerDecisionByRole = handler[w].approver
  BY <1>0, <1>1, <1>3 DEF RecordDecision, Decide, Step, Write, Row
<1>4. ASSUME NEW w \in Worker, ExchangeStep(w) \/ TapStep(w) \/ ResetStep(w) PROVE FALSE
  BY <1>4, ExchangeChanges, TapChanges, ResetChanges
     DEF ExchangeRow, TapRow, ExchangeStates, VerifiedStates
<1>5. CASE Outside
  BY <1>1, <1>5, OutsideChanges
<1> QED
  BY <1>2, <1>3, <1>4, <1>5, StepGroups

\* A decision has a redeemed token and a sign-in behind it (recordManagerDecision and
\* the session test of its route).
THEOREM DecisionHasRedemption == Spec => DecisionFollowsRedemption
<1> DEFINE Follows ==
      (request.state = "manager-notified" /\
       request'.state \in {"manager-approved", "manager-rejected"})
      => /\ history.redeemedSinceArmed > 0
         /\ request'.managerDecisionByRole \in browser.signedIn
<1>1. TypeInv /\ ApprovalInv /\ [Next]_vars => [Follows]_vars
  BY DecisionSteps DEF ApprovalInv, DecideAllowed
<1> QED
  BY <1>1, InitType, NextType, InitApproval, NextApproval, PTL
     DEF Spec, DecisionFollowsRedemption

\* The etag that a reset compares stands for the state the administrator was shown.
THEOREM ResetKnowsTheState == Spec => ResetActsOnWhatWasSeen
<1> DEFINE Acts ==
      (\E w \in Worker, action \in AdminActions : AdminReset(w, action))
      => request.state = admin.seen
<1>1. ApprovalInv /\ [Next]_vars => [Acts]_vars
  BY DEF ApprovalInv, AdminReset, AdminResetAllowed
<1> QED
  BY <1>1, InitType, NextType, InitApproval, NextApproval, PTL
     DEF Spec, ResetActsOnWhatWasSeen

-----------------------------------------------------------------------------
(* Exchanges and their evidence *)

Whole(x, kind, reports) ==
    x.status = "active" =>
        /\ x.requestId = x.state
        /\ x.state \in Attempt
        /\ "created" \in reports[kind][x.state]

Reported(kind, reports) == \E n \in Attempt : "success" \in reports[kind][n]

\* An exchange that shows a code is whole; from the credential on the issuance is
\* done, from the presentation on both are, and both were reported.
RowEvidence(r, reports) ==
    /\ Whole(r.issuance, "issuance", reports)
    /\ Whole(r.presentation, "presentation", reports)
    /\ r.state \in IssuedStates => r.issuance.status = "done" /\ Reported("issuance", reports)
    /\ r.state \in VerifiedStates =>
          r.presentation.status = "done" /\ Reported("presentation", reports)

\* What a handler of an exchange knows of it at the service.
Engaged(local, reports) ==
    /\ local.at \in {"begin", "create", "attach", "fail"} => local.kind \in Kind
    /\ local.at \in {"create", "attach"} => local.n \in Attempt
    /\ local.at = "create" => "named" \in reports[local.kind][local.n]
    /\ local.at = "attach" => "created" \in reports[local.kind][local.n]
    /\ local.at = "callback" /\ local.status = "success" => Reported(local.kind, reports)

EvidenceInv ==
    /\ RowEvidence(request, attempts)
    /\ \A w \in Worker : Engaged(handler[w], attempts)

\* Nothing that happened to an exchange is forgotten.
Grown(reports, later) ==
    \A kind \in Kind, n \in Attempt : reports[kind][n] \subseteq later[kind][n]

LEMMA EvidenceGrows ==
    ASSUME NEW reports, NEW later, Grown(reports, later)
    PROVE  /\ \A r : RowEvidence(r, reports) => RowEvidence(r, later)
           /\ \A local \in ReadyLocal : Engaged(local, reports) => Engaged(local, later)
<1>1. \A kind \in Kind : Reported(kind, reports) => Reported(kind, later)
  BY DEF Grown, Reported
<1>2. \A kind \in Kind : \A x : Whole(x, kind, reports) => Whole(x, kind, later)
  BY DEF Grown, Whole
<1>3. ASSUME NEW local \in ReadyLocal, Engaged(local, reports) PROVE Engaged(local, later)
  <2>1. local.at = "callback" => local.kind \in Kind
    BY DEF ReadyLocal, Ready, Kind
  <2> QED
    BY <1>1, <1>3, <2>1 DEF Engaged, Grown
<1> QED
  BY <1>1, <1>2, <1>3 DEF RowEvidence, Kind

\* The evidence of the rows that an exchange's handlers write.
LEMMA BegunEvidence ==
    ASSUME NEW r \in Row, NEW reports, RowEvidence(r, reports), NEW n, NEW windowOver
    PROVE  /\ BeginIssuanceAllowed(r, windowOver) => RowEvidence(BeginIssuance(r, n), reports)
           /\ BeginPresentationAllowed(r, windowOver)
              => RowEvidence(BeginPresentation(r, n), reports)
           /\ AttachIssuanceAllowed(r, n) /\ n \in Attempt /\ "created" \in reports["issuance"][n]
              => RowEvidence(AttachIssuance(r, n), reports)
           /\ AttachPresentationAllowed(r, n) /\ n \in Attempt
              /\ "created" \in reports["presentation"][n]
              => RowEvidence(AttachPresentation(r, n), reports)
           /\ FailIssuanceAllowed(r, n) => RowEvidence(FailIssuance(r), reports)
           /\ FailPresentationAllowed(r, n) => RowEvidence(FailPresentation(r), reports)
<1> USE DEF RowEvidence, Whole, IssuedStates, VerifiedStates, Row, Exchange
<1>1. BeginIssuanceAllowed(r, windowOver) => RowEvidence(BeginIssuance(r, n), reports)
  BY DEF BeginIssuanceAllowed, BeginIssuance, Begun
<1>2. BeginPresentationAllowed(r, windowOver) => RowEvidence(BeginPresentation(r, n), reports)
  BY DEF BeginPresentationAllowed, BeginPresentation, Begun
<1>3. AttachIssuanceAllowed(r, n) /\ n \in Attempt /\ "created" \in reports["issuance"][n]
      => RowEvidence(AttachIssuance(r, n), reports)
  BY DEF AttachIssuanceAllowed, OwnsCreation, AttachIssuance, Attached
<1>4. AttachPresentationAllowed(r, n) /\ n \in Attempt /\ "created" \in reports["presentation"][n]
      => RowEvidence(AttachPresentation(r, n), reports)
  BY DEF AttachPresentationAllowed, OwnsCreation, AttachPresentation, Attached
<1>5. FailIssuanceAllowed(r, n) => RowEvidence(FailIssuance(r), reports)
  BY DEF FailIssuanceAllowed, FailIssuance
<1>6. FailPresentationAllowed(r, n) => RowEvidence(FailPresentation(r), reports)
  BY DEF FailPresentationAllowed, FailPresentation
<1> QED
  BY <1>1, <1>2, <1>3, <1>4, <1>5, <1>6

LEMMA ReportedEvidence ==
    ASSUME NEW r \in Row, NEW reports, RowEvidence(r, reports),
           NEW status \in {"retrieved", "error", "success"}
    PROVE  /\ IssuanceCallbackAllowed(r) /\ (status = "success" => Reported("issuance", reports))
              => RowEvidence(IssuanceCallback(r, status), reports)
           /\ HandlePresentationRetrievedAllowed(r)
              => RowEvidence(HandlePresentationRetrieved(r), reports)
           /\ HandlePresentationErrorAllowed(r) => RowEvidence(HandlePresentationError(r), reports)
           /\ RecordVerificationFailureAllowed(r)
              => RowEvidence(RecordVerificationFailure(r), reports)
           /\ MarkVerifiedAllowed(r) /\ Reported("presentation", reports)
              => RowEvidence(MarkVerified(r), reports)
<1> USE DEF RowEvidence, Whole, IssuedStates, VerifiedStates, Row, Exchange
<1>1. IssuanceCallbackAllowed(r) /\ (status = "success" => Reported("issuance", reports))
      => RowEvidence(IssuanceCallback(r, status), reports)
  BY DEF IssuanceCallbackAllowed, IssuanceCallback
<1>2. HandlePresentationRetrievedAllowed(r)
      => RowEvidence(HandlePresentationRetrieved(r), reports)
  BY DEF HandlePresentationRetrievedAllowed, HandlePresentationRetrieved
<1>3. HandlePresentationErrorAllowed(r) => RowEvidence(HandlePresentationError(r), reports)
  BY DEF HandlePresentationErrorAllowed, HandlePresentationError
<1>4. RecordVerificationFailureAllowed(r)
      => RowEvidence(RecordVerificationFailure(r), reports)
  BY DEF RecordVerificationFailureAllowed, RecordVerificationFailure
<1>5. MarkVerifiedAllowed(r) /\ Reported("presentation", reports)
      => RowEvidence(MarkVerified(r), reports)
  BY DEF MarkVerifiedAllowed, MarkVerified
<1> QED
  BY <1>1, <1>2, <1>3, <1>4, <1>5

\* A step that keeps the evidence of its row, and leaves its handler with what it
\* needs, keeps the invariant.
LEMMA EvidenceFrame ==
    ASSUME TypeInv, EvidenceInv, NEW w \in Worker, Others(w),
           Grown(attempts, attempts'),
           RowEvidence(request', attempts'), Engaged(handler'[w], attempts')
    PROVE  EvidenceInv'
<1>1. \A v \in Worker : handler[v] \in ReadyLocal
  BY DEF TypeInv, Core
<1> QED
  BY <1>1, EvidenceGrows DEF EvidenceInv, Others

LEMMA HappensGrows ==
    ASSUME TypeInv, NEW kind \in Kind, NEW n \in Attempt, NEW event, Happens(kind, n, event)
    PROVE  /\ Grown(attempts, attempts')
           /\ event \in attempts'[kind][n]
           /\ \A k \in Kind, m \in Attempt :
                 attempts'[k][m] = attempts[k][m] \/ (k = kind /\ m = n)
<1>1. \A k \in Kind, m \in Attempt :
         attempts'[k][m] = IF k = kind /\ m = n THEN attempts[k][m] \cup {event}
                           ELSE attempts[k][m]
  BY DEF TypeInv, AttemptsType, Happens
<1>2. \A k \in Kind, m \in Attempt : attempts[k][m] \subseteq attempts'[k][m]
  BY <1>1
<1>3. event \in attempts'[kind][n]
  BY <1>1
<1>4. \A k \in Kind, m \in Attempt :
         attempts'[k][m] = attempts[k][m] \/ (k = kind /\ m = n)
  BY <1>1
<1>5. Grown(attempts, attempts')
  BY <1>2 DEF Grown
<1> QED
  BY <1>3, <1>4, <1>5

LEMMA UnengagedLocal ==
    ASSUME NEW local, NEW reports, local.at \notin ExchangePlaces
    PROVE  Engaged(local, reports)
  BY DEF Engaged, ExchangePlaces

\* The exchange steps, one by one.
LEMMA OpenEvidence ==
    ASSUME TypeInv, EvidenceInv, NEW w \in Worker, NEW kind \in Kind,
           OpenExchange(w, kind)
    PROVE  EvidenceInv'
<1> DEFINE local == [Going("begin") EXCEPT !.kind = kind]
<1>1. local.at = "begin" /\ local.kind = kind
  BY GoingType DEF Local, Place
<1>2. Engaged(local, attempts)
  BY <1>1 DEF Engaged
<1>3. Grown(attempts, attempts)
  BY DEF Grown
<1> QED
  BY <1>2, <1>3, EvidenceFrame, StepTurn DEF OpenExchange, EvidenceInv

LEMMA ArrivalEvidence ==
    ASSUME TypeInv, EvidenceInv, NEW w \in Worker, NEW n \in Attempt, NEW event \in Event,
           IssuanceCallbackArrives(w, n, event) \/ PresentationCallbackArrives(w, n, event)
    PROVE  EvidenceInv'
<1>0. Grown(attempts, attempts) /\ "issuance" \in Kind /\ "presentation" \in Kind
  BY DEF Grown, Kind
<1>1. ASSUME NEW local, Step(w, local), Engaged(local, attempts), UNCHANGED attempts
      PROVE  EvidenceInv'
  BY <1>0, <1>1, EvidenceFrame, StepTurn DEF EvidenceInv
<1>2. CASE IssuanceCallbackArrives(w, n, event)
  <2> DEFINE local == [Going("callback") EXCEPT !.kind = "issuance", !.status = event]
  <2>1. local.at = "callback" /\ local.kind = "issuance" /\ local.status = event
    BY GoingType DEF Local, Place
  <2> QED
    BY <1>1, <1>2, <2>1 DEF IssuanceCallbackArrives, Engaged, Reported
<1>3. CASE PresentationCallbackArrives(w, n, event)
  <2> DEFINE next == AfterLookup(request.state, event)
             local == [Going(next) EXCEPT !.kind = "presentation", !.status = event]
  <2>1. next \in {"callback", "claim-tap"}
    BY <1>3 DEF PresentationCallbackArrives, AfterLookup
  <2>2. local.at = next /\ local.kind = "presentation" /\ local.status = event
    BY <2>1, GoingType DEF Local, Place
  <2>3. Engaged(local, attempts)
    BY <1>3, <2>1, <2>2 DEF PresentationCallbackArrives, Engaged, Reported
  <2> QED
    BY <1>1, <1>3, <2>3 DEF PresentationCallbackArrives
<1> QED
  BY <1>2, <1>3

LEMMA BeginEvidence ==
    ASSUME TypeInv, EvidenceInv, NEW w \in Worker, Begin(w)
    PROVE  EvidenceInv'
<1> DEFINE kind == handler[w].kind
           created(n) == [handler[w] EXCEPT !.at = "create", !.n = n]
<1>0. /\ request \in Row /\ handler[w] \in Local /\ kind \in Kind
      /\ RowEvidence(request, attempts) /\ Grown(attempts, attempts)
  BY DEF TypeInv, Core, ReadyLocal, EvidenceInv, Engaged, Begin, At, Grown
<1>1. CASE Step(w, Idle) /\ UNCHANGED attempts
  BY <1>0, <1>1, EvidenceFrame, GoingAt, StepTurn, UnengagedLocal DEF ExchangePlaces
<1>2. ASSUME BeginAllowed(kind), NEW n \in Attempt,
             Write(w, BeginRow(kind, n), created(n)), Happens(kind, n, "named")
      PROVE  EvidenceInv'
  <2>1. RowEvidence(BeginRow(kind, n), attempts)
    BY <1>0, <1>2, BegunEvidence DEF BeginAllowed, BeginRow
  <2>2. Grown(attempts, attempts') /\ "named" \in attempts'[kind][n]
    BY <1>0, <1>2, HappensGrows
  <2>3. RowEvidence(BeginRow(kind, n), attempts')
    BY <2>1, <2>2, EvidenceGrows
  <2>4. created(n).at = "create" /\ created(n).kind = kind /\ created(n).n = n
    BY <1>0 DEF Local
  <2>5. Engaged(created(n), attempts')
    BY <1>0, <2>2, <2>4 DEF Engaged
  <2> QED
    BY <1>2, <2>2, <2>3, <2>5, EvidenceFrame, WriteTurn
<1> QED
  BY <1>1, <1>2 DEF Begin

LEMMA CreateEvidence ==
    ASSUME TypeInv, EvidenceInv, NEW w \in Worker, Create(w)
    PROVE  EvidenceInv'
<1> DEFINE local == handler[w]
           moved(place) == [local EXCEPT !.at = place]
<1>0. /\ local \in Local /\ local.kind \in Kind /\ local.n \in Attempt
      /\ RowEvidence(request, attempts) /\ Grown(attempts, attempts)
  BY DEF TypeInv, Core, ReadyLocal, EvidenceInv, Engaged, Create, At, Grown
<1>1. \A place \in {"attach", "fail"} :
         moved(place).at = place /\ moved(place).kind = local.kind /\ moved(place).n = local.n
  BY <1>0 DEF Local, Place
<1>2. Happens(local.kind, local.n, "created")
      => Grown(attempts, attempts') /\ "created" \in attempts'[local.kind][local.n]
  BY <1>0, HappensGrows
<1>3. CASE Step(w, moved("attach")) /\ Happens(local.kind, local.n, "created")
  <2>1. Engaged(moved("attach"), attempts')
    BY <1>0, <1>1, <1>2, <1>3 DEF Engaged
  <2> QED
    BY <1>0, <1>2, <1>3, <2>1, EvidenceFrame, EvidenceGrows, StepTurn
<1>4. CASE /\ Step(w, moved("fail"))
           /\ Happens(local.kind, local.n, "created") \/ UNCHANGED attempts
  <2>1. Engaged(moved("fail"), attempts')
    BY <1>0, <1>1 DEF Engaged
  <2>2. Grown(attempts, attempts')
    BY <1>0, <1>2, <1>4
  <2> QED
    BY <1>0, <1>4, <2>1, <2>2, EvidenceFrame, EvidenceGrows, StepTurn
<1> QED
  BY <1>3, <1>4 DEF Create

LEMMA AttachEvidence ==
    ASSUME TypeInv, EvidenceInv, NEW w \in Worker, Attach(w) \/ Fail(w)
    PROVE  EvidenceInv'
<1> DEFINE local == handler[w]
           failing == [local EXCEPT !.at = "fail"]
<1>0. /\ request \in Row /\ local \in Local /\ local.kind \in Kind
      /\ RowEvidence(request, attempts) /\ Grown(attempts, attempts)
      /\ Engaged(Idle, attempts)
  BY GoingAt, UnengagedLocal
     DEF TypeInv, Core, ReadyLocal, EvidenceInv, Engaged, Attach, Fail, At, Grown, ExchangePlaces
<1>1. ASSUME NEW next, Step(w, next), Engaged(next, attempts), UNCHANGED attempts
      PROVE  EvidenceInv'
  BY <1>0, <1>1, EvidenceFrame, StepTurn
<1>2. ASSUME NEW row, NEW next, Write(w, row, next), Engaged(next, attempts),
             RowEvidence(row, attempts), UNCHANGED attempts
      PROVE  EvidenceInv'
  BY <1>0, <1>2, EvidenceFrame, WriteTurn
<1>3. CASE Attach(w)
  <2>1. local.n \in Attempt /\ "created" \in attempts[local.kind][local.n]
    BY <1>3 DEF Attach, At, EvidenceInv, Engaged
  <2>2. AttachAllowed(local.kind, local.n) =>
           RowEvidence(AttachRow(local.kind, local.n), attempts)
    BY <1>0, <2>1, BegunEvidence DEF AttachAllowed, AttachRow, Kind
  <2>3. failing.at = "fail" /\ failing.kind = local.kind
    BY <1>0 DEF Local
  <2>4. Engaged(failing, attempts)
    BY <1>0, <2>3 DEF Engaged
  <2> HIDE DEF failing
  <2>5. /\ UNCHANGED attempts
        /\ \/ Step(w, failing)
           \/ /\ AttachAllowed(local.kind, local.n)
              /\ \E next \in {Idle, failing} :
                    Write(w, AttachRow(local.kind, local.n), next)
    BY <1>3 DEF Attach, failing
  <2> QED
    BY <1>0, <1>1, <1>2, <2>2, <2>4, <2>5
<1>4. CASE Fail(w)
  <2>1. FailAllowed(local.kind, local.n) => RowEvidence(FailRow(local.kind), attempts)
    BY <1>0, BegunEvidence DEF FailAllowed, FailRow
  <2> QED
    BY <1>0, <1>1, <1>2, <1>4, <2>1 DEF Fail
<1> QED
  BY <1>3, <1>4

LEMMA CallbackEvidence ==
    ASSUME TypeInv, EvidenceInv, NEW w \in Worker,
           \/ ApplyIssuanceCallback(w)
           \/ ApplyPresentationReport(w) \/ ApplyPresentationSuccess(w)
    PROVE  EvidenceInv'
<1> DEFINE local == handler[w]
           claiming == [local EXCEPT !.at = "claim-tap"]
<1>0. /\ request \in Row /\ local \in Local /\ Ready(local) /\ local.at = "callback"
      /\ RowEvidence(request, attempts) /\ Grown(attempts, attempts)
      /\ Engaged(local, attempts)
  BY DEF TypeInv, Core, ReadyLocal, EvidenceInv, Grown, At,
         ApplyIssuanceCallback, ApplyPresentationReport, ApplyPresentationSuccess
<1>1. Engaged(Idle, attempts) /\ Engaged(claiming, attempts)
  BY <1>0, GoingAt, UnengagedLocal DEF ExchangePlaces, Local
<1>2. CASE Step(w, Idle) /\ UNCHANGED attempts
  BY <1>0, <1>1, <1>2, EvidenceFrame, StepTurn
<1>3. ASSUME NEW row, NEW next \in {Idle, claiming}, Write(w, row, next),
             RowEvidence(row, attempts), UNCHANGED attempts
      PROVE  EvidenceInv'
  BY <1>0, <1>1, <1>3, EvidenceFrame, WriteTurn
<1> HIDE DEF claiming
<1>4. CASE ApplyIssuanceCallback(w)
  <2>1. /\ local.status \in {"retrieved", "error", "success"}
        /\ local.status = "success" => Reported("issuance", attempts)
    BY <1>0, <1>4 DEF ApplyIssuanceCallback, Ready, Engaged
  <2>2. IssuanceCallbackAllowed(request) =>
           RowEvidence(IssuanceCallback(request, local.status), attempts)
    BY <1>0, <2>1, ReportedEvidence
  <2> QED
    BY <1>2, <1>3, <1>4, <2>2 DEF ApplyIssuanceCallback
<1>5. CASE ApplyPresentationReport(w)
  <2>1. local.status \in {"retrieved", "error", "bad"}
    BY <1>0, <1>5 DEF ApplyPresentationReport, Ready
  <2>2. ReportAllowed(local.status) => RowEvidence(ReportRow(local.status), attempts)
    BY <1>0, <2>1, ReportedEvidence DEF ReportAllowed, ReportRow
  <2> QED
    BY <1>2, <1>3, <1>5, <2>2 DEF ApplyPresentationReport
<1>6. CASE ApplyPresentationSuccess(w)
  <2>1. Reported("presentation", attempts)
    BY <1>0, <1>6 DEF ApplyPresentationSuccess, Engaged
  <2>2. MarkVerifiedAllowed(request) => RowEvidence(MarkVerified(request), attempts)
    BY <1>0, <2>1, ReportedEvidence
  <2> QED
    BY <1>2, <1>3, <1>6, <2>2 DEF ApplyPresentationSuccess, claiming
<1> QED
  BY <1>4, <1>5, <1>6

LEMMA InitEvidence == Init => EvidenceInv
<1> SUFFICES ASSUME Init PROVE EvidenceInv
  OBVIOUS
<1>1. \A w \in Worker : handler[w].at \in {"idle", "notify"}
  BY GoingAt DEF Init
<1>2. \A w \in Worker : Engaged(handler[w], attempts)
  BY <1>1 DEF Engaged
<1> DEFINE Blank(r) == /\ r.issuance.status = "none" /\ r.presentation.status = "none"
                       /\ r.state \in {"requested", "employee-invited"}
<1>a. Blank(RequestedRow)
  BY DEF RequestedRow, BlankRow, NoExchange
<1>b. Blank(InvitedRow)
  BY DEF InvitedRow, BlankRow, NoExchange
<1>3. Blank(request)
  BY <1>a, <1>b DEF Init
<1>4. RowEvidence(request, attempts)
  BY <1>3 DEF RowEvidence, Whole, IssuedStates, VerifiedStates
<1> QED
  BY <1>2, <1>4 DEF EvidenceInv

LEMMA NextEvidence == TypeInv /\ EvidenceInv /\ [Next]_vars => EvidenceInv'
<1> SUFFICES ASSUME TypeInv, EvidenceInv, [Next]_vars PROVE EvidenceInv'
  OBVIOUS
<1>0. RowEvidence(request, attempts) /\ Grown(attempts, attempts)
  BY DEF EvidenceInv, Grown
<1>1. ASSUME NEW w \in Worker, ApprovalStep(w) PROVE EvidenceInv'
  <2>1. RowEvidence(request', attempts)
    BY <1>0, <1>1, ApprovalChanges
       DEF RowEvidence, ApprovalRow, SameExchanges, IssuedStates, VerifiedStates, WaitingStates
  <2> QED
    BY <1>0, <1>1, <2>1, ApprovalChanges, EvidenceFrame, UnengagedLocal
<1>2. ASSUME NEW w \in Worker, ExchangeStep(w) PROVE EvidenceInv'
  BY <1>2, OpenEvidence, BeginEvidence, CreateEvidence, AttachEvidence, ArrivalEvidence,
     CallbackEvidence DEF ExchangeStep
<1>3. ASSUME NEW w \in Worker, TapStep(w) PROVE EvidenceInv'
  <2>1. RowEvidence(request', attempts)
    BY <1>0, <1>3, TapChanges
       DEF RowEvidence, Whole, TapRow, SameExchanges, IssuedStates, VerifiedStates
  <2> QED
    BY <1>0, <1>3, <2>1, TapChanges, EvidenceFrame, UnengagedLocal
       DEF ExchangePlaces, TapPlaces
<1>4. ASSUME NEW w \in Worker, ResetStep(w) PROVE EvidenceInv'
  <2>1. RowEvidence(request', attempts)
    BY <1>4, ResetChanges DEF RowEvidence, Whole, IssuedStates, VerifiedStates
  <2> QED
    BY <1>0, <1>4, <2>1, ResetChanges, EvidenceFrame, UnengagedLocal DEF ExchangePlaces
<1>5. CASE Outside
  <2>1. Grown(attempts, attempts') /\ UNCHANGED <<request, handler>>
    BY <1>5, OutsideChanges DEF Grown
  <2>2. \A w \in Worker : handler[w] \in ReadyLocal
    BY DEF TypeInv, Core
  <2> QED
    BY <2>1, <2>2, EvidenceGrows DEF EvidenceInv
<1>6. CASE UNCHANGED vars
  BY <1>6 DEF vars, EvidenceInv
<1> QED
  BY <1>1, <1>2, <1>3, <1>4, <1>5, <1>6, StepGroups

LEMMA EvidenceCorrect == Spec => []EvidenceInv
  BY InitType, NextType, InitEvidence, NextEvidence, PTL DEF Spec

\* Two exchanges started at the same time never mix: the callbacks of the code that
\* the employee sees will be found (attachIssuanceRequest, attachPresentationRequest).
THEOREM ShownExchangeIsWhole == Spec => []ActiveExchangeIsWhole
<1>1. EvidenceInv => ActiveExchangeIsWhole
  BY DEF EvidenceInv, RowEvidence, Whole, ActiveExchangeIsWhole, ExchangeOf, Kind
<1> QED
  BY <1>1, EvidenceCorrect, PTL

\* No error, late report or repeated callback leads past the credential without one.
THEOREM CredentialWasIssued == Spec => []IssuedCredentialExists
<1>1. EvidenceInv => IssuedCredentialExists
  BY DEF EvidenceInv, RowEvidence, Reported, IssuedCredentialExists, IssuedStates,
         VerifiedStates
<1> QED
  BY <1>1, EvidenceCorrect, PTL

\* ... or to verified without a presentation that passed validation.
THEOREM PresentationWasValid == Spec => []VerifiedMeansPresented
<1>1. EvidenceInv => VerifiedMeansPresented
  BY DEF EvidenceInv, RowEvidence, Reported, VerifiedMeansPresented, VerifiedStates
<1> QED
  BY <1>1, EvidenceCorrect, PTL

-----------------------------------------------------------------------------
(* Retry limits *)

Limit(kind) == IF kind = "issuance" THEN MaxIssuanceRetries ELSE MaxPresentationRetries

\* The retry counts of the row are the exchanges that were started.
RetryInv ==
    \A kind \in Kind :
        /\ ExchangeOf(request, kind).retryCount <= Limit(kind)
        /\ \A n \in Attempt : Named(kind, n) <=> n <= ExchangeOf(request, kind).retryCount

SameCounts(r, row) ==
    \A kind \in Kind : ExchangeOf(row, kind).retryCount = ExchangeOf(r, kind).retryCount

SameNames(reports, later) ==
    \A kind \in Kind, n \in Attempt : later[kind][n] # {} <=> reports[kind][n] # {}

LEMMA RetryFrame ==
    ASSUME RetryInv, SameCounts(request, request'), SameNames(attempts, attempts')
    PROVE  RetryInv'
  BY DEF RetryInv, SameCounts, SameNames, Named

LEMMA CountRows ==
    ASSUME NEW r \in Row, NEW n, NEW status \in {"retrieved", "error", "success"}
    PROVE  /\ SameCounts(r, r)
           /\ SameCounts(r, AttachIssuance(r, n))
           /\ SameCounts(r, FailIssuance(r))
           /\ SameCounts(r, AttachPresentation(r, n))
           /\ SameCounts(r, FailPresentation(r))
           /\ SameCounts(r, IssuanceCallback(r, status))
           /\ SameCounts(r, HandlePresentationRetrieved(r))
           /\ SameCounts(r, HandlePresentationError(r))
           /\ SameCounts(r, RecordVerificationFailure(r))
           /\ SameCounts(r, MarkVerified(r))
<1> USE DEF SameCounts, ExchangeOf, Kind, Row, Exchange
<1>1. /\ SameCounts(r, r)
      /\ SameCounts(r, AttachIssuance(r, n))
      /\ SameCounts(r, FailIssuance(r))
  BY DEF AttachIssuance, FailIssuance, Attached
<1>2. /\ SameCounts(r, AttachPresentation(r, n))
      /\ SameCounts(r, FailPresentation(r))
  BY DEF AttachPresentation, FailPresentation, Attached
<1>3. SameCounts(r, IssuanceCallback(r, status))
  BY DEF IssuanceCallback
<1>4. /\ SameCounts(r, HandlePresentationRetrieved(r))
      /\ SameCounts(r, HandlePresentationError(r))
  BY DEF HandlePresentationRetrieved, HandlePresentationError
<1>5. /\ SameCounts(r, RecordVerificationFailure(r))
      /\ SameCounts(r, MarkVerified(r))
  BY DEF RecordVerificationFailure, MarkVerified
<1> QED
  BY <1>1, <1>2, <1>3, <1>4, <1>5

\* An exchange that is started counts one more, and no other step counts.
LEMMA BegunCounts ==
    ASSUME NEW r \in Row, NEW kind \in Kind, NEW n
    PROVE  /\ kind = "issuance" =>
                /\ BeginIssuance(r, n).issuance.retryCount = r.issuance.retryCount + 1
                /\ BeginIssuance(r, n).presentation = r.presentation
           /\ kind = "presentation" =>
                /\ BeginPresentation(r, n).presentation.retryCount
                      = r.presentation.retryCount + 1
                /\ BeginPresentation(r, n).issuance = r.issuance
  BY DEF BeginIssuance, BeginPresentation, Begun, Row, Exchange

LEMMA BeginCounts ==
    ASSUME TypeInv, EvidenceInv, RetryInv, NEW w \in Worker, Begin(w)
    PROVE  RetryInv'
<1> DEFINE kind == handler[w].kind
           count(r, k) == ExchangeOf(r, k).retryCount
<1>0. /\ request \in Row /\ kind \in Kind
      /\ \A k \in Kind : count(request, k) \in Nat /\ Limit(k) \in Nat
  BY LimitsAssumption
     DEF TypeInv, Core, EvidenceInv, Engaged, Begin, At, ExchangeOf, Row, Exchange, Limit
<1>1. CASE Step(w, Idle) /\ UNCHANGED attempts
  BY <1>0, <1>1, RetryFrame, CountRows DEF Step, SameNames
<1>2. ASSUME BeginAllowed(kind), NEW n \in Attempt,
             ~Named(kind, n), \A m \in 1 .. n - 1 : Named(kind, m),
             request' = BeginRow(kind, n), Happens(kind, n, "named")
      PROVE  RetryInv'
  <2>1. /\ count(request, kind) < Limit(kind)
        /\ count(request', kind) = count(request, kind) + 1
        /\ \A k \in Kind \ {kind} : count(request', k) = count(request, k)
    BY <1>0, <1>2, BegunCounts
       DEF BeginAllowed, BeginIssuanceAllowed, BeginPresentationAllowed, BeginRow,
           ExchangeOf, Limit, Kind
  <2>2. \A k \in Kind, m \in Attempt :
           Named(k, m)' <=> Named(k, m) \/ (k = kind /\ m = n)
    <3>1. \A k \in Kind, m \in Attempt :
             attempts'[k][m] = IF k = kind /\ m = n THEN attempts[k][m] \cup {"named"}
                               ELSE attempts[k][m]
      BY <1>0, <1>2 DEF TypeInv, AttemptsType, Happens
    <3> HIDE DEF kind
    <3> QED
      BY <1>0, <3>1 DEF Named
  <2>3. n = count(request, kind) + 1
    <3>1. n \in Nat \ {0} /\ \A m \in 1 .. n - 1 : m \in Attempt
      BY BoundsAssumption DEF Attempt
    <3>2. ~(n <= count(request, kind))
      BY <1>0, <1>2 DEF RetryInv
    <3>3. n - 1 <= count(request, kind)
      <4>1. CASE n = 1
        BY <1>0, <4>1
      <4>2. CASE n # 1
        <5>1. n - 1 \in 1 .. n - 1 /\ n - 1 \in Attempt
          BY <3>1, <4>2
        <5> QED
          BY <1>0, <1>2, <5>1 DEF RetryInv
      <4> QED
        BY <4>1, <4>2
    <3> QED
      BY <1>0, <3>1, <3>2, <3>3
  <2>4. ASSUME NEW k \in Kind
        PROVE  /\ count(request', k) <= Limit(k)
               /\ \A m \in Attempt : Named(k, m)' <=> m <= count(request', k)
    <3>1. /\ count(request, k) <= Limit(k)
          /\ \A m \in Attempt : Named(k, m) <=> m <= count(request, k)
      BY DEF RetryInv
    <3>2. \A m \in Attempt : m \in Nat
      BY BoundsAssumption DEF Attempt
    <3> HIDE DEF count, kind
    <3>3. CASE k = kind
      BY <1>0, <2>1, <2>2, <2>3, <3>1, <3>2, <3>3
    <3>4. CASE k # kind
      BY <1>0, <2>1, <2>2, <3>1, <3>2, <3>4
    <3> QED
      BY <3>3, <3>4
  <2> QED
    BY <2>4 DEF RetryInv
<1> QED
  BY <1>1, <1>2 DEF Begin, Write

\* What happens to an exchange that was named names no other.
LEMMA HappensNames ==
    ASSUME TypeInv, NEW kind \in Kind, NEW n \in Attempt, NEW event,
           Named(kind, n), Happens(kind, n, event)
    PROVE  SameNames(attempts, attempts')
  BY HappensGrows DEF SameNames, Named

LEMMA ExchangeCounts ==
    ASSUME TypeInv, EvidenceInv, RetryInv, NEW w \in Worker, ExchangeStep(w)
    PROVE  RetryInv'
<1>0. /\ request \in Row /\ handler[w] \in Local /\ Ready(handler[w])
      /\ Engaged(handler[w], attempts) /\ SameNames(attempts, attempts)
      /\ SameCounts(request, request)
  BY CountRows DEF TypeInv, Core, ReadyLocal, EvidenceInv, SameNames
<1>1. ASSUME UNCHANGED request, SameNames(attempts, attempts') PROVE RetryInv'
  BY <1>0, <1>1, RetryFrame
<1>2. ASSUME NEW row, NEW local, Write(w, row, local), SameCounts(request, row),
             UNCHANGED attempts
      PROVE  RetryInv'
  BY <1>0, <1>2, RetryFrame DEF Write
<1>3. CASE Create(w)
  <2>1. Named(handler[w].kind, handler[w].n)
        /\ handler[w].kind \in Kind /\ handler[w].n \in Attempt
    BY <1>0, <1>3 DEF Create, At, Engaged, Named
  <2>2. SameNames(attempts, attempts')
    BY <1>0, <1>3, <2>1, HappensNames DEF Create
  <2> QED
    BY <1>1, <1>3, <2>2 DEF Create, Step
<1>4. CASE Attach(w) \/ Fail(w)
  <2>1. /\ \A n : SameCounts(request, AttachRow(handler[w].kind, n))
        /\ SameCounts(request, FailRow(handler[w].kind))
    BY <1>0, CountRows DEF AttachRow, FailRow
  <2> QED
    BY <1>0, <1>1, <1>2, <1>4, <2>1 DEF Attach, Fail, Step
<1>5. CASE ApplyIssuanceCallback(w)
  <2>1. handler[w].status \in {"retrieved", "error", "success"}
    BY <1>0, <1>5 DEF ApplyIssuanceCallback, At, Ready
  <2>2. SameCounts(request, IssuanceCallback(request, handler[w].status))
    BY <1>0, <2>1, CountRows
  <2> QED
    BY <1>0, <1>1, <1>2, <1>5, <2>2 DEF ApplyIssuanceCallback, Step
<1>6. CASE ApplyPresentationReport(w) \/ ApplyPresentationSuccess(w)
  <2>1. handler[w].status \in {"retrieved", "error", "bad", "success"}
    BY <1>0, <1>6 DEF ApplyPresentationReport, ApplyPresentationSuccess, At, Ready
  <2>2. /\ handler[w].status # "success" => SameCounts(request, ReportRow(handler[w].status))
        /\ SameCounts(request, MarkVerified(request))
    BY <1>0, <2>1, CountRows DEF ReportRow
  <2> QED
    BY <1>0, <1>1, <1>2, <1>6, <2>2
       DEF ApplyPresentationReport, ApplyPresentationSuccess, Step
<1>7. ASSUME NEW kind \in Kind, OpenExchange(w, kind) PROVE RetryInv'
  BY <1>0, <1>1, <1>7 DEF OpenExchange, Step
<1>8. ASSUME NEW n \in Attempt, NEW event \in Event,
             IssuanceCallbackArrives(w, n, event) \/ PresentationCallbackArrives(w, n, event)
      PROVE  RetryInv'
  BY <1>0, <1>1, <1>8 DEF IssuanceCallbackArrives, PresentationCallbackArrives, Step
<1> QED
  BY <1>3, <1>4, <1>5, <1>6, <1>7, <1>8, BeginCounts DEF ExchangeStep

LEMMA InitRetry == Init => RetryInv
<1> SUFFICES ASSUME Init PROVE RetryInv
  OBVIOUS
<1> DEFINE Unused(r) == \A kind \in Kind : ExchangeOf(r, kind).retryCount = 0
<1>1. Unused(RequestedRow)
  BY DEF RequestedRow, BlankRow, NoExchange, ExchangeOf
<1>2. Unused(InvitedRow)
  BY DEF InvitedRow, BlankRow, NoExchange, ExchangeOf
<1>3. Unused(request)
  BY <1>1, <1>2 DEF Init
<1>4. \A kind \in Kind, n \in Attempt : ~Named(kind, n)
  BY DEF Init, Named
<1>5. \A n \in Attempt : ~(n <= 0)
  BY BoundsAssumption DEF Attempt
<1> QED
  BY <1>3, <1>4, <1>5, LimitsAssumption DEF RetryInv, Limit

LEMMA NextRetry ==
    ASSUME "admin" \notin Events
    PROVE  TypeInv /\ EvidenceInv /\ RetryInv /\ [Next]_vars => RetryInv'
<1> SUFFICES ASSUME TypeInv, EvidenceInv, RetryInv, [Next]_vars PROVE RetryInv'
  OBVIOUS
<1>0. SameNames(attempts, attempts) /\ SameCounts(request, request)
  BY DEF SameNames, SameCounts
<1>1. ASSUME NEW w \in Worker, ApprovalStep(w) PROVE RetryInv'
  BY <1>0, <1>1, ApprovalChanges, RetryFrame
     DEF ApprovalRow, SameExchanges, SameCounts, ExchangeOf
<1>2. ASSUME NEW w \in Worker, TapStep(w) PROVE RetryInv'
  <2>1. SameCounts(request, request')
    BY <1>2, TapChanges DEF TapRow, SameExchanges, SameCounts, ExchangeOf
  <2> QED
    BY <1>0, <1>2, <2>1, TapChanges, RetryFrame
<1>3. ASSUME NEW w \in Worker, ResetStep(w) PROVE FALSE
  BY <1>3 DEF ResetStep, AdminReset
<1>4. CASE Outside
  <2>1. ASSUME NEW kind \in Kind, NEW n \in Attempt, NEW event \in Event, Wallet(kind, n, event)
        PROVE  SameNames(attempts, attempts')
    BY <2>1, HappensNames DEF Wallet, Named
  <2>2. SameNames(attempts, attempts')
    BY <1>0, <1>4, <2>1
       DEF Outside, ActivateInvite, AdminLookup, ActivateToken, DeadlinePasses, RegisterPasskey
  <2> QED
    BY <1>0, <1>4, <2>2, OutsideChanges, RetryFrame
<1>5. CASE UNCHANGED vars
  BY <1>0, <1>5, RetryFrame DEF vars
<1> QED
  BY <1>1, <1>2, <1>3, <1>4, <1>5, ExchangeCounts, StepGroups

LEMMA LimitsFollow == TypeInv /\ RetryInv => RetryLimitsHold
<1> SUFFICES ASSUME TypeInv, RetryInv PROVE RetryLimitsHold
  OBVIOUS
<1>1. ASSUME NEW kind \in Kind
      PROVE  Cardinality({n \in Attempt : Named(kind, n)}) <= Limit(kind)
  <2>1. Limit(kind) \in Nat
    BY LimitsAssumption DEF Limit
  <2>2. {n \in Attempt : Named(kind, n)} \in SUBSET (1 .. Limit(kind))
    <3>1. ASSUME NEW n \in Attempt, Named(kind, n) PROVE n \in 1 .. Limit(kind)
      <4> DEFINE count == ExchangeOf(request, kind).retryCount
      <4>1. n <= count /\ count <= Limit(kind)
        BY <3>1 DEF RetryInv
      <4>2. n \in Nat \ {0}
        BY BoundsAssumption DEF Attempt
      <4>3. count \in Nat
        BY DEF TypeInv, Core, ExchangeOf, Row, Exchange
      <4> QED
        BY <2>1, <4>1, <4>2, <4>3
    <3> QED
      BY <3>1
  <2>3. IsFiniteSet(1 .. Limit(kind)) /\ Cardinality(1 .. Limit(kind)) = Limit(kind)
    BY <2>1, FS_Interval
  <2> QED
    BY <2>2, <2>3, FS_Subset
<1> QED
  BY <1>1 DEF RetryLimitsHold, Kind, Limit

\* Requests and callbacks that overlap do not get past the retry limits
\* (beginIssuance, beginPresentation).  A restart by the administrator clears the
\* counts on purpose, so the theorem is about runs without one.
THEOREM RetriesAreLimited ==
    ASSUME "admin" \notin Events
    PROVE  Spec => []RetryLimitsHold
<1>1. Init => TypeInv /\ EvidenceInv /\ RetryInv
  BY InitType, InitEvidence, InitRetry
<1>2. TypeInv /\ EvidenceInv /\ RetryInv /\ [Next]_vars
      => TypeInv' /\ EvidenceInv' /\ RetryInv'
  BY NextType, NextEvidence, NextRetry
<1> QED
  BY <1>1, <1>2, LimitsFollow, PTL DEF Spec

-----------------------------------------------------------------------------
(* The passkey *)

\* No step of a handler or of the administrator revives a dead request.
LEMMA DeadStays ==
    ASSUME TypeInv, [Next]_vars, Dead
    PROVE  Dead'
<1>1. \A v \in Worker : Notifying(v)' => Notifying(v)
  <2>1. ASSUME NEW w \in Worker,
               ApprovalStep(w) \/ ExchangeStep(w) \/ TapStep(w) \/ ResetStep(w)
        PROVE  Others(w) /\ (Notifying(w)' => Notifying(w))
    BY <2>1, ApprovalChanges, ExchangeChanges, TapChanges, ResetChanges
       DEF Notifying, ExchangePlaces, TapPlaces
  <2>2. Outside \/ UNCHANGED vars => UNCHANGED handler
    BY OutsideChanges DEF vars
  <2> QED
    BY <2>1, <2>2, StepGroups DEF Others, Notifying
<1>2. Moves
  BY StateMoves
<1>3. CASE Terminal(request)
  BY <1>2, <1>3 DEF Moves, Dead, Terminal, TerminalStates
<1>4. CASE request.state = "requested" /\ \A v \in Worker : ~Notifying(v)
  BY <1>1, <1>2, <1>4 DEF Moves, Dead, Terminal, TerminalStates, Notifying
<1> QED
  BY <1>3, <1>4 DEF Dead

\* The methods that were registered when the employee's identity was proved are in
\* every list the operation and the row are given.
BaselineInv ==
    /\ history.methodsAtProof \subseteq graph.methods
    /\ \A w \in Worker : handler[w].at \in {"create-tap", "record-tap"} =>
          history.methodsAtProof \subseteq handler[w].methods
    /\ request.state = "tap-issued" => history.methodsAtProof \subseteq request.passkeyBaseline

\* A recorded passkey belongs to a registered request, or to one that will not be
\* proved again.
RecordedInv ==
    /\ PasskeyIsNew
    /\ request.passkeyMethodId # None => request.state = "passkey-registered" \/ Dead

PasskeyInv ==
    /\ BaselineInv /\ RecordedInv
    /\ \A w \in Worker : At(w, "record-tap") => graph.taps > 0

\* A step that keeps the passkey of the row and takes no list for an operation.
LEMMA PasskeyFrame ==
    ASSUME TypeInv, PasskeyInv, [Next]_vars,
           SamePasskey(request, request'),
           request'.state = "tap-issued" => request.state = "tap-issued",
           request.state = "passkey-registered" /\ request.passkeyMethodId # None
              => request'.state = "passkey-registered" \/ Dead',
           graph'.taps = graph.taps, graph.methods \subseteq graph'.methods,
           history'.methodsAtProof = history.methodsAtProof,
           \A w \in Worker : handler'[w].at \in {"create-tap", "record-tap"} =>
              handler'[w].at = handler[w].at /\ handler'[w].methods = handler[w].methods
    PROVE  PasskeyInv'
<1>1. BaselineInv'
  BY DEF PasskeyInv, BaselineInv, SamePasskey
<1>2. RecordedInv'
  BY DeadStays DEF PasskeyInv, RecordedInv, PasskeyIsNew, SamePasskey
<1>3. \A w \in Worker : At(w, "record-tap")' => graph'.taps > 0
  BY DEF PasskeyInv, At
<1> QED
  BY <1>1, <1>2, <1>3 DEF PasskeyInv

\* No operation is under way when the identity is proved, so no list is older.
LEMMA ProofPasskey ==
    ASSUME TypeInv, OperationInv, PasskeyInv, [Next]_vars,
           NEW w \in Worker, ApplyPresentationSuccess(w)
    PROVE  PasskeyInv'
<1> DEFINE claiming == [handler[w] EXCEPT !.at = "claim-tap"]
<1>0. request \in Row /\ handler[w] \in Local /\ claiming.at = "claim-tap"
  BY DEF TypeInv, Core, ReadyLocal, Local
<1>1. CASE Step(w, Idle) /\ UNCHANGED <<graph, history>>
  <2>1. Others(w) /\ handler'[w].at = "idle" /\ UNCHANGED request
    BY <1>1, StepTurn, GoingAt
  <2> QED
    BY <1>1, <2>1, PasskeyFrame DEF Others, SamePasskey
<1>2. CASE /\ MarkVerifiedAllowed(request)
           /\ Write(w, MarkVerified(request), claiming)
           /\ history' = [history EXCEPT !.methodsAtProof = graph.methods,
                                         !.abandoned = FALSE]
           /\ UNCHANGED graph
  <2> HIDE DEF claiming
  <2>1. Others(w) /\ handler'[w].at = "claim-tap" /\ request' = MarkVerified(request)
    BY <1>0, <1>2, WriteTurn
  <2>2. /\ request.state = "credential-presented"
        /\ request'.state = "verified"
        /\ request'.passkeyMethodId = request.passkeyMethodId
    BY <1>0, <1>2, <2>1 DEF MarkVerifiedAllowed, MarkVerified, Row
  <2>3. \A v \in Worker : ~Tapping(v)
    BY <2>2 DEF OperationInv, TapInv, Owns, Dead, Terminal, TerminalStates
  <2>4. request.passkeyMethodId = None
    BY <2>2 DEF PasskeyInv, RecordedInv, Dead, Terminal, TerminalStates
  <2>5. history'.methodsAtProof = graph.methods /\ None \notin graph.methods
    BY <1>2, NoneAssumption DEF TypeInv, HistoryType, GraphType
  <2>6. \A v \in Worker : handler'[v].at \notin {"create-tap", "record-tap"}
    BY <2>1, <2>3 DEF Others, Tapping, TapPlaces
  <2> QED
    BY <1>2, <2>2, <2>4, <2>5, <2>6
       DEF PasskeyInv, BaselineInv, RecordedInv, PasskeyIsNew, At
<1> QED
  BY <1>1, <1>2 DEF ApplyPresentationSuccess

\* The steps of the pass and the passkey, one by one.
LEMMA TapRowPasskey ==
    ASSUME NEW r \in Row, NEW op
    PROVE  /\ SamePasskey(r, ClaimTap(r, op)) /\ ClaimTap(r, op).state = r.state
           /\ SamePasskey(r, FailTap(r)) /\ FailTap(r).state = r.state
           /\ SamePasskey(r, TakeTapForDisplay(r)) /\ TakeTapForDisplay(r).state = r.state
  BY DEF SamePasskey, ClaimTap, FailTap, TakeTapForDisplay, Row

LEMMA PlainTapPasskey ==
    ASSUME TypeInv, PasskeyInv, [Next]_vars, NEW w \in Worker,
           \/ ClaimTapStep(w) \/ FailTapStep(w)
           \/ OpenDisplay(w) \/ OpenConfirm(w) \/ OpenComplete(w)
           \/ DisplayTap(w) \/ ListMethods(w)
    PROVE  PasskeyInv'
<1> DEFINE Calm(local) == local.at \notin {"create-tap", "record-tap"}
           Effect == /\ Others(w)
                     /\ handler'[w].at \notin {"create-tap", "record-tap"}
                     /\ SamePasskey(request, request') /\ request'.state = request.state
<1>0. request \in Row /\ handler[w] \in Local
  BY DEF TypeInv, Core, ReadyLocal
<1>1. ASSUME NEW local, Calm(local), Step(w, local) PROVE Effect
  BY <1>1, StepTurn DEF SamePasskey
<1>2. ASSUME NEW local, NEW row, Calm(local), Write(w, row, local),
             SamePasskey(request, row), row.state = request.state
      PROVE  Effect
  BY <1>2, WriteTurn
<1>3. /\ Calm(Idle)
      /\ \A place \in {"check-tap", "take", "list-methods", "confirm", "complete"} :
            /\ Calm(Going(place))
            /\ Calm([handler[w] EXCEPT !.at = place])
            /\ \A methods : Calm([handler[w] EXCEPT !.at = place, !.methods = methods])
  BY <1>0, GoingAt DEF Local
<1> HIDE DEF Calm, Effect
<1>4. Effect /\ UNCHANGED graph /\ history'.methodsAtProof = history.methodsAtProof
  <2>1. CASE ClaimTapStep(w) \/ FailTapStep(w)
    <3>1. Effect
      BY <1>0, <1>1, <1>2, <1>3, <2>1, TapRowPasskey DEF ClaimTapStep, FailTapStep
    <3> QED
      BY <2>1, <3>1 DEF ClaimTapStep, FailTapStep, Abandon, TypeInv, HistoryType
  <2>2. CASE OpenDisplay(w) \/ OpenConfirm(w) \/ OpenComplete(w) \/ ListMethods(w)
    BY <1>1, <1>3, <2>2 DEF OpenDisplay, OpenConfirm, OpenRoute, OpenComplete, ListMethods
  <2>3. CASE DisplayTap(w)
    <3>1. Effect
      BY <1>0, <1>1, <1>2, <1>3, <2>3, TapRowPasskey DEF DisplayTap
    <3> QED
      BY <2>3, <3>1 DEF DisplayTap, TypeInv, HistoryType
  <2> QED
    BY <2>1, <2>2, <2>3
<1> QED
  BY <1>4, PasskeyFrame DEF Effect, Others

LEMMA OperationPasskey ==
    ASSUME TypeInv, PasskeyInv, [Next]_vars, NEW w \in Worker,
           CheckEligibility(w) \/ CreateTap(w)
    PROVE  PasskeyInv'
<1> DEFINE local == handler'[w]
<1>0. /\ handler[w] \in Local /\ Others(w)
      /\ UNCHANGED <<request, history>> /\ graph'.methods = graph.methods
  BY StepTurn DEF TypeInv, Core, ReadyLocal, GraphType, CheckEligibility, CreateTap
<1>1. graph.taps \in Nat /\ graph'.taps \in {graph.taps, graph.taps + 1}
  BY BoundsAssumption DEF TypeInv, GraphType, CheckEligibility, CreateTap
<1>2. /\ local.at \in {"create-tap", "record-tap"}
           => history.methodsAtProof \subseteq local.methods
      /\ local.at = "record-tap" => graph'.taps > 0
  <2>1. CASE CheckEligibility(w)
    <3> DEFINE listed == [handler[w] EXCEPT !.at = "create-tap", !.methods = graph.methods]
               failing == [handler[w] EXCEPT !.at = "fail-tap"]
    <3>1. /\ listed.at = "create-tap" /\ listed.methods = graph.methods
          /\ failing.at = "fail-tap"
      BY <1>0 DEF Local
    <3> HIDE DEF listed, failing
    <3>2. local = listed \/ local = failing
      BY <2>1, StepTurn DEF CheckEligibility, listed, failing
    <3> QED
      BY <3>1, <3>2 DEF PasskeyInv, BaselineInv
  <2>2. CASE CreateTap(w)
    <3> DEFINE tap == graph.taps + 1
               recording == [handler[w] EXCEPT !.at = "record-tap", !.tap = tap]
               failing == [handler[w] EXCEPT !.at = "fail-tap"]
    <3>1. /\ recording.methods = handler[w].methods /\ failing.at = "fail-tap"
          /\ history.methodsAtProof \subseteq handler[w].methods
      BY <1>0, <2>2 DEF Local, CreateTap, At, PasskeyInv, BaselineInv
    <3> HIDE DEF recording, failing
    <3>2. \/ local = recording /\ graph' = [graph EXCEPT !.taps = tap]
          \/ local = failing
      BY <2>2, StepTurn DEF CreateTap, recording, failing
    <3>3. local = recording => graph'.taps > 0
      <4> HIDE DEF local
      <4> SUFFICES ASSUME local = recording PROVE graph'.taps > 0
        OBVIOUS
      <4>1. CASE graph' = [graph EXCEPT !.taps = tap]
        BY <1>1, <4>1 DEF TypeInv, GraphType
      <4>2. CASE local = failing
        <5>1. recording.at = "record-tap"
          BY <1>0 DEF recording, Local
        <5> QED
          BY <3>1, <4>2, <5>1
      <4> QED
        BY <3>2, <4>1, <4>2
    <3> QED
      BY <3>1, <3>2, <3>3
  <2> QED
    BY <2>1, <2>2
<1> HIDE DEF local
<1>3. BaselineInv'
  BY <1>0, <1>2 DEF PasskeyInv, BaselineInv, Others, local
<1>4. RecordedInv'
  BY <1>0, DeadStays DEF PasskeyInv, RecordedInv, PasskeyIsNew
<1>5. ASSUME NEW v \in Worker, At(v, "record-tap")' PROVE graph'.taps > 0
  <2>1. CASE v = w
    BY <1>2, <1>5, <2>1 DEF At, local
  <2>2. CASE v # w
    <3>1. graph.taps > 0
      BY <1>0, <1>5, <2>2 DEF PasskeyInv, At, Others
    <3> QED
      BY <1>1, <3>1
  <2> QED
    BY <2>1, <2>2
<1> QED
  BY <1>3, <1>4, <1>5 DEF PasskeyInv

LEMMA RecordPasskey ==
    ASSUME TypeInv, PasskeyInv, [Next]_vars, NEW w \in Worker, RecordTapStep(w)
    PROVE  PasskeyInv'
<1> DEFINE row == RecordTap(request, handler[w].tap, handler[w].methods)
           failing == [handler[w] EXCEPT !.at = "fail-tap"]
<1>0. /\ request \in Row /\ handler[w] \in Local /\ UNCHANGED <<graph, history>>
      /\ failing.at = "fail-tap" /\ Idle.at = "idle"
  BY GoingAt DEF TypeInv, Core, ReadyLocal, RecordTapStep, Local
<1>1. /\ row.state = "tap-issued" /\ row.passkeyBaseline = handler[w].methods
      /\ row.passkeyMethodId = request.passkeyMethodId
  BY <1>0 DEF RecordTap, Row
<1> HIDE DEF row, failing
<1>2. CASE Step(w, failing)
  <2>1. Others(w) /\ handler'[w] = failing /\ UNCHANGED request
    BY <1>2, StepTurn
  <2> QED
    BY <1>0, <2>1, PasskeyFrame DEF Others, SamePasskey
<1>3. CASE RecordTapAllowed(request, w) /\ Write(w, row, Idle)
  <2>1. Others(w) /\ handler'[w].at = "idle" /\ request' = row
    BY <1>0, <1>3, WriteTurn
  <2>2. history.methodsAtProof \subseteq handler[w].methods
    BY DEF PasskeyInv, BaselineInv, RecordTapStep, At
  <2>3. BaselineInv'
    BY <1>0, <1>1, <2>1, <2>2 DEF PasskeyInv, BaselineInv, Others
  <2>4. request.state = "verified"
    BY <1>3 DEF RecordTapAllowed
  <2>5. RecordedInv'
    BY <1>0, <1>1, <2>1, <2>4, DeadStays DEF PasskeyInv, RecordedInv, PasskeyIsNew
  <2>6. \A v \in Worker : At(v, "record-tap")' => graph'.taps > 0
    BY <1>0, <2>1 DEF PasskeyInv, At, Others
  <2> QED
    BY <2>3, <2>5, <2>6 DEF PasskeyInv
<1> QED
  BY <1>2, <1>3 DEF RecordTapStep, row, failing

LEMMA EndPasskey ==
    ASSUME TypeInv, PasskeyInv, [Next]_vars, NEW w \in Worker,
           Confirm(w) \/ CompleteStep(w)
    PROVE  PasskeyInv'
<1>0. request \in Row /\ UNCHANGED <<graph, history>> /\ Idle.at = "idle"
  BY GoingAt DEF TypeInv, Core, Confirm, CompleteStep
<1>1. CASE Step(w, Idle)
  <2>1. Others(w) /\ handler'[w] = Idle /\ UNCHANGED request
    BY <1>1, StepTurn
  <2> QED
    BY <1>0, <2>1, PasskeyFrame DEF Others, SamePasskey
<1>2. ASSUME NEW row, Write(w, row, Idle), row.state # "tap-issued",
             row.passkeyMethodId \notin history.methodsAtProof,
             row.passkeyMethodId # None => row.state = "passkey-registered" \/ Dead'
      PROVE  PasskeyInv'
  <2>1. Others(w) /\ handler'[w] = Idle /\ request' = row
    BY <1>2, WriteTurn
  <2>2. BaselineInv'
    BY <1>0, <1>2, <2>1 DEF PasskeyInv, BaselineInv, Others
  <2>3. RecordedInv'
    BY <1>0, <1>2, <2>1 DEF RecordedInv, PasskeyIsNew
  <2>4. \A v \in Worker : At(v, "record-tap")' => graph'.taps > 0
    BY <1>0, <2>1 DEF PasskeyInv, At, Others
  <2> QED
    BY <2>2, <2>3, <2>4 DEF PasskeyInv
<1>3. ASSUME NEW key \in NewMethods(request, handler[w].methods),
             ConfirmPasskeyAllowed(request, handler[w].methods),
             Write(w, ConfirmPasskey(request, key), Idle)
      PROVE  PasskeyInv'
  <2> DEFINE row == ConfirmPasskey(request, key)
  <2>1. row.state = "passkey-registered" /\ row.passkeyMethodId = key
    BY <1>0 DEF ConfirmPasskey, Row
  <2>2. key \notin history.methodsAtProof
    BY <1>3 DEF PasskeyInv, BaselineInv, NewMethods, ConfirmPasskeyAllowed
  <2> HIDE DEF row
  <2> QED
    BY <1>2, <1>3, <2>1, <2>2 DEF row
<1>4. CASE CompleteAllowed(request) /\ Write(w, Complete(request), Idle)
  <2> DEFINE row == Complete(request)
  <2>1. row.state = "complete" /\ row.passkeyMethodId = request.passkeyMethodId
    BY <1>0 DEF Complete, Row
  <2> HIDE DEF row
  <2>2. Write(w, row, Idle)
    BY <1>4 DEF row
  <2>3. request'.state = "complete"
    BY <2>1, <2>2, WriteTurn
  <2>4. Dead'
    BY <2>3 DEF Dead, Terminal, TerminalStates
  <2> QED
    BY <1>2, <2>1, <2>2, <2>4 DEF PasskeyInv, RecordedInv, PasskeyIsNew
<1> QED
  BY <1>1, <1>3, <1>4 DEF Confirm, CompleteStep

LEMMA InitPasskey == Init => PasskeyInv
<1> SUFFICES ASSUME Init PROVE PasskeyInv
  OBVIOUS
<1> DEFINE Blank(r) == r.state # "tap-issued" /\ r.passkeyMethodId = None
<1>1. Blank(RequestedRow) /\ Blank(InvitedRow)
  BY DEF RequestedRow, InvitedRow, BlankRow
<1>2. Blank(request)
  BY <1>1 DEF Init
<1>3. \A w \in Worker : handler[w].at \in {"idle", "notify"}
  BY GoingAt DEF Init
<1> QED
  BY <1>2, <1>3 DEF Init, PasskeyInv, BaselineInv, RecordedInv, PasskeyIsNew, At

LEMMA NextPasskey == TypeInv /\ OperationInv /\ PasskeyInv /\ [Next]_vars => PasskeyInv'
<1> SUFFICES ASSUME TypeInv, OperationInv, PasskeyInv, [Next]_vars PROVE PasskeyInv'
  OBVIOUS
<1> DEFINE Overtaken ==
      request.state = "passkey-registered" => request'.state = "passkey-registered" \/ Dead'
<1>1. ASSUME NEW w \in Worker, ApprovalStep(w) PROVE PasskeyInv'
  <2>1. request'.state = "tap-issued" => request.state = "tap-issued"
    BY <1>1, ApprovalChanges DEF ApprovalRow, WaitingStates
  <2>2. Overtaken
    BY <1>1, ApprovalChanges DEF ApprovalRow, WaitingStates, Dead, Terminal, TerminalStates
  <2> QED
    BY <1>1, <2>1, <2>2, ApprovalChanges, PasskeyFrame DEF ApprovalRow, Others, TapPlaces
<1>2. ASSUME NEW w \in Worker, ExchangeStep(w) PROVE PasskeyInv'
  <2>1. CASE ApplyPresentationSuccess(w)
    BY <2>1, ProofPasskey
  <2>2. CASE UNCHANGED history
    <3>1. /\ SamePasskey(request, request')
          /\ request'.state = "tap-issued" => request.state = "tap-issued"
          /\ Overtaken
      BY <1>2, ExchangeChanges DEF ExchangeRow, ExchangeStates
    <3> QED
      BY <1>2, <2>2, <3>1, ExchangeChanges, PasskeyFrame DEF Others, ExchangePlaces
  <2> QED
    BY <1>2, <2>1, <2>2, ExchangeChanges
<1>3. ASSUME NEW w \in Worker, TapStep(w) PROVE PasskeyInv'
  BY <1>3, PlainTapPasskey, OperationPasskey, RecordPasskey, EndPasskey DEF TapStep
<1>4. ASSUME NEW w \in Worker, ResetStep(w) PROVE PasskeyInv'
  <2>1. request'.state # "tap-issued"
    BY <1>4, ResetChanges
  <2>2. request.state = "passkey-registered" => Dead'
    <3> SUFFICES ASSUME request.state = "passkey-registered" PROVE Dead'
      OBVIOUS
    <3>1. \A v \in Worker : ~Notifying(v)
      BY DEF OperationInv, NotifyInv, Terminal, TerminalStates
    <3>2. \A v \in Worker : ~Notifying(v)'
      BY <1>4, <3>1, ResetChanges DEF Others, Notifying
    <3> QED
      BY <1>4, <3>2, ResetChanges DEF Dead, Terminal, TerminalStates
  <2> QED
    BY <1>4, <2>1, <2>2, ResetChanges, PasskeyFrame DEF Others
<1>5. CASE Outside \/ UNCHANGED vars
  <2>1. /\ UNCHANGED <<request, handler, history>>
        /\ graph'.taps = graph.taps /\ graph.methods \subseteq graph'.methods
    BY <1>5, OutsideChanges DEF vars
  <2> QED
    BY <2>1, PasskeyFrame DEF SamePasskey
<1> QED
  BY <1>1, <1>2, <1>3, <1>4, <1>5, StepGroups

LEMMA PasskeyCorrect == Spec => []PasskeyInv
  BY InitType, NextType, InitOperation, NextOperation, InitPasskey, NextPasskey, PTL DEF Spec

\* Lists of methods that were read before the proof, or before other handlers wrote,
\* never let a passkey of before the proof complete the request (issueTapOnce,
\* confirmPasskey).
THEOREM CompletedByNewPasskey == Spec => []PasskeyIsNew
<1>1. PasskeyInv => PasskeyIsNew
  BY DEF PasskeyInv, RecordedInv
<1> QED
  BY <1>1, PasskeyCorrect, PTL

-----------------------------------------------------------------------------
(* The portal implements RequestLifecycle *)

Working == \E w \in Worker : Tapping(w)

promise == <<stage, Working, graph.taps, history.shown>>

\* What a step of the portal is to be: a step of RequestLifecycle, or none.
Kept == Lifecycle!Next \/ UNCHANGED promise

\* Steps that only move the request.
Advances ==
    \/ stage' = stage \/ stage' = "closed"
    \/ stage = "waiting" /\ stage' = "approved"
    \/ stage = "approved" /\ stage' = "proved"
    \/ stage = "pass-issued" /\ stage' = "registered"
    \/ stage = "registered" /\ stage' = "complete"
    \/ stage \in Lifecycle!Open /\ stage' = "waiting"

LEMMA AdvanceKept ==
    ASSUME Advances, Working' <=> Working,
           graph'.taps = graph.taps, history'.shown = history.shown
    PROVE  Kept
<1>1. (\E w \in Worker : handler[w].at \in TapPlaces) <=> Working
  BY DEF Working, Tapping
<1>2. (\E w \in Worker : handler'[w].at \in TapPlaces) <=> Working'
  BY DEF Working, Tapping
<1> HIDE DEF Working
<1>3. stage' = stage => UNCHANGED promise
  BY DEF promise
<1>4. stage' # stage => Lifecycle!Next
  BY <1>1, <1>2
     DEF Advances, Lifecycle!Next, Lifecycle!Approve, Lifecycle!Prove, Lifecycle!Register,
         Lifecycle!Finish, Lifecycle!Restart, Lifecycle!Close, Lifecycle!Advance
<1> QED
  BY <1>3, <1>4 DEF Kept

\* The stages of the states, and the moves of a row.
LEMMA Stages ==
    /\ request.state \in WaitingStates => stage = "waiting"
    /\ request.state \in ExchangeStates => stage = "approved"
    /\ request.state = "verified" => stage = "proved"
    /\ request.state = "tap-issued" => stage = "pass-issued"
    /\ request.state = "passkey-registered" => stage = "registered"
    /\ request.state = "complete" => stage = "complete"
    /\ request.state \in TerminalStates \ {"complete"} => stage = "closed"
  BY DEF stage, WaitingStates, ExchangeStates, TerminalStates

LEMMA StagesNext ==
    /\ request'.state \in WaitingStates => stage' = "waiting"
    /\ request'.state \in ExchangeStates => stage' = "approved"
    /\ request'.state = "verified" => stage' = "proved"
    /\ request'.state = "tap-issued" => stage' = "pass-issued"
    /\ request'.state = "passkey-registered" => stage' = "registered"
    /\ request'.state = "complete" => stage' = "complete"
    /\ request'.state \in TerminalStates \ {"complete"} => stage' = "closed"
    /\ request'.state = request.state => stage' = stage
  BY DEF stage, WaitingStates, ExchangeStates, TerminalStates

LEMMA WorkingElsewhere ==
    ASSUME NEW w \in Worker, Others(w), ~Tapping(w), handler'[w].at \notin TapPlaces
    PROVE  Working' <=> Working
  BY DEF Working, Tapping, Others

\* An operation that ends leaves no other under way.
LEMMA OnlyTapper ==
    ASSUME OperationInv, NEW w \in Worker, Tapping(w), Others(w),
           handler'[w].at \notin TapPlaces
    PROVE  Working /\ ~Working'
  BY DEF OperationInv, OneTapOperation, Working, Tapping, Others

LEMMA StopKept ==
    ASSUME OperationInv, NEW w \in Worker, Tapping(w), Others(w),
           handler'[w].at \notin TapPlaces,
           request'.state = request.state,
           graph'.taps = graph.taps, history'.shown = history.shown
    PROVE  Kept
<1>1. /\ \E v \in Worker : handler[v].at \in TapPlaces
      /\ ~\E v \in Worker : handler'[v].at \in TapPlaces
  BY OnlyTapper DEF Working, Tapping
<1>2. stage' = stage
  BY StagesNext
<1>3. Lifecycle!StopWork
  BY <1>1, <1>2 DEF Lifecycle!StopWork
<1> QED
  BY <1>3 DEF Kept, Lifecycle!Next

LEMMA ApprovalKept ==
    ASSUME TypeInv, OperationInv, NEW w \in Worker, ApprovalStep(w)
    PROVE  Kept
<1>1. /\ Others(w) /\ handler'[w].at \notin TapPlaces
      /\ ApprovalRow(request, request')
      /\ graph'.taps = graph.taps /\ history'.shown = history.shown
  BY ApprovalChanges
<1>2. CASE Tapping(w)
  <2>1. Crash(w)
    BY <1>2
       DEF Tapping, TapPlaces, At, ApprovalStep, LoadLapsed, ExpireLapsed, Notify,
           MarkNotified, MarkFailed, BindEmployee, SubmitInvite, ConfirmInvite, InviteFailed,
           SignIn, SignInCallback, OpenDecision, Redeem, SaveManagerSession, RecordDecision,
           OpenEscalation, Escalate, MailSkipManager
  <2> QED
    BY <1>1, <1>2, <2>1, StopKept DEF Crash, Step
<1>3. CASE ~Tapping(w)
  <2>1. Advances
    BY <1>1, Stages, StagesNext
       DEF ApprovalRow, Advances, WaitingStates, ExchangeStates, TerminalStates
  <2> QED
    BY <1>1, <1>3, <2>1, AdvanceKept, WorkingElsewhere
<1> QED
  BY <1>2, <1>3

LEMMA ExchangeKept ==
    ASSUME TypeInv, NEW w \in Worker, ExchangeStep(w)
    PROVE  Kept
<1>1. /\ Others(w) /\ handler'[w].at \notin TapPlaces
      /\ ExchangeRow(request, request')
      /\ graph'.taps = graph.taps /\ history'.shown = history.shown
  BY ExchangeChanges DEF ExchangePlaces, TapPlaces
<1>2. ~Tapping(w)
  BY DEF Tapping, TapPlaces, At, ExchangeStep, OpenExchange, Begin, Create, Attach, Fail,
         IssuanceCallbackArrives, PresentationCallbackArrives, ApplyIssuanceCallback,
         ApplyPresentationReport, ApplyPresentationSuccess
<1>3. Advances
  BY <1>1, Stages, StagesNext DEF ExchangeRow, Advances, ExchangeStates, TerminalStates
<1> QED
  BY <1>1, <1>2, <1>3, AdvanceKept, WorkingElsewhere

LEMMA ResetKept ==
    ASSUME TypeInv, NEW w \in Worker, ResetStep(w)
    PROVE  Kept
<1>1. /\ Others(w) /\ handler'[w].at \notin TapPlaces
      /\ ~Terminal(request) /\ request'.state \in {"requested", "admin-cancelled"}
      /\ graph'.taps = graph.taps /\ history'.shown = history.shown
  BY ResetChanges DEF TapPlaces
<1>2. ~Tapping(w)
  BY DEF Tapping, TapPlaces, At, ResetStep, AdminReset
<1>3. stage \in Lifecycle!Open
  BY <1>1, Stages
     DEF TypeInv, Core, Row, States, Terminal, WaitingStates, ExchangeStates, Lifecycle!Open
<1>4. Advances
  BY <1>1, <1>3, StagesNext DEF Advances, WaitingStates, TerminalStates
<1> QED
  BY <1>1, <1>2, <1>4, AdvanceKept, WorkingElsewhere

\* Only a proved request without an operation starts one.
LEMMA ClaimKept ==
    ASSUME TypeInv, OperationInv, NEW w \in Worker, ClaimTapStep(w)
    PROVE  Kept
<1> DEFINE claimed == [handler[w] EXCEPT !.at = "check-tap"]
<1>0. /\ request \in Row /\ handler[w] \in Local /\ claimed.at = "check-tap"
      /\ Idle.at = "idle" /\ ~Tapping(w)
  BY GoingAt DEF TypeInv, Core, ReadyLocal, Local, ClaimTapStep, At, Tapping, TapPlaces
<1>1. UNCHANGED graph /\ history'.shown = history.shown
  BY DEF ClaimTapStep, Abandon, TypeInv, HistoryType
<1> HIDE DEF claimed
<1>2. CASE Step(w, Idle)
  <2>1. Others(w) /\ handler'[w] = Idle /\ UNCHANGED request
    BY <1>2, StepTurn
  <2>2. handler'[w].at \notin TapPlaces /\ Advances
    BY <1>0, <2>1, StagesNext DEF TapPlaces, Advances
  <2> QED
    BY <1>0, <1>1, <2>1, <2>2, AdvanceKept, WorkingElsewhere
<1>3. CASE ClaimTapAllowed(request) /\ Write(w, ClaimTap(request, w), claimed)
  <2>1. Others(w) /\ handler'[w] = claimed /\ request' = ClaimTap(request, w)
    BY <1>3, WriteTurn
  <2>2. request.state = "verified" /\ request'.state = request.state
    BY <1>0, <1>3, <2>1 DEF ClaimTapAllowed, ClaimTap, Row
  <2>3. stage = "proved" /\ stage' = stage
    BY <2>2, Stages, StagesNext
  <2>4. ~\E v \in Worker : handler[v].at \in TapPlaces
    BY <1>3, <2>2
       DEF OperationInv, TapInv, Owns, Dead, Terminal, TerminalStates, Tapping, ClaimTapAllowed
  <2>5. \E v \in Worker : handler'[v].at \in TapPlaces
    BY <1>0, <2>1 DEF TapPlaces
  <2>6. Lifecycle!StartWork
    BY <1>0, <1>1, <2>3, <2>4, <2>5 DEF Lifecycle!StartWork
  <2> QED
    BY <2>6 DEF Kept, Lifecycle!Next
<1>4. CASE ClaimTapAllowed(request) /\ Write(w, ClaimTap(request, w), Idle)
  <2>1. Others(w) /\ handler'[w] = Idle /\ request' = ClaimTap(request, w)
    BY <1>4, WriteTurn
  <2>2. request'.state = request.state
    BY <1>0, <2>1 DEF ClaimTap, Row
  <2>3. handler'[w].at \notin TapPlaces /\ Advances
    BY <1>0, <2>1, <2>2, StagesNext DEF TapPlaces, Advances
  <2> QED
    BY <1>0, <1>1, <2>1, <2>3, AdvanceKept, WorkingElsewhere
<1> QED
  BY <1>2, <1>3, <1>4 DEF ClaimTapStep, claimed

LEMMA CreateKept ==
    ASSUME TypeInv, NEW w \in Worker, CheckEligibility(w) \/ CreateTap(w)
    PROVE  Kept
<1>0. /\ UNCHANGED <<request, history>> /\ stage' = stage
      /\ \E v \in Worker : handler[v].at \in TapPlaces
  BY StagesNext DEF CheckEligibility, CreateTap, Step, At, TapPlaces
<1>1. \E v \in Worker : handler'[v].at \in TapPlaces
  <2>1. handler[w] \in Local
    BY DEF TypeInv, Core, ReadyLocal
  <2> DEFINE Busy(local) == local.at \in TapPlaces
  <2>2. \A place \in TapPlaces : \A tap, methods :
           /\ Busy([handler[w] EXCEPT !.at = place])
           /\ Busy([handler[w] EXCEPT !.at = place, !.tap = tap])
           /\ Busy([handler[w] EXCEPT !.at = place, !.methods = methods])
    BY <2>1 DEF Local
  <2>3. ASSUME NEW local, Busy(local), Step(w, local) PROVE Busy(handler'[w])
    BY <2>3, StepTurn
  <2> HIDE DEF Busy
  <2>4. Busy(handler'[w])
    BY <2>2, <2>3 DEF CheckEligibility, CreateTap, TapPlaces
  <2> QED
    BY <2>4 DEF Busy
<1>2. graph'.taps \in {graph.taps, graph.taps + 1}
  BY DEF TypeInv, GraphType, CheckEligibility, CreateTap
<1>3. graph'.taps = graph.taps => UNCHANGED promise
  BY <1>0, <1>1 DEF promise, Working, Tapping
<1>4. graph'.taps = graph.taps + 1 => Lifecycle!CreatePass
  BY <1>0, <1>1 DEF Lifecycle!CreatePass
<1> QED
  BY <1>2, <1>3, <1>4 DEF Kept, Lifecycle!Next

LEMMA IssueKept ==
    ASSUME TypeInv, OperationInv, PasskeyInv, NEW w \in Worker, RecordTapStep(w)
    PROVE  Kept
<1> DEFINE row == RecordTap(request, handler[w].tap, handler[w].methods)
           failing == [handler[w] EXCEPT !.at = "fail-tap"]
<1>0. /\ request \in Row /\ handler[w] \in Local /\ UNCHANGED <<graph, history>>
      /\ failing.at = "fail-tap" /\ Idle.at = "idle" /\ row.state = "tap-issued"
      /\ Tapping(w) /\ graph.taps > 0
  BY GoingAt
     DEF TypeInv, Core, ReadyLocal, RecordTapStep, Local, RecordTap, Row, At, Tapping,
         TapPlaces, PasskeyInv
<1> HIDE DEF row, failing
<1>1. CASE Step(w, failing)
  <2>1. handler'[w] = failing /\ UNCHANGED request
    BY <1>1, StepTurn
  <2>2. Working /\ Working'
    BY <1>0, <2>1 DEF Working, Tapping, TapPlaces
  <2> QED
    BY <1>0, <2>1, <2>2, StagesNext DEF Kept, promise
<1>2. CASE RecordTapAllowed(request, w) /\ Write(w, row, Idle)
  <2>1. Others(w) /\ handler'[w] = Idle /\ request' = row
    BY <1>2, WriteTurn
  <2>2. /\ \E v \in Worker : handler[v].at \in TapPlaces
        /\ ~\E v \in Worker : handler'[v].at \in TapPlaces
    BY <1>0, <2>1, OnlyTapper DEF Working, Tapping, TapPlaces
  <2>3. stage = "proved" /\ stage' = "pass-issued"
    BY <1>0, <1>2, <2>1, Stages, StagesNext DEF RecordTapAllowed
  <2>4. Lifecycle!IssuePass
    BY <1>0, <2>2, <2>3 DEF Lifecycle!IssuePass
  <2> QED
    BY <2>4 DEF Kept, Lifecycle!Next
<1> QED
  BY <1>1, <1>2 DEF RecordTapStep, row, failing

\* The pass that is shown is the last one, and was not shown before.
LEMMA ShowKept ==
    ASSUME TypeInv, OperationInv, NEW w \in Worker, DisplayTap(w)
    PROVE  Kept
<1>0. /\ request \in Row /\ Idle.at = "idle" /\ ~Tapping(w) /\ UNCHANGED graph
  BY GoingAt DEF TypeInv, Core, DisplayTap, At, Tapping, TapPlaces
<1>1. CASE Step(w, Idle) /\ UNCHANGED history
  <2>1. Others(w) /\ handler'[w] = Idle /\ UNCHANGED request
    BY <1>1, StepTurn
  <2>2. handler'[w].at \notin TapPlaces /\ Advances
    BY <1>0, <2>1, StagesNext DEF TapPlaces, Advances
  <2> QED
    BY <1>0, <1>1, <2>1, <2>2, AdvanceKept, WorkingElsewhere
<1>2. CASE /\ TakeTapAllowed(request) /\ Write(w, TakeTapForDisplay(request), Idle)
           /\ history' = [history EXCEPT !.shown = @ \cup {request.tapProtected}]
  <2>1. Others(w) /\ handler'[w] = Idle /\ request' = TakeTapForDisplay(request)
    BY <1>2, WriteTurn
  <2>2. request.state = "tap-issued" /\ request'.state = request.state
    BY <1>0, <1>2, <2>1 DEF TakeTapAllowed, TakeTapForDisplay, Row
  <2>3. stage = "pass-issued" /\ stage' = stage
    BY <2>2, Stages, StagesNext
  <2>4. request.tapProtected = graph.taps /\ request.tapProtected \notin history.shown
    BY <1>2 DEF OperationInv, NewestTapStored, NotRetainedAfterDisplay, TakeTapAllowed
  <2>5. history'.shown = history.shown \cup {graph.taps}
    BY <1>2, <2>4 DEF TypeInv, HistoryType
  <2>6. Working' <=> Working
    BY <1>0, <2>1, WorkingElsewhere DEF TapPlaces
  <2>7. (\E v \in Worker : handler'[v].at \in TapPlaces)
        <=> (\E v \in Worker : handler[v].at \in TapPlaces)
    BY <2>6 DEF Working, Tapping
  <2>8. Lifecycle!ShowPass
    BY <1>0, <2>3, <2>4, <2>5, <2>7 DEF Lifecycle!ShowPass
  <2> QED
    BY <2>8 DEF Kept, Lifecycle!Next
<1>3. CASE Write(w, TakeTapForDisplay(request), Idle) /\ UNCHANGED history
  <2>1. Others(w) /\ handler'[w] = Idle /\ request' = TakeTapForDisplay(request)
    BY <1>3, WriteTurn
  <2>2. request'.state = request.state
    BY <1>0, <2>1 DEF TakeTapForDisplay, Row
  <2>3. handler'[w].at \notin TapPlaces /\ Advances
    BY <1>0, <2>1, <2>2, StagesNext DEF TapPlaces, Advances
  <2> QED
    BY <1>0, <1>3, <2>1, <2>3, AdvanceKept, WorkingElsewhere
<1> QED
  BY <1>1, <1>2, <1>3 DEF DisplayTap

\* The other steps of the pass and the passkey.
LEMMA RouteKept ==
    ASSUME TypeInv, NEW w \in Worker,
           \/ OpenDisplay(w) \/ OpenConfirm(w) \/ OpenComplete(w)
           \/ ListMethods(w) \/ Confirm(w) \/ CompleteStep(w)
    PROVE  Kept
<1> DEFINE Calm(local) == local.at \notin TapPlaces
           Effect == Others(w) /\ handler'[w].at \notin TapPlaces /\ Advances
<1>0. /\ request \in Row /\ handler[w] \in Local /\ ~Tapping(w)
      /\ UNCHANGED <<graph, history>>
  BY DEF TypeInv, Core, ReadyLocal, Tapping, TapPlaces, At, OpenDisplay, OpenConfirm,
         OpenRoute, OpenComplete, ListMethods, Confirm, CompleteStep
<1>1. ASSUME NEW local, Calm(local), Step(w, local) PROVE Effect
  BY <1>1, StepTurn, StagesNext DEF Advances
<1>2. ASSUME NEW local, NEW row, Calm(local), Write(w, row, local),
             \/ request.state = "tap-issued" /\ row.state = "passkey-registered"
             \/ request.state = "passkey-registered" /\ row.state = "complete"
      PROVE  Effect
  <2>1. Others(w) /\ handler'[w] = local /\ request' = row
    BY <1>2, WriteTurn
  <2> QED
    BY <1>2, <2>1, Stages, StagesNext DEF Advances
<1>3. /\ Calm(Idle)
      /\ \A place \in {"take", "list-methods", "confirm", "complete"} :
            /\ Calm(Going(place))
            /\ \A methods : Calm([handler[w] EXCEPT !.at = place, !.methods = methods])
  BY <1>0, GoingAt DEF Local, TapPlaces
<1>4. /\ \A key : ConfirmPasskey(request, key).state = "passkey-registered"
      /\ Complete(request).state = "complete"
  BY <1>0 DEF ConfirmPasskey, Complete, Row
<1> HIDE DEF Calm, Effect
<1>5. OpenDisplay(w) \/ OpenConfirm(w) \/ OpenComplete(w) \/ ListMethods(w) => Effect
  BY <1>1, <1>3 DEF OpenDisplay, OpenConfirm, OpenRoute, OpenComplete, ListMethods
<1>6. Confirm(w) \/ CompleteStep(w) => Effect
  BY <1>1, <1>2, <1>3, <1>4
     DEF Confirm, CompleteStep, ConfirmPasskeyAllowed, CompleteAllowed
<1> QED
  BY <1>0, <1>5, <1>6, AdvanceKept, WorkingElsewhere DEF Effect

LEMMA FailKept ==
    ASSUME TypeInv, OperationInv, NEW w \in Worker, FailTapStep(w)
    PROVE  Kept
<1>0. /\ request \in Row /\ Idle.at = "idle" /\ Tapping(w) /\ UNCHANGED graph
      /\ history'.shown = history.shown
  BY GoingAt
     DEF TypeInv, Core, FailTapStep, Abandon, At, Tapping, TapPlaces, HistoryType
<1>1. Others(w) /\ handler'[w] = Idle /\ request' \in {request, FailTap(request)}
  BY StepTurn, WriteTurn DEF FailTapStep
<1>2. request'.state = request.state
  BY <1>0, <1>1 DEF FailTap, Row
<1> QED
  BY <1>0, <1>1, <1>2, StopKept DEF TapPlaces

LEMMA StepKept ==
    ASSUME TypeInv, OperationInv, PasskeyInv, [Next]_vars
    PROVE  Kept
<1>1. ASSUME NEW w \in Worker, TapStep(w) PROVE Kept
  BY <1>1, ClaimKept, CreateKept, IssueKept, FailKept, ShowKept, RouteKept DEF TapStep
<1>2. CASE Outside \/ UNCHANGED vars
  <2>1. /\ UNCHANGED <<request, handler, history>> /\ graph'.taps = graph.taps
    BY <1>2, OutsideChanges DEF vars
  <2>2. Advances /\ (Working' <=> Working)
    BY <2>1, StagesNext DEF Advances, Working, Tapping
  <2> QED
    BY <2>1, <2>2, AdvanceKept
<1> QED
  BY <1>1, <1>2, ApprovalKept, ExchangeKept, ResetKept, StepGroups

LEMMA InitKept == Init => Lifecycle!Init
<1> SUFFICES ASSUME Init PROVE Lifecycle!Init
  OBVIOUS
<1>1. \A w \in Worker : handler[w].at \notin TapPlaces
  BY GoingAt DEF Init, TapPlaces
<1>2. RequestedRow.state \in WaitingStates /\ InvitedRow.state \in WaitingStates
  BY DEF RequestedRow, InvitedRow, BlankRow, WaitingStates
<1>3. request.state \in WaitingStates
  BY <1>2 DEF Init
<1>4. stage = "waiting"
  BY <1>3, Stages
<1> QED
  BY <1>1, <1>4 DEF Init, Lifecycle!Init

\* However the handlers interleave, whatever fails and whoever resets the request, the
\* portal does what RequestLifecycle says and nothing else.
THEOREM PortalKeepsLifecycle == Spec => KeepsLifecycle
<1>1. Kept => [Lifecycle!Next]_(Lifecycle!lifecycle)
  BY DEF Kept, promise, Working, Tapping, Lifecycle!lifecycle
<1> QED
  BY <1>1, InitType, NextType, InitOperation, NextOperation, InitPasskey, NextPasskey,
     InitKept, StepKept, PTL
     DEF Spec, KeepsLifecycle, Lifecycle!Spec
====
