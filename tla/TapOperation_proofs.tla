------------------------- MODULE TapOperation_proofs -------------------------
(***************************************************************************)
(* Temporary Access Passes are created by one operation at a time.          *)
(***************************************************************************)
EXTENDS OnboardingPortal_proofs

-----------------------------------------------------------------------------
(* The argument.  A handler between claim and record owns the operation the *)
(* row names, or the request is dead: it has ended, or an administrator put *)
(* it back to requested after its notification, from where no handler is    *)
(* left to bring it to manager-notified again.  A claim needs a row that is *)
(* verified and names no operation under way, so it finds no such handler.  *)

Notifying(w) == handler[w].at \in {"notify", "mark-notified"}

Tapping(w) == handler[w].at \in TapPlaces

Dead ==
    \/ Terminal(request)
    \/ request.state = "requested" /\ \A w \in Worker : ~Notifying(w)

Owns(w) ==
    /\ request.state = "verified"
    /\ request.tapStatus = "creating"
    /\ request.tapOperationId = w

\* The one handler that notifies is the one that created the request.
NotifyInv ==
    /\ \A v, w \in Worker : Notifying(v) /\ Notifying(w) => v = w
    /\ \A w \in Worker : Notifying(w) => request.state = "requested" \/ Terminal(request)

TapInv == \A w \in Worker : Tapping(w) => Owns(w) \/ Dead

\* A pass that is created but not recorded is the last one and was never shown.
CreatedInv ==
    \A w \in Worker : At(w, "record-tap") =>
        handler[w].tap = graph.taps /\ handler[w].tap \notin history.shown

ShownInv == \A tap \in history.shown : tap <= graph.taps

OperationInv ==
    /\ NotifyInv /\ TapInv /\ OneTapOperation
    /\ CreatedInv /\ ShownInv /\ NewestTapStored /\ NotRetainedAfterDisplay

-----------------------------------------------------------------------------
(* Steps that neither notify nor create a pass *)

Plain(local) == local.at \notin TapPlaces \cup {"notify", "mark-notified"}

\* What every update other than the notification, the claim and the record of a
\* pass does to a row.
Quiet(r, row) ==
    /\ r.state = "verified" =>
          \/ row.state = "requested" \/ Terminal(row)
          \/ row.state = "verified" /\ row.tapStatus = r.tapStatus
             /\ row.tapOperationId = r.tapOperationId
    /\ Terminal(r) => Terminal(row)
    /\ r.state = "requested" => row.state = "requested" \/ Terminal(row)
    /\ row.state = "tap-issued" => r.state = "tap-issued"
    /\ row.tapProtected \in {0, r.tapProtected}

LEMMA Frame ==
    ASSUME TypeInv, OperationInv, NEW w \in Worker, NEW local, Plain(local),
           handler' = [handler EXCEPT ![w] = local],
           Quiet(request, request'),
           graph'.taps = graph.taps, history'.shown = history.shown
    PROVE  OperationInv'
<1>1. \A v \in Worker : handler'[v] = IF v = w THEN local ELSE handler[v]
  BY DEF TypeInv, Core
<1>2. \A v \in Worker : Notifying(v)' => Notifying(v)
  BY <1>1 DEF Notifying, Plain
<1>3. \A v \in Worker : Tapping(v)' => Tapping(v)
  BY <1>1 DEF Tapping, Plain
<1>4. \A v \in Worker : At(v, "record-tap")' => At(v, "record-tap") /\ handler'[v] = handler[v]
  BY <1>1 DEF At, Plain, TapPlaces
<1>5. NotifyInv'
  BY <1>2 DEF OperationInv, NotifyInv, Quiet
<1>6. TapInv'
  <2> SUFFICES ASSUME NEW v \in Worker, Tapping(v)' PROVE (Owns(v) \/ Dead)'
    BY DEF TapInv
  <2>1. Owns(v) \/ Dead
    BY <1>3 DEF OperationInv, TapInv
  <2>2. CASE Owns(v)
    <3>1. \A u \in Worker : ~Notifying(u)
      BY <2>2 DEF Owns, OperationInv, NotifyInv, Terminal, TerminalStates
    <3> QED
      BY <1>2, <2>2, <3>1 DEF Owns, Dead, Quiet, Terminal
  <2>3. CASE Dead
    BY <1>2, <2>3 DEF Dead, Quiet, Terminal
  <2> QED
    BY <2>1, <2>2, <2>3
<1>7. OneTapOperation'
  BY <1>3 DEF OperationInv, OneTapOperation, Tapping
<1>8. CreatedInv' /\ ShownInv'
  BY <1>4 DEF OperationInv, CreatedInv, ShownInv
<1>9. NewestTapStored'
  BY DEF OperationInv, NewestTapStored, Quiet
<1>10. NotRetainedAfterDisplay'
  <2>1. 0 \notin history.shown
    BY BoundsAssumption DEF TypeInv, HistoryType
  <2> QED
    BY <2>1 DEF OperationInv, NotRetainedAfterDisplay, Quiet
<1> QED
  BY <1>5, <1>6, <1>7, <1>8, <1>9, <1>10 DEF OperationInv

\* A handler that leaves the row alone.
LEMMA StepFrame ==
    ASSUME TypeInv, OperationInv, NEW w \in Worker, NEW local, Plain(local),
           Step(w, local), graph'.taps = graph.taps, history'.shown = history.shown
    PROVE  OperationInv'
<1>1. Quiet(request, request')
  BY DEF Quiet, Step
<1> QED
  BY <1>1, Frame DEF Step

\* A handler that replaces it by a quiet update.
LEMMA WriteFrame ==
    ASSUME TypeInv, OperationInv, NEW w \in Worker, NEW local, Plain(local),
           NEW row, Quiet(request, row),
           Write(w, row, local), graph'.taps = graph.taps, history'.shown = history.shown
    PROVE  OperationInv'
  BY Frame DEF Write

\* Steps outside the handlers.
LEMMA StillFrame ==
    ASSUME OperationInv, UNCHANGED <<request, handler>>,
           graph'.taps = graph.taps, history'.shown = history.shown
    PROVE  OperationInv'
<1>1. NotifyInv' /\ TapInv' /\ OneTapOperation'
  BY DEF OperationInv, NotifyInv, TapInv, OneTapOperation, Notifying, Tapping, Owns, Dead
<1>2. CreatedInv' /\ ShownInv' /\ NewestTapStored' /\ NotRetainedAfterDisplay'
  BY DEF OperationInv, CreatedInv, ShownInv, NewestTapStored, NotRetainedAfterDisplay, At
<1> QED
  BY <1>1, <1>2 DEF OperationInv

\* Where the handlers go.
LEMMA PlainIdle == Plain(Idle)
  BY DEF Plain, Idle, TapPlaces

LEMMA PlainPlaces ==
    ASSUME NEW place \in Place \ (TapPlaces \cup {"notify", "mark-notified"})
    PROVE  /\ Plain(Going(place))
           /\ \A a \in Approver : Plain([Going(place) EXCEPT !.approver = a])
           /\ \A kind \in Kind : Plain([Going(place) EXCEPT !.kind = kind])
           /\ \A kind \in Kind, status \in Event :
                 Plain([Going(place) EXCEPT !.kind = kind, !.status = status])
           /\ \A local \in Local :
                 /\ Plain([local EXCEPT !.at = place])
                 /\ \A methods \in SUBSET Key :
                       Plain([local EXCEPT !.at = place, !.methods = methods])
<1>1. Going(place) \in Local /\ Going(place).at = place
  BY GoingType
<1>2. ASSUME NEW x \in Local, x.at = place
      PROVE  /\ Plain(x)
             /\ \A a \in Approver : Plain([x EXCEPT !.approver = a])
             /\ \A kind \in Kind : Plain([x EXCEPT !.kind = kind])
             /\ \A kind \in Kind, status \in Event :
                   Plain([x EXCEPT !.kind = kind, !.status = status])
  BY <1>2 DEF Plain, Local
<1>3. ASSUME NEW x \in Local
      PROVE  /\ Plain([x EXCEPT !.at = place])
             /\ \A methods \in SUBSET Key :
                   Plain([x EXCEPT !.at = place, !.methods = methods])
  BY DEF Plain, Local
<1> QED
  BY <1>1, <1>2, <1>3

-----------------------------------------------------------------------------
(* The quiet updates *)

LEMMA QuietApproval ==
    ASSUME NEW r \in Row, NEW a, NEW decision
    PROVE  /\ Quiet(r, r)
           /\ Quiet(r, Expire(r))
           /\ EscalateAllowed(r) => Quiet(r, EscalateToSkipManager(r))
           /\ Quiet(r, BeginManagerSignIn(r, a))
           /\ Quiet(r, RedeemManagerToken(r))
           /\ DecideAllowed(r, a) => Quiet(r, Decide(r, a, decision))
<1> USE DEF Quiet, Row, Terminal, TerminalStates
<1>1. Quiet(r, r)
  OBVIOUS
<1>2. Quiet(r, Expire(r))
  BY DEF Expire
<1>3. EscalateAllowed(r) => Quiet(r, EscalateToSkipManager(r))
  BY DEF EscalateAllowed, EscalateToSkipManager
<1>4. Quiet(r, BeginManagerSignIn(r, a))
  BY DEF BeginManagerSignIn
<1>5. Quiet(r, RedeemManagerToken(r))
  BY DEF RedeemManagerToken
<1>6. DecideAllowed(r, a) => Quiet(r, Decide(r, a, decision))
  BY DEF DecideAllowed, Decide
<1> QED
  BY <1>1, <1>2, <1>3, <1>4, <1>5, <1>6

LEMMA QuietInvitation ==
    ASSUME NEW r \in Row, NEW tokenOver, InviteOpen(r, tokenOver)
    PROVE  /\ Quiet(r, ConfirmEmployeeInvite(r))
           /\ Quiet(r, RecordEmployeeInviteFailure(r))
<1> USE DEF Quiet, Row, Terminal, TerminalStates, InviteOpen
<1>1. Quiet(r, ConfirmEmployeeInvite(r))
  BY DEF ConfirmEmployeeInvite
<1>2. Quiet(r, RecordEmployeeInviteFailure(r))
  BY DEF RecordEmployeeInviteFailure
<1> QED
  BY <1>1, <1>2

LEMMA QuietReset ==
    ASSUME NEW r \in Row, NEW action, ~Terminal(r)
    PROVE  Quiet(r, AdminResetRequest(r, action))
<1>1. AdminResetRequest(r, action).state \in {"admin-cancelled", "requested"}
  BY DEF AdminResetRequest, Row
<1>2. AdminResetRequest(r, action).tapProtected = 0
  BY DEF AdminResetRequest, Row
<1> QED
  BY <1>1, <1>2 DEF Quiet, Terminal, TerminalStates

LEMMA QuietExchange ==
    ASSUME NEW r \in Row, NEW n, NEW windowOver
    PROVE  /\ BeginIssuanceAllowed(r, windowOver) => Quiet(r, BeginIssuance(r, n))
           /\ AttachIssuanceAllowed(r, n) => Quiet(r, AttachIssuance(r, n))
           /\ FailIssuanceAllowed(r, n) => Quiet(r, FailIssuance(r))
           /\ BeginPresentationAllowed(r, windowOver) => Quiet(r, BeginPresentation(r, n))
           /\ AttachPresentationAllowed(r, n) => Quiet(r, AttachPresentation(r, n))
           /\ FailPresentationAllowed(r, n) => Quiet(r, FailPresentation(r))
<1> USE DEF Quiet, Row, Terminal, TerminalStates
<1>1. BeginIssuanceAllowed(r, windowOver) => Quiet(r, BeginIssuance(r, n))
  BY DEF BeginIssuanceAllowed, BeginIssuance
<1>2. AttachIssuanceAllowed(r, n) => Quiet(r, AttachIssuance(r, n))
  BY DEF AttachIssuanceAllowed, AttachIssuance
<1>3. FailIssuanceAllowed(r, n) => Quiet(r, FailIssuance(r))
  BY DEF FailIssuanceAllowed, FailIssuance
<1>4. BeginPresentationAllowed(r, windowOver) => Quiet(r, BeginPresentation(r, n))
  BY DEF BeginPresentationAllowed, BeginPresentation
<1>5. AttachPresentationAllowed(r, n) => Quiet(r, AttachPresentation(r, n))
  BY DEF AttachPresentationAllowed, AttachPresentation
<1>6. FailPresentationAllowed(r, n) => Quiet(r, FailPresentation(r))
  BY DEF FailPresentationAllowed, FailPresentation
<1> QED
  BY <1>1, <1>2, <1>3, <1>4, <1>5, <1>6

LEMMA QuietCallback ==
    ASSUME NEW r \in Row, NEW status \in {"retrieved", "error", "success"}
    PROVE  /\ IssuanceCallbackAllowed(r) => Quiet(r, IssuanceCallback(r, status))
           /\ HandlePresentationRetrievedAllowed(r) => Quiet(r, HandlePresentationRetrieved(r))
           /\ HandlePresentationErrorAllowed(r) => Quiet(r, HandlePresentationError(r))
           /\ RecordVerificationFailureAllowed(r) => Quiet(r, RecordVerificationFailure(r))
           /\ MarkVerifiedAllowed(r) => Quiet(r, MarkVerified(r))
<1> USE DEF Quiet, Row, Terminal, TerminalStates
<1>1. IssuanceCallbackAllowed(r) => Quiet(r, IssuanceCallback(r, status))
  BY DEF IssuanceCallbackAllowed, IssuanceCallback
<1>2. HandlePresentationRetrievedAllowed(r) => Quiet(r, HandlePresentationRetrieved(r))
  BY DEF HandlePresentationRetrievedAllowed, HandlePresentationRetrieved
<1>3. HandlePresentationErrorAllowed(r) => Quiet(r, HandlePresentationError(r))
  BY DEF HandlePresentationErrorAllowed, HandlePresentationError
<1>4. RecordVerificationFailureAllowed(r) => Quiet(r, RecordVerificationFailure(r))
  BY DEF RecordVerificationFailureAllowed, RecordVerificationFailure
<1>5. MarkVerifiedAllowed(r) => Quiet(r, MarkVerified(r))
  BY DEF MarkVerifiedAllowed, MarkVerified
<1> QED
  BY <1>1, <1>2, <1>3, <1>4, <1>5

LEMMA QuietEnd ==
    ASSUME NEW r \in Row, NEW key
    PROVE  /\ TakeTapAllowed(r) => Quiet(r, TakeTapForDisplay(r))
           /\ r.state = "tap-issued" => Quiet(r, ConfirmPasskey(r, key))
           /\ CompleteAllowed(r) => Quiet(r, Complete(r))
<1> USE DEF Quiet, Row, Terminal, TerminalStates
<1>1. TakeTapAllowed(r) => Quiet(r, TakeTapForDisplay(r))
  BY DEF TakeTapAllowed, TakeTapForDisplay
<1>2. r.state = "tap-issued" => Quiet(r, ConfirmPasskey(r, key))
  BY DEF ConfirmPasskey
<1>3. CompleteAllowed(r) => Quiet(r, Complete(r))
  BY DEF CompleteAllowed, Complete
<1> QED
  BY <1>1, <1>2, <1>3

-----------------------------------------------------------------------------
(* The quiet steps *)

Settled ==
    /\ TypeInv /\ OperationInv
    /\ request \in Row
    /\ handler \in [Worker -> ReadyLocal]
    /\ \A w \in Worker : handler[w] \in Local

LEMMA SettledAtOnce == TypeInv /\ OperationInv => Settled
  BY DEF Settled, TypeInv, Core, ReadyLocal

\* The steps that change neither the passes nor what was shown.
LEMMA ApprovalQuiet ==
    ASSUME Settled, NEW w \in Worker, NEW a \in Approver, NEW token, NEW decision,
           NEW action,
           \/ LoadLapsed(w) \/ ExpireLapsed(w) \/ Crash(w)
           \/ MarkFailed(w) \/ BindEmployee(w)
           \/ SubmitInvite(w) \/ ConfirmInvite(w) \/ InviteFailed(w)
           \/ SignIn(w, a, token) \/ SignInCallback(w, a)
           \/ Redeem(w) \/ SaveManagerSession(w)
           \/ OpenDecision(w, a) \/ RecordDecision(w, decision)
           \/ OpenEscalation(w) \/ Escalate(w) \/ MailSkipManager(w)
           \/ AdminReset(w, action)
    PROVE  OperationInv'
<1> USE DEF Place, TapPlaces
<1>0. /\ TypeInv /\ OperationInv /\ request \in Row /\ handler[w] \in Local
      /\ Plain(Idle) /\ Quiet(request, request)
  BY PlainIdle, QuietApproval DEF Settled
<1>1. CASE LoadLapsed(w)
  BY <1>0, <1>1, PlainPlaces, StepFrame DEF LoadLapsed
<1>2. CASE ExpireLapsed(w)
  BY <1>0, <1>2, QuietApproval, WriteFrame DEF ExpireLapsed
<1>3. CASE Crash(w)
  <2>1. history'.shown = history.shown
    BY <1>0, <1>3 DEF Crash, TypeInv, HistoryType
  <2> QED
    BY <1>0, <1>3, <2>1, StepFrame DEF Crash
<1>4. CASE MarkFailed(w)
  BY <1>0, <1>4, PlainPlaces, StepFrame, WriteFrame DEF MarkFailed
<1>5. CASE BindEmployee(w)
  BY <1>0, <1>5, StepFrame DEF BindEmployee
<1>6. CASE SubmitInvite(w)
  BY <1>0, <1>6, PlainPlaces, StepFrame DEF SubmitInvite
<1>7. CASE ConfirmInvite(w)
  BY <1>0, <1>7, PlainPlaces, QuietInvitation, StepFrame, WriteFrame DEF ConfirmInvite
<1>8. CASE InviteFailed(w)
  BY <1>0, <1>8, QuietInvitation, StepFrame, WriteFrame DEF InviteFailed
<1>9. CASE SignIn(w, a, token)
  BY <1>0, <1>9, QuietApproval, WriteFrame DEF SignIn
<1>10. CASE SignInCallback(w, a)
  BY <1>0, <1>10, PlainPlaces, StepFrame, WriteFrame DEF SignInCallback
<1>11. CASE Redeem(w)
  <2>1. history'.shown = history.shown
    BY <1>0, <1>11 DEF Redeem, TypeInv, HistoryType
  <2>2. Plain([handler[w] EXCEPT !.at = "save-session"])
    BY <1>0, PlainPlaces
  <2>3. Quiet(request, RedeemManagerToken(request))
    BY <1>0, QuietApproval
  <2> QED
    BY <1>0, <1>11, <2>1, <2>2, <2>3, StepFrame, WriteFrame DEF Redeem
<1>12. CASE SaveManagerSession(w)
  BY <1>0, <1>12, StepFrame DEF SaveManagerSession
<1>13. CASE OpenDecision(w, a)
  BY <1>0, <1>13, PlainPlaces, StepFrame, WriteFrame DEF OpenDecision
<1>14. CASE RecordDecision(w, decision)
  BY <1>0, <1>14, QuietApproval, StepFrame, WriteFrame DEF RecordDecision
<1>15. CASE OpenEscalation(w)
  BY <1>0, <1>15, PlainPlaces, StepFrame DEF OpenEscalation
<1>16. CASE Escalate(w)
  <2>1. history'.shown = history.shown
    BY <1>0, <1>16 DEF Escalate, TypeInv, HistoryType
  <2>2. Plain(Going("mail-skip"))
    BY PlainPlaces
  <2>3. EscalateAllowed(request) => Quiet(request, EscalateToSkipManager(request))
    BY <1>0, QuietApproval
  <2> QED
    BY <1>0, <1>16, <2>1, <2>2, <2>3, StepFrame, WriteFrame DEF Escalate
<1>17. CASE MailSkipManager(w)
  BY <1>0, <1>17, StepFrame DEF MailSkipManager
<1>18. CASE AdminReset(w, action)
  <2>1. history'.shown = history.shown
    BY <1>0, <1>18 DEF AdminReset, TypeInv, HistoryType
  <2>2. Quiet(request, AdminResetRequest(request, action))
    BY <1>0, <1>18, QuietReset DEF AdminReset, AdminResetAllowed
  <2>3. Plain(IF LapsedOnLoad(AdminResetRequest(request, action), "request" \in due)
              THEN Going("expire") ELSE Idle)
    BY <1>0, PlainPlaces
  <2> QED
    BY <1>0, <1>18, <2>1, <2>2, <2>3, WriteFrame DEF AdminReset
<1> QED
  BY <1>1, <1>2, <1>3, <1>4, <1>5, <1>6, <1>7, <1>8, <1>9, <1>10, <1>11, <1>12,
     <1>13, <1>14, <1>15, <1>16, <1>17, <1>18

LEMMA ExchangeQuiet ==
    ASSUME Settled, NEW w \in Worker, NEW kind \in Kind, NEW n, NEW event \in Event,
           \/ OpenExchange(w, kind) \/ Begin(w) \/ Create(w) \/ Attach(w) \/ Fail(w)
           \/ IssuanceCallbackArrives(w, n, event) \/ ApplyIssuanceCallback(w)
           \/ ApplyPresentationReport(w)
    PROVE  OperationInv'
<1> USE DEF Place, TapPlaces
<1>0. /\ TypeInv /\ OperationInv /\ request \in Row
      /\ handler[w] \in Local /\ handler[w] \in ReadyLocal
      /\ Plain(Idle) /\ Quiet(request, request)
  BY PlainIdle, QuietApproval DEF Settled
<1>1. CASE OpenExchange(w, kind)
  BY <1>0, <1>1, PlainPlaces, StepFrame DEF OpenExchange
<1>2. CASE Begin(w)
  <2>1. BeginAllowed(handler[w].kind) =>
           \A m \in Attempt : Quiet(request, BeginRow(handler[w].kind, m))
    BY <1>0, QuietExchange DEF BeginAllowed, BeginRow
  <2>2. ASSUME NEW m \in Attempt PROVE Plain([handler[w] EXCEPT !.at = "create", !.n = m])
    BY <1>0 DEF Plain, Local
  <2> QED
    BY <1>0, <1>2, <2>1, <2>2, StepFrame, WriteFrame DEF Begin
<1>3. CASE Create(w)
  BY <1>0, <1>3, PlainPlaces, StepFrame DEF Create
<1>4. CASE Attach(w)
  <2>1. AttachAllowed(handler[w].kind, handler[w].n) =>
           Quiet(request, AttachRow(handler[w].kind, handler[w].n))
    BY <1>0, QuietExchange DEF AttachAllowed, AttachRow
  <2> QED
    BY <1>0, <1>4, <2>1, PlainPlaces, StepFrame, WriteFrame DEF Attach
<1>5. CASE Fail(w)
  <2>1. FailAllowed(handler[w].kind, handler[w].n) =>
           Quiet(request, FailRow(handler[w].kind))
    BY <1>0, QuietExchange DEF FailAllowed, FailRow
  <2> QED
    BY <1>0, <1>5, <2>1, StepFrame, WriteFrame DEF Fail
<1>6. CASE IssuanceCallbackArrives(w, n, event)
  BY <1>0, <1>6, PlainPlaces, StepFrame DEF IssuanceCallbackArrives, Kind
<1>7. CASE ApplyIssuanceCallback(w)
  <2>1. handler[w].status \in {"retrieved", "error", "success"}
    BY <1>0, <1>7 DEF ApplyIssuanceCallback, At, ReadyLocal, Ready
  <2> QED
    BY <1>0, <1>7, <2>1, QuietCallback, StepFrame, WriteFrame DEF ApplyIssuanceCallback
<1>8. CASE ApplyPresentationReport(w)
  <2>1. handler[w].status \in {"retrieved", "error", "bad"}
    BY <1>0, <1>8 DEF ApplyPresentationReport, At, ReadyLocal, Ready
  <2>2. ReportAllowed(handler[w].status) => Quiet(request, ReportRow(handler[w].status))
    BY <1>0, <2>1, QuietCallback DEF ReportAllowed, ReportRow
  <2> QED
    BY <1>0, <1>8, <2>2, StepFrame, WriteFrame DEF ApplyPresentationReport
<1> QED
  BY <1>1, <1>2, <1>3, <1>4, <1>5, <1>6, <1>7, <1>8

\* The presentation's success, the employee's routes.
LEMMA RoutesQuiet ==
    ASSUME Settled, NEW w \in Worker, NEW n, NEW event \in Event,
           \/ PresentationCallbackArrives(w, n, event) \/ ApplyPresentationSuccess(w)
           \/ OpenDisplay(w) \/ OpenConfirm(w) \/ OpenComplete(w)
           \/ ListMethods(w) \/ Confirm(w) \/ CompleteStep(w)
    PROVE  OperationInv'
<1> USE DEF Place, TapPlaces
<1>0. /\ TypeInv /\ OperationInv /\ request \in Row
      /\ handler[w] \in Local
      /\ Plain(Idle) /\ Quiet(request, request)
  BY PlainIdle, QuietApproval DEF Settled
<1>1. CASE PresentationCallbackArrives(w, n, event)
  <2> DEFINE next == AfterLookup(request.state, event)
  <2>1. next \in {"callback", "claim-tap"}
    BY <1>1 DEF PresentationCallbackArrives, AfterLookup, Event
  <2>2. Plain([Going(next) EXCEPT !.kind = "presentation", !.status = event])
    BY <2>1, PlainPlaces DEF Kind
  <2> QED
    BY <1>0, <1>1, <2>2, StepFrame DEF PresentationCallbackArrives
<1>2. CASE ApplyPresentationSuccess(w)
  <2>1. history'.shown = history.shown
    BY <1>0, <1>2 DEF ApplyPresentationSuccess, TypeInv, HistoryType
  <2>2. Plain([handler[w] EXCEPT !.at = "claim-tap"])
    BY <1>0, PlainPlaces
  <2>3. MarkVerifiedAllowed(request) => Quiet(request, MarkVerified(request))
    BY <1>0, QuietCallback
  <2> QED
    BY <1>0, <1>2, <2>1, <2>2, <2>3, StepFrame, WriteFrame DEF ApplyPresentationSuccess
<1>3. CASE OpenDisplay(w) \/ OpenConfirm(w)
  BY <1>0, <1>3, PlainPlaces, StepFrame DEF OpenDisplay, OpenConfirm, OpenRoute
<1>4. CASE OpenComplete(w)
  BY <1>0, <1>4, PlainPlaces, StepFrame DEF OpenComplete
<1>5. CASE ListMethods(w)
  <2>1. Plain([handler[w] EXCEPT !.at = "confirm", !.methods = graph.methods])
    BY <1>0 DEF Plain, Local
  <2> QED
    BY <1>0, <1>5, <2>1, StepFrame DEF ListMethods
<1>6. CASE Confirm(w)
  BY <1>0, <1>6, QuietEnd, StepFrame, WriteFrame DEF Confirm, ConfirmPasskeyAllowed
<1>7. CASE CompleteStep(w)
  BY <1>0, <1>7, QuietEnd, StepFrame, WriteFrame DEF CompleteStep
<1> QED
  BY <1>1, <1>2, <1>3, <1>4, <1>5, <1>6, <1>7

-----------------------------------------------------------------------------
(* The notification *)

\* The notifier goes on to say so, or leaves.
LEMMA NotifyStep ==
    ASSUME Settled, NEW w \in Worker, Notify(w)
    PROVE  OperationInv'
<1>0. /\ TypeInv /\ OperationInv /\ handler \in [Worker -> ReadyLocal]
      /\ UNCHANGED <<graph, history>> /\ At(w, "notify")
  BY DEF Settled, Notify
<1>1. CASE Step(w, Going("mark-failed"))
  <2>1. Plain(Going("mark-failed"))
    BY PlainPlaces DEF Place, TapPlaces
  <2> QED
    BY <1>0, <1>1, <2>1, StepFrame
<1>2. CASE Step(w, Going("mark-notified"))
  <2>1. /\ \A v \in Worker : Notifying(v)' <=> Notifying(v)
        /\ \A v \in Worker : Tapping(v)' <=> Tapping(v)
        /\ \A v \in Worker : At(v, "record-tap")' => At(v, "record-tap") /\ handler'[v] = handler[v]
    <3>1. Going("mark-notified").at = "mark-notified"
      BY GoingType DEF Place
    <3> QED
      BY <1>0, <1>2, <3>1 DEF Step, Notifying, Tapping, At, TapPlaces
  <2>2. NotifyInv' /\ TapInv' /\ OneTapOperation'
    BY <1>0, <1>2, <2>1
       DEF OperationInv, NotifyInv, TapInv, OneTapOperation, Tapping, Owns, Dead, Step
  <2>3. CreatedInv' /\ ShownInv' /\ NewestTapStored' /\ NotRetainedAfterDisplay'
    BY <1>0, <1>2, <2>1
       DEF OperationInv, CreatedInv, ShownInv, NewestTapStored, NotRetainedAfterDisplay, Step
  <2> QED
    BY <2>2, <2>3 DEF OperationInv
<1> QED
  BY <1>1, <1>2 DEF Notify

\* While the request waits for its notification no pass is being created.
LEMMA MarkNotifiedStep ==
    ASSUME Settled, NEW w \in Worker, MarkNotified(w)
    PROVE  OperationInv'
<1>0. /\ TypeInv /\ OperationInv /\ request \in Row
      /\ handler \in [Worker -> ReadyLocal]
      /\ UNCHANGED <<graph, history>> /\ At(w, "mark-notified") /\ Notifying(w)
  BY DEF Settled, MarkNotified, At, Notifying
<1>1. CASE Step(w, Idle)
  BY <1>0, <1>1, PlainIdle, StepFrame
<1>2. CASE MarkManagerNotifiedAllowed(request)
           /\ Write(w, MarkManagerNotified(request), Going("bind"))
  <2>1. /\ request' = [request EXCEPT !.state = "manager-notified"]
        /\ request'.state = "manager-notified"
        /\ request'.tapProtected = request.tapProtected
    BY <1>0, <1>2 DEF Write, MarkManagerNotified, Row
  <2>2. \A v \in Worker : ~Tapping(v)
    BY <1>0, <1>2 DEF OperationInv, TapInv, Owns, Dead, MarkManagerNotifiedAllowed,
                      Terminal, TerminalStates
  <2>3. Going("bind").at = "bind"
    BY GoingType DEF Place
  <2>4. \A v \in Worker : handler'[v] = IF v = w THEN Going("bind") ELSE handler[v]
    BY <1>0, <1>2 DEF Write
  <2>5. \A v \in Worker : ~Tapping(v)' /\ ~At(v, "record-tap")'
    BY <2>2, <2>3, <2>4 DEF Tapping, At, TapPlaces
  <2>6. \A v \in Worker : ~Notifying(v)'
    BY <1>0, <2>3, <2>4 DEF OperationInv, NotifyInv, Notifying
  <2>7. NotifyInv' /\ TapInv' /\ OneTapOperation' /\ CreatedInv'
    BY <2>5, <2>6 DEF NotifyInv, TapInv, OneTapOperation, CreatedInv, Tapping
  <2>8. ShownInv' /\ NewestTapStored' /\ NotRetainedAfterDisplay'
    BY <1>0, <2>1 DEF OperationInv, ShownInv, NewestTapStored, NotRetainedAfterDisplay
  <2> QED
    BY <2>7, <2>8 DEF OperationInv
<1> QED
  BY <1>1, <1>2 DEF MarkNotified

-----------------------------------------------------------------------------
(* The operation *)

\* Whoever is between claim and record is alone there, so a claim finds nobody.
LEMMA ClaimStep ==
    ASSUME Settled, NEW w \in Worker, ClaimTapStep(w)
    PROVE  OperationInv'
<1>0. /\ TypeInv /\ OperationInv /\ request \in Row
      /\ handler \in [Worker -> ReadyLocal] /\ handler[w] \in Local
      /\ UNCHANGED graph /\ history'.shown = history.shown /\ At(w, "claim-tap")
  BY DEF Settled, ClaimTapStep, Abandon, TypeInv, HistoryType
<1>1. CASE Step(w, Idle)
  BY <1>0, <1>1, PlainIdle, StepFrame
<1>2. ASSUME NEW local, local.at \in {"check-tap", "idle"},
             ClaimTapAllowed(request), Write(w, ClaimTap(request, w), local)
      PROVE  OperationInv'
  <2>1. /\ request'.state = "verified" /\ request.state = "verified"
        /\ request'.tapStatus = "creating"
        /\ request'.tapOperationId = w
        /\ request'.tapProtected = request.tapProtected
    BY <1>0, <1>2 DEF Write, ClaimTap, ClaimTapAllowed, Row
  <2>2. \A v \in Worker : ~Tapping(v) /\ ~Notifying(v)
    BY <1>0, <1>2 DEF OperationInv, TapInv, NotifyInv, Owns, Dead, ClaimTapAllowed,
                      Terminal, TerminalStates
  <2>3. \A v \in Worker : handler'[v].at = IF v = w THEN local.at ELSE handler[v].at
    BY <1>0, <1>2 DEF Write
  <2>4. \A v \in Worker : Tapping(v)' => v = w
    BY <2>2, <2>3 DEF Tapping
  <2>5. \A v \in Worker : ~Notifying(v)' /\ ~At(v, "record-tap")'
    BY <1>2, <2>2, <2>3 DEF Notifying, Tapping, At, TapPlaces
  <2>6. NotifyInv' /\ TapInv' /\ OneTapOperation' /\ CreatedInv'
    BY <2>1, <2>4, <2>5 DEF NotifyInv, TapInv, OneTapOperation, CreatedInv, Tapping, Owns
  <2>7. ShownInv' /\ NewestTapStored' /\ NotRetainedAfterDisplay'
    BY <1>0, <2>1 DEF OperationInv, ShownInv, NewestTapStored, NotRetainedAfterDisplay
  <2> QED
    BY <2>6, <2>7 DEF OperationInv
<1> DEFINE claimed == [handler[w] EXCEPT !.at = "check-tap"]
<1>3. claimed.at = "check-tap" /\ Idle.at = "idle"
  BY <1>0 DEF Local, Idle
<1>4. \/ Step(w, Idle)
      \/ ClaimTapAllowed(request) /\ Write(w, ClaimTap(request, w), claimed)
      \/ ClaimTapAllowed(request) /\ Write(w, ClaimTap(request, w), Idle)
  BY DEF ClaimTapStep
<1> HIDE DEF claimed
<1> QED
  BY <1>1, <1>2, <1>3, <1>4

\* The operation goes on, and may create a pass: nobody else holds one.
LEMMA OperationMoves ==
    ASSUME Settled, NEW w \in Worker, NEW local,
           Tapping(w), local.at \in TapPlaces,
           Step(w, local),
           graph'.taps \in {graph.taps, graph.taps + 1},
           local.at = "record-tap" => local.tap = graph.taps + 1 /\ local.tap = graph'.taps,
           history'.shown = history.shown
    PROVE  OperationInv'
<1>0. /\ OperationInv /\ handler \in [Worker -> ReadyLocal]
      /\ graph.taps \in Nat /\ \A tap \in history.shown : tap \in Nat
      /\ request' = request
  BY BoundsAssumption DEF Settled, TypeInv, GraphType, HistoryType, Step
<1>1. \A v \in Worker : handler'[v] = IF v = w THEN local ELSE handler[v]
  BY <1>0 DEF Step
<1>2. \A v \in Worker : Tapping(v) => v = w
  BY <1>0 DEF OperationInv, OneTapOperation, Tapping
<1>3. \A v \in Worker : Tapping(v)' => v = w
  BY <1>1, <1>2 DEF Tapping
<1>4. \A v \in Worker : Notifying(v)' => Notifying(v)
  BY <1>1 DEF Notifying, TapPlaces
<1>5. NotifyInv'
  BY <1>0, <1>4 DEF OperationInv, NotifyInv
<1>6. TapInv'
  BY <1>0, <1>3, <1>4 DEF OperationInv, TapInv, Owns, Dead
<1>7. OneTapOperation'
  BY <1>3 DEF OneTapOperation, Tapping
<1>8. CreatedInv'
  <2> SUFFICES ASSUME NEW v \in Worker, At(v, "record-tap")'
               PROVE  handler'[v].tap = graph'.taps /\ handler'[v].tap \notin history'.shown
    BY DEF CreatedInv
  <2>1. v = w /\ local.at = "record-tap"
    BY <1>1, <1>3 DEF At, Tapping, TapPlaces
  <2>2. graph.taps + 1 \notin history.shown
    BY <1>0 DEF OperationInv, ShownInv
  <2> QED
    BY <1>1, <2>1, <2>2
<1>9. ShownInv'
  BY <1>0 DEF OperationInv, ShownInv
<1>10. NewestTapStored' /\ NotRetainedAfterDisplay'
  <2>1. request.state # "tap-issued"
    BY <1>0 DEF OperationInv, TapInv, Owns, Dead, Terminal, TerminalStates
  <2> QED
    BY <1>0, <2>1 DEF OperationInv, NewestTapStored, NotRetainedAfterDisplay
<1> QED
  BY <1>5, <1>6, <1>7, <1>8, <1>9, <1>10 DEF OperationInv

LEMMA CheckStep ==
    ASSUME Settled, NEW w \in Worker, CheckEligibility(w)
    PROVE  OperationInv'
<1>1. handler[w] \in Local /\ Tapping(w) /\ UNCHANGED <<graph, history>>
  BY DEF Settled, CheckEligibility, At, Tapping, TapPlaces
<1>2. ASSUME NEW local, local.at \in TapPlaces \ {"record-tap"}, Step(w, local)
      PROVE  OperationInv'
  BY <1>1, <1>2, OperationMoves
<1>3. /\ [handler[w] EXCEPT !.at = "create-tap", !.methods = graph.methods].at = "create-tap"
      /\ [handler[w] EXCEPT !.at = "fail-tap"].at = "fail-tap"
  BY <1>1 DEF Local
<1> QED
  BY <1>2, <1>3 DEF CheckEligibility, TapPlaces

LEMMA CreateStep ==
    ASSUME Settled, NEW w \in Worker, CreateTap(w)
    PROVE  OperationInv'
<1> DEFINE tap == graph.taps + 1
           created == [handler[w] EXCEPT !.at = "record-tap", !.tap = tap]
           failed == [handler[w] EXCEPT !.at = "fail-tap"]
<1>1. /\ handler[w] \in Local /\ Tapping(w) /\ UNCHANGED history
      /\ [graph EXCEPT !.taps = tap].taps = tap
  BY DEF Settled, CreateTap, At, Tapping, TapPlaces, TypeInv, GraphType
<1>2. /\ created.at = "record-tap" /\ created.tap = tap
      /\ failed.at = "fail-tap"
  BY <1>1 DEF Local
<1> HIDE DEF created, failed
<1>3. CASE Step(w, created) /\ graph' = [graph EXCEPT !.taps = tap]
  BY <1>1, <1>2, <1>3, OperationMoves DEF TapPlaces
<1>4. CASE Step(w, failed) /\ (graph' = [graph EXCEPT !.taps = tap] \/ UNCHANGED graph)
  BY <1>1, <1>2, <1>4, OperationMoves DEF TapPlaces
<1> QED
  BY <1>3, <1>4 DEF CreateTap, created, failed

LEMMA RecordStep ==
    ASSUME Settled, NEW w \in Worker, RecordTapStep(w)
    PROVE  OperationInv'
<1>0. /\ TypeInv /\ OperationInv /\ request \in Row
      /\ handler \in [Worker -> ReadyLocal] /\ handler[w] \in Local
      /\ UNCHANGED <<graph, history>> /\ At(w, "record-tap") /\ Tapping(w)
  BY DEF Settled, RecordTapStep, At, Tapping, TapPlaces
<1>1. CASE Step(w, [handler[w] EXCEPT !.at = "fail-tap"])
  <2>1. [handler[w] EXCEPT !.at = "fail-tap"].at = "fail-tap"
    BY <1>0 DEF Local
  <2> QED
    BY <1>0, <1>1, <2>1, OperationMoves DEF TapPlaces
<1>2. CASE RecordTapAllowed(request, w)
           /\ Write(w, RecordTap(request, handler[w].tap, handler[w].methods), Idle)
  <2>1. /\ request'.state = "tap-issued" /\ request.state = "verified"
        /\ request'.tapProtected = handler[w].tap
    BY <1>0, <1>2 DEF Write, RecordTap, RecordTapAllowed, Row
  <2>2. handler[w].tap = graph.taps /\ handler[w].tap \notin history.shown
    BY <1>0 DEF OperationInv, CreatedInv
  <2>3. \A v \in Worker : Tapping(v) => v = w
    BY <1>0 DEF OperationInv, OneTapOperation, Tapping
  <2>4. \A v \in Worker : ~Notifying(v)
    BY <1>0, <2>1 DEF OperationInv, NotifyInv, Terminal, TerminalStates
  <2>5. \A v \in Worker : handler'[v].at = IF v = w THEN "idle" ELSE handler[v].at
    BY <1>0, <1>2 DEF Write, Idle
  <2>6. \A v \in Worker : ~Tapping(v)' /\ ~At(v, "record-tap")' /\ ~Notifying(v)'
    BY <2>3, <2>4, <2>5 DEF Tapping, Notifying, At, TapPlaces
  <2>7. NotifyInv' /\ TapInv' /\ OneTapOperation' /\ CreatedInv'
    BY <2>6 DEF NotifyInv, TapInv, OneTapOperation, CreatedInv, Tapping
  <2>8. ShownInv' /\ NewestTapStored' /\ NotRetainedAfterDisplay'
    BY <1>0, <2>1, <2>2 DEF OperationInv, ShownInv, NewestTapStored, NotRetainedAfterDisplay
  <2> QED
    BY <2>7, <2>8 DEF OperationInv
<1> QED
  BY <1>1, <1>2 DEF RecordTapStep

\* The failure is recorded by the owner, on its way out.
LEMMA FailStep ==
    ASSUME Settled, NEW w \in Worker, FailTapStep(w)
    PROVE  OperationInv'
<1>0. /\ TypeInv /\ OperationInv /\ request \in Row
      /\ handler \in [Worker -> ReadyLocal]
      /\ UNCHANGED graph /\ history'.shown = history.shown /\ Tapping(w)
  BY DEF Settled, FailTapStep, Abandon, At, Tapping, TapPlaces, TypeInv, HistoryType
<1>1. CASE Step(w, Idle)
  BY <1>0, <1>1, PlainIdle, StepFrame
<1>2. CASE FailTapAllowed(request, w) /\ Write(w, FailTap(request), Idle)
  <2>1. /\ request'.state = request.state /\ request.state = "verified"
        /\ request'.tapProtected = request.tapProtected
    BY <1>0, <1>2 DEF Write, FailTap, FailTapAllowed, Row
  <2>2. \A v \in Worker : Tapping(v) => v = w
    BY <1>0 DEF OperationInv, OneTapOperation, Tapping
  <2>3. \A v \in Worker : ~Notifying(v)
    BY <1>0, <2>1 DEF OperationInv, NotifyInv, Terminal, TerminalStates
  <2>4. \A v \in Worker : handler'[v].at = IF v = w THEN "idle" ELSE handler[v].at
    BY <1>0, <1>2 DEF Write, Idle
  <2>5. \A v \in Worker : ~Tapping(v)' /\ ~At(v, "record-tap")' /\ ~Notifying(v)'
    BY <2>2, <2>3, <2>4 DEF Tapping, Notifying, At, TapPlaces
  <2>6. NotifyInv' /\ TapInv' /\ OneTapOperation' /\ CreatedInv'
    BY <2>5 DEF NotifyInv, TapInv, OneTapOperation, CreatedInv, Tapping
  <2>7. ShownInv' /\ NewestTapStored' /\ NotRetainedAfterDisplay'
    BY <1>0, <2>1 DEF OperationInv, ShownInv, NewestTapStored, NotRetainedAfterDisplay
  <2> QED
    BY <2>6, <2>7 DEF OperationInv
<1> QED
  BY <1>1, <1>2 DEF FailTapStep

\* While a pass is on display none is being created.
LEMMA DisplayStep ==
    ASSUME Settled, NEW w \in Worker, DisplayTap(w)
    PROVE  OperationInv'
<1>0. /\ TypeInv /\ OperationInv /\ request \in Row
      /\ handler \in [Worker -> ReadyLocal]
      /\ UNCHANGED graph
  BY DEF Settled, DisplayTap
<1>1. CASE Step(w, Idle) /\ UNCHANGED history
  BY <1>0, <1>1, PlainIdle, StepFrame
<1>2. CASE /\ Write(w, TakeTapForDisplay(request), Idle)
           /\ UNCHANGED history
  <2>1. Quiet(request, TakeTapForDisplay(request))
    BY <1>0 DEF Quiet, TakeTapForDisplay, Row, Terminal
  <2> QED
    BY <1>0, <1>2, <2>1, PlainIdle, WriteFrame
<1>3. CASE /\ TakeTapAllowed(request)
           /\ Write(w, TakeTapForDisplay(request), Idle)
           /\ history' = [history EXCEPT !.shown = @ \cup {request.tapProtected}]
  <2>1. /\ request'.state = "tap-issued" /\ request.state = "tap-issued"
        /\ request'.tapProtected = 0 /\ request.tapProtected # 0
        /\ request.tapProtected \in Nat
    BY <1>0, <1>3, BoundsAssumption
       DEF Write, TakeTapForDisplay, TakeTapAllowed, Row
  <2>2. history'.shown = history.shown \cup {request.tapProtected}
    BY <1>0, <1>3 DEF TypeInv, HistoryType
  <2>3. \A v \in Worker : ~Tapping(v) /\ ~Notifying(v)
    BY <1>0, <2>1 DEF OperationInv, TapInv, NotifyInv, Owns, Dead, Terminal, TerminalStates
  <2>4. \A v \in Worker : handler'[v].at = IF v = w THEN "idle" ELSE handler[v].at
    BY <1>0, <1>3 DEF Write, Idle
  <2>5. \A v \in Worker : ~Tapping(v)' /\ ~At(v, "record-tap")' /\ ~Notifying(v)'
    BY <2>3, <2>4 DEF Tapping, Notifying, At, TapPlaces
  <2>6. NotifyInv' /\ TapInv' /\ OneTapOperation' /\ CreatedInv'
    BY <2>5 DEF NotifyInv, TapInv, OneTapOperation, CreatedInv, Tapping
  <2>7. request.tapProtected = graph.taps
    BY <1>0, <2>1 DEF OperationInv, NewestTapStored
  <2>8. ShownInv' /\ NewestTapStored'
    BY <1>0, <2>1, <2>2, <2>7 DEF OperationInv, ShownInv, NewestTapStored
  <2>9. NotRetainedAfterDisplay'
    <3>1. 0 \notin history.shown
      BY <1>0, BoundsAssumption DEF TypeInv, HistoryType
    <3> QED
      BY <2>1, <2>2, <3>1 DEF NotRetainedAfterDisplay
  <2> QED
    BY <2>6, <2>8, <2>9 DEF OperationInv
<1> QED
  BY <1>1, <1>2, <1>3 DEF DisplayTap

-----------------------------------------------------------------------------
(* The theorems *)

\* One handler notifies and none creates a pass.
LEMMA InitOperation == Init => OperationInv
<1> SUFFICES ASSUME Init PROVE OperationInv
  OBVIOUS
<1>1. Going("notify").at = "notify" /\ Idle.at = "idle"
  BY GoingType DEF Place, Idle
<1>2. \A w \in Worker : handler[w].at \in {"idle", "notify"}
  BY <1>1 DEF Init
<1>3. \A w \in Worker : ~Tapping(w) /\ ~At(w, "record-tap")
  BY <1>2 DEF Tapping, TapPlaces, At
<1>4. \A v, w \in Worker : Notifying(v) /\ Notifying(w) => v = w
  BY <1>1 DEF Init, Notifying
<1>5. \A w \in Worker : Notifying(w) => request.state = "requested"
  BY <1>1 DEF Init, Notifying, RequestedRow, BlankRow
<1>6. /\ request.state # "tap-issued" /\ request.tapProtected = 0
      /\ history.shown = {}
  BY DEF Init, RequestedRow, InvitedRow, BlankRow
<1>7. NotifyInv
  BY <1>4, <1>5 DEF NotifyInv
<1>8. TapInv /\ OneTapOperation /\ CreatedInv
  BY <1>3 DEF TapInv, OneTapOperation, CreatedInv, Tapping
<1>9. ShownInv /\ NewestTapStored /\ NotRetainedAfterDisplay
  BY <1>6 DEF ShownInv, NewestTapStored, NotRetainedAfterDisplay
<1> QED
  BY <1>7, <1>8, <1>9 DEF OperationInv

\* Every step keeps the operation alone and its pass the last one.
LEMMA NextOperation == TypeInv /\ OperationInv /\ [Next]_vars => OperationInv'
<1> SUFFICES ASSUME TypeInv, OperationInv, [Next]_vars PROVE OperationInv'
  OBVIOUS
<1>1. Settled
  BY SettledAtOnce
<1>2. /\ "direct-manager" \in Approver /\ "issuance" \in Kind /\ "error" \in Event
  BY ApproverAssumption DEF Kind, Event
<1>3. ASSUME NEW w \in Worker, Continue(w) PROVE OperationInv'
  <2>1. CASE \/ ExpireLapsed(w) \/ MarkFailed(w) \/ BindEmployee(w)
             \/ ConfirmInvite(w) \/ InviteFailed(w)
             \/ Redeem(w) \/ SaveManagerSession(w)
             \/ Escalate(w) \/ MailSkipManager(w)
    BY <1>1, <1>2, <2>1, ApprovalQuiet
  <2>2. ASSUME NEW decision \in {"approve", "reject"}, RecordDecision(w, decision)
        PROVE  OperationInv'
    BY <1>1, <1>2, <2>2, ApprovalQuiet
  <2>3. CASE Notify(w) \/ MarkNotified(w)
    BY <1>1, <2>3, NotifyStep, MarkNotifiedStep
  <2>4. CASE \/ Begin(w) \/ Create(w) \/ Attach(w) \/ Fail(w)
             \/ ApplyIssuanceCallback(w) \/ ApplyPresentationReport(w)
    BY <1>1, <1>2, <2>4, ExchangeQuiet
  <2>5. CASE \/ ApplyPresentationSuccess(w)
             \/ ListMethods(w) \/ Confirm(w) \/ CompleteStep(w)
    BY <1>1, <1>2, <2>5, RoutesQuiet
  <2>6. CASE \/ ClaimTapStep(w) \/ CheckEligibility(w) \/ CreateTap(w)
             \/ RecordTapStep(w) \/ FailTapStep(w) \/ DisplayTap(w)
    BY <1>1, <2>6, ClaimStep, CheckStep, CreateStep, RecordStep, FailStep, DisplayStep
  <2> QED
    BY <1>3, <2>1, <2>2, <2>3, <2>4, <2>5, <2>6 DEF Continue
<1>4. ASSUME NEW w \in Worker, Arrive(w) PROVE OperationInv'
  <2>1. CASE LoadLapsed(w) \/ SubmitInvite(w) \/ OpenEscalation(w)
    BY <1>1, <1>2, <2>1, ApprovalQuiet
  <2>2. ASSUME NEW a \in Approver, NEW token \in Approver,
               SignIn(w, a, token) \/ SignInCallback(w, a) \/ OpenDecision(w, a)
        PROVE  OperationInv'
    BY <1>1, <2>2, ApprovalQuiet
  <2>3. ASSUME NEW action \in AdminActions, AdminReset(w, action) PROVE OperationInv'
    BY <1>1, <1>2, <2>3, ApprovalQuiet
  <2>4. ASSUME NEW kind \in Kind, OpenExchange(w, kind) PROVE OperationInv'
    BY <1>1, <1>2, <2>4, ExchangeQuiet
  <2>5. ASSUME NEW n \in Attempt, NEW event \in Event,
               IssuanceCallbackArrives(w, n, event) \/ PresentationCallbackArrives(w, n, event)
        PROVE  OperationInv'
    BY <1>1, <1>2, <2>5, ExchangeQuiet, RoutesQuiet
  <2>6. CASE OpenDisplay(w) \/ OpenConfirm(w) \/ OpenComplete(w)
    BY <1>1, <1>2, <2>6, RoutesQuiet
  <2> QED
    BY <1>4, <2>1, <2>2, <2>3, <2>4, <2>5, <2>6 DEF Arrive
<1>5. ASSUME NEW w \in Worker, Crash(w) PROVE OperationInv'
  BY <1>1, <1>2, <1>5, ApprovalQuiet
<1>6. CASE Outside
  <2>1. UNCHANGED <<request, handler, history>> /\ graph'.taps = graph.taps
    BY <1>6 DEF Outside, ActivateInvite, ActivateToken, AdminLookup, Wallet,
                DeadlinePasses, RegisterPasskey, TypeInv, GraphType
  <2> QED
    BY <2>1, StillFrame
<1>7. CASE UNCHANGED vars
  BY <1>7, StillFrame DEF vars
<1> QED
  BY <1>3, <1>4, <1>5, <1>6, <1>7 DEF Next

\* The invariant, of which the theorems below are parts.
LEMMA OperationCorrect == Spec => []OperationInv
  BY InitType, NextType, InitOperation, NextOperation, PTL DEF Spec

\* However many callbacks are repeated, arrive together or are left behind by a
\* reset, one handler at a time is between the claim and the record of a pass.
THEOREM OneOperationAtATime == Spec => []OneTapOperation
<1>1. OperationInv => OneTapOperation
  BY DEF OperationInv
<1> QED
  BY <1>1, OperationCorrect, PTL

\* The stored pass is the last one created, after any number of operations that
\* failed with or without a pass.
THEOREM StoredPassIsNewest == Spec => []NewestTapStored
<1>1. OperationInv => NewestTapStored
  BY DEF OperationInv
<1> QED
  BY <1>1, OperationCorrect, PTL

\* A displayed pass is never stored again, by any handler.
THEOREM DisplayedPassIsGone == Spec => []NotRetainedAfterDisplay
<1>1. OperationInv => NotRetainedAfterDisplay
  BY DEF OperationInv
<1> QED
  BY <1>1, OperationCorrect, PTL
=============================================================================
