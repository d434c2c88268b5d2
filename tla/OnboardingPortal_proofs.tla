------------------------ MODULE OnboardingPortal_proofs ------------------------
(***************************************************************************)
(* Theorems about OnboardingPortal, for any number of handlers, attempts    *)
(* and passes and any set of outside events.                                *)
(***************************************************************************)
EXTENDS OnboardingPortal, OnboardingService_proofs

-----------------------------------------------------------------------------
(* Type correctness.  TypeOK is not inductive: a handler that is about to   *)
(* apply a callback must hold a status its operation knows, and one that is *)
(* about to redeem a token an approver.                                     *)

Ready(local) ==
    /\ local.at = "callback" =>
          \/ local.kind = "issuance" /\ local.status \in {"retrieved", "error", "success"}
          \/ local.kind = "presentation"
             /\ local.status \in {"retrieved", "error", "success", "bad"}
    /\ local.at \in {"redeem", "save-session"} => local.approver \in Approver

ReadyLocal == {local \in Local : Ready(local)}

\* What every step changes through Step or Write.
Core ==
    /\ request \in Row
    /\ handler \in [Worker -> ReadyLocal]
    /\ admin \in [seen : States \cup {None}, fresh : BOOLEAN]

AttemptsType == attempts \in [Kind -> [Attempt -> SUBSET Event]]

GraphType == graph \in [taps : 0 .. MaxTaps, methods : SUBSET Key]

BrowserType ==
    browser \in [bound : BOOLEAN, invited : BOOLEAN, mail : SUBSET Approver,
                 preAuth : SUBSET (Approver \X Approver),
                 codes : SUBSET Approver, signedIn : SUBSET Approver]

HistoryType ==
    history \in [redeemedSinceArmed : 0 .. 2, methodsAtProof : SUBSET Key,
                 shown : SUBSET (1 .. MaxTaps), abandoned : BOOLEAN]

TypeInv ==
    /\ Core
    /\ due \subseteq Deadline
    /\ AttemptsType /\ GraphType /\ BrowserType /\ HistoryType

LEMMA TypeInvImpliesTypeOK == TypeInv => TypeOK
  BY DEF TypeInv, TypeOK, Core, AttemptsType, GraphType, BrowserType, HistoryType,
         ReadyLocal

PlainPlace == Place \ {"callback", "redeem", "save-session"}

\* Going to, and going on to, a place that asks nothing of the handler.
LEMMA LocalType ==
    /\ Idle \in ReadyLocal
    /\ \A place \in PlainPlace : Going(place) \in ReadyLocal
    /\ \A local \in ReadyLocal, place \in PlainPlace :
          [local EXCEPT !.at = place] \in ReadyLocal
<1>1. 0 \in 0 .. MaxAttempts /\ 0 \in 0 .. MaxTaps
  BY BoundsAssumption
<1>2. Idle \in Local
  BY <1>1 DEF Idle, Local, Place
<1>3. ASSUME NEW local \in Local, NEW place \in PlainPlace
      PROVE  [local EXCEPT !.at = place] \in ReadyLocal
  BY DEF PlainPlace, Place, Local, ReadyLocal, Ready
<1>4. Idle \in ReadyLocal
  BY <1>2 DEF Idle, ReadyLocal, Ready
<1> QED
  BY <1>2, <1>3, <1>4 DEF Going, ReadyLocal

\* Going to a place with what the handler needs there.
LEMMA GoingType ==
    ASSUME NEW place \in Place
    PROVE  Going(place) \in Local /\ Going(place).at = place
  BY BoundsAssumption DEF Going, Idle, Local

LEMMA GoingAsApprover ==
    ASSUME NEW place \in Place \ {"callback"}, NEW a \in Approver
    PROVE  [Going(place) EXCEPT !.approver = a] \in ReadyLocal
  BY GoingType DEF Local, Ready, ReadyLocal

LEMMA GoingForExchange ==
    ASSUME NEW place \in PlainPlace, NEW kind \in Kind
    PROVE  [Going(place) EXCEPT !.kind = kind] \in ReadyLocal
  BY GoingType DEF Local, Ready, ReadyLocal, PlainPlace

LEMMA GoingForCallback ==
    ASSUME NEW place \in Place \ {"redeem", "save-session"},
           NEW kind \in Kind, NEW status \in Event,
           kind = "issuance" => status \in {"retrieved", "error", "success"},
           kind = "presentation" => status \in {"retrieved", "error", "success", "bad"}
    PROVE  [Going(place) EXCEPT !.kind = kind, !.status = status] \in ReadyLocal
<1>1. Going(place) \in Local /\ Going(place).at = place
  BY GoingType
<1>2. ASSUME NEW x \in Local, x.at = place
      PROVE  [x EXCEPT !.kind = kind, !.status = status] \in ReadyLocal
  <2> DEFINE local == [x EXCEPT !.kind = kind, !.status = status]
  <2>1. local \in Local /\ local.at = place /\ local.kind = kind /\ local.status = status
    BY <1>2 DEF Local
  <2>2. Ready(local)
    BY <2>1 DEF Ready, Kind
  <2> QED
    BY <2>1, <2>2 DEF ReadyLocal
<1> QED
  BY <1>1, <1>2

LEMMA NamingType ==
    ASSUME NEW local \in ReadyLocal, NEW place \in PlainPlace, NEW n \in 0 .. MaxAttempts
    PROVE  [local EXCEPT !.at = place, !.n = n] \in ReadyLocal
<1>1. local \in Local /\ place \in Place
  BY DEF ReadyLocal, PlainPlace
<1> DEFINE new == [local EXCEPT !.at = place, !.n = n]
<1>2. new \in Local /\ new.at = place
  BY <1>1 DEF Local
<1> QED
  BY <1>2 DEF Ready, ReadyLocal, PlainPlace

LEMMA ListedType ==
    ASSUME NEW local \in ReadyLocal, NEW place \in PlainPlace, NEW methods \in SUBSET Key
    PROVE  [local EXCEPT !.at = place, !.methods = methods] \in ReadyLocal
<1>1. local \in Local /\ place \in Place
  BY DEF ReadyLocal, PlainPlace
<1> DEFINE new == [local EXCEPT !.at = place, !.methods = methods]
<1>2. new \in Local /\ new.at = place
  BY <1>1 DEF Local
<1> QED
  BY <1>2 DEF Ready, ReadyLocal, PlainPlace

LEMMA CreatedType ==
    ASSUME NEW local \in ReadyLocal, NEW place \in PlainPlace, NEW tap \in 0 .. MaxTaps
    PROVE  [local EXCEPT !.at = place, !.tap = tap] \in ReadyLocal
<1>1. local \in Local /\ place \in Place
  BY DEF ReadyLocal, PlainPlace
<1> DEFINE new == [local EXCEPT !.at = place, !.tap = tap]
<1>2. new \in Local /\ new.at = place
  BY <1>1 DEF Local
<1> QED
  BY <1>2 DEF Ready, ReadyLocal, PlainPlace

\* A step that leaves the row alone.
LEMMA StepType ==
    ASSUME Core, NEW w \in Worker, NEW local \in ReadyLocal, Step(w, local)
    PROVE  Core'
  BY DEF Core, Step

\* A step that replaces the row.
LEMMA WriteType ==
    ASSUME Core, NEW w \in Worker, NEW local \in ReadyLocal, NEW row \in Row,
           Write(w, row, local)
    PROVE  Core'
  BY DEF Core, Write

\* An event at the Verified ID service.
LEMMA HappensType ==
    ASSUME AttemptsType, NEW kind, NEW n, NEW event \in Event, Happens(kind, n, event)
    PROVE  AttemptsType'
  BY DEF AttemptsType, Happens

\* Most steps change nothing else.
LEMMA OnlyCore ==
    ASSUME TypeInv, Core', UNCHANGED <<due, attempts, graph, browser, history>>
    PROVE  TypeInv'
  BY DEF TypeInv, AttemptsType, GraphType, BrowserType, HistoryType

\* ... or only marks besides whether the operation was abandoned.
LEMMA OnlyMarks ==
    ASSUME TypeInv, Core', NEW flag \in BOOLEAN,
           history' = [history EXCEPT !.abandoned = flag],
           UNCHANGED <<due, attempts, graph, browser>>
    PROVE  TypeInv'
  BY DEF TypeInv, AttemptsType, GraphType, BrowserType, HistoryType

\* The steps every handler has in common.
LEMMA SharedType ==
    ASSUME TypeInv, NEW w \in Worker,
           LoadLapsed(w) \/ ExpireLapsed(w) \/ Crash(w)
    PROVE  TypeInv'
<1>0. Core
  BY DEF TypeInv
<1>1. CASE LoadLapsed(w)
  <2>1. Core'
    BY <1>0, <1>1, LocalType, StepType DEF LoadLapsed, PlainPlace, Place
  <2> QED
    BY <1>1, <2>1, OnlyCore DEF LoadLapsed
<1>2. CASE ExpireLapsed(w)
  <2>1. Expire(request) \in Row
    BY <1>0, ApprovalRowsType, ApproverAssumption DEF Core
  <2>2. Core'
    BY <1>0, <1>2, <2>1, LocalType, WriteType DEF ExpireLapsed
  <2> QED
    BY <1>2, <2>2, OnlyCore DEF ExpireLapsed
<1>3. CASE Crash(w)
  <2>1. Core'
    BY <1>0, <1>3, LocalType, StepType DEF Crash
  <2>2. (history.abandoned \/ Owing(w)) \in BOOLEAN
    OBVIOUS
  <2> QED
    BY <1>3, <2>1, <2>2, OnlyMarks DEF Crash
<1> QED
  BY <1>1, <1>2, <1>3

\* The notification and the invitation.
LEMMA NotificationType ==
    ASSUME TypeInv, NEW w \in Worker,
           \/ Notify(w) \/ MarkNotified(w) \/ MarkFailed(w) \/ BindEmployee(w)
           \/ SubmitInvite(w) \/ ConfirmInvite(w) \/ InviteFailed(w)
    PROVE  TypeInv'
<1> USE DEF PlainPlace, Place
<1>0. Core /\ request \in Row
  BY DEF TypeInv, Core
<1>1. CASE Notify(w)
  <2>1. Core'
    BY <1>0, <1>1, LocalType, StepType DEF Notify
  <2>2. Mailed("direct-manager") \in
          [bound : BOOLEAN, invited : BOOLEAN, mail : SUBSET Approver,
           preAuth : SUBSET (Approver \X Approver),
           codes : SUBSET Approver, signedIn : SUBSET Approver]
    BY ApproverAssumption DEF Mailed, TypeInv, BrowserType
  <2>3. BrowserType'
    BY <1>1, <2>2 DEF Notify, TypeInv, BrowserType
  <2> QED
    BY <1>1, <2>1, <2>3 DEF Notify, TypeInv, AttemptsType, GraphType, HistoryType
<1>2. CASE MarkNotified(w)
  <2>1. MarkManagerNotified(request) \in Row
    BY <1>0, ApprovalRowsType, ApproverAssumption
  <2>2. Core'
    BY <1>0, <1>2, <2>1, LocalType, StepType, WriteType DEF MarkNotified
  <2> QED
    BY <1>2, <2>2, OnlyCore DEF MarkNotified
<1>3. CASE MarkFailed(w)
  <2>1. Core'
    BY <1>0, <1>3, LocalType, StepType, WriteType DEF MarkFailed
  <2> QED
    BY <1>3, <2>1, OnlyCore DEF MarkFailed
<1>4. CASE BindEmployee(w)
  <2>1. Core'
    BY <1>0, <1>4, LocalType, StepType DEF BindEmployee
  <2>2. BrowserType'
    BY <1>4 DEF BindEmployee, TypeInv, BrowserType
  <2> QED
    BY <1>4, <2>1, <2>2 DEF BindEmployee, TypeInv, AttemptsType, GraphType, HistoryType
<1>5. CASE SubmitInvite(w)
  <2>1. Core'
    BY <1>0, <1>5, LocalType, StepType DEF SubmitInvite
  <2> QED
    BY <1>5, <2>1, OnlyCore DEF SubmitInvite
<1>6. CASE ConfirmInvite(w)
  <2>1. ConfirmEmployeeInvite(request) \in Row
    BY <1>0, ApprovalRowsType, ApproverAssumption
  <2>2. Core'
    BY <1>0, <1>6, <2>1, LocalType, StepType, WriteType DEF ConfirmInvite
  <2> QED
    BY <1>6, <2>2, OnlyCore DEF ConfirmInvite
<1>7. CASE InviteFailed(w)
  <2>1. RecordEmployeeInviteFailure(request) \in Row
    BY <1>0, ApprovalRowsType, ApproverAssumption
  <2>2. Core'
    BY <1>0, <1>7, <2>1, LocalType, StepType, WriteType DEF InviteFailed
  <2> QED
    BY <1>7, <2>2, OnlyCore DEF InviteFailed
<1> QED
  BY <1>1, <1>2, <1>3, <1>4, <1>5, <1>6, <1>7

\* The approval link, the sign-in and the decision.
LEMMA DecisionType ==
    ASSUME TypeInv, NEW w \in Worker, NEW a \in Approver, NEW token \in Approver,
           NEW decision,
           \/ SignIn(w, a, token) \/ SignInCallback(w, a)
           \/ Redeem(w) \/ SaveManagerSession(w)
           \/ OpenDecision(w, a) \/ RecordDecision(w, decision)
    PROVE  TypeInv'
<1> USE DEF PlainPlace, Place
<1>0. /\ Core
      /\ request \in Row
      /\ handler[w] \in ReadyLocal
      /\ Idle \in ReadyLocal
  BY LocalType DEF TypeInv, Core
<1>1. CASE SignIn(w, a, token)
  <2>1. BeginManagerSignIn(request, a) \in Row
    BY <1>0, ApprovalRowsType
  <2>2. Core'
    BY <1>0, <1>1, <2>1, WriteType DEF SignIn
  <2>3. BrowserType'
    BY <1>1 DEF SignIn, TypeInv, BrowserType
  <2> QED
    BY <1>1, <2>2, <2>3 DEF SignIn, TypeInv, AttemptsType, GraphType, HistoryType
<1>2. CASE SignInCallback(w, a)
  <2>1. [Going("redeem") EXCEPT !.approver = a] \in ReadyLocal
    BY GoingAsApprover
  <2>2. Core'
    BY <1>0, <1>2, <2>1, StepType, WriteType DEF SignInCallback
  <2>3. BrowserType'
    BY <1>2 DEF SignInCallback, TypeInv, BrowserType
  <2> QED
    BY <1>2, <2>2, <2>3 DEF SignInCallback, TypeInv, AttemptsType, GraphType, HistoryType
<1>3. CASE Redeem(w)
  <2>1. RedeemManagerToken(request) \in Row
    BY <1>0, ApprovalRowsType
  <2>2. At(w, "redeem") => [handler[w] EXCEPT !.at = "save-session"] \in ReadyLocal
    BY <1>0 DEF At, ReadyLocal, Local, Ready
  <2>3. Core'
    BY <1>0, <1>3, <2>1, <2>2, StepType, WriteType DEF Redeem
  <2>4. HistoryType'
    BY <1>3 DEF Redeem, Again, TypeInv, HistoryType
  <2> QED
    BY <1>3, <2>3, <2>4 DEF Redeem, TypeInv, AttemptsType, GraphType, BrowserType
<1>4. CASE SaveManagerSession(w)
  <2>1. Core'
    BY <1>0, <1>4, StepType DEF SaveManagerSession
  <2>2. handler[w].approver \in Approver
    BY <1>0, <1>4 DEF SaveManagerSession, At, ReadyLocal, Ready
  <2>3. BrowserType'
    BY <1>4, <2>2 DEF SaveManagerSession, TypeInv, BrowserType
  <2> QED
    BY <1>4, <2>1, <2>3 DEF SaveManagerSession, TypeInv, AttemptsType, GraphType, HistoryType
<1>5. CASE OpenDecision(w, a)
  <2>1. [Going("decide") EXCEPT !.approver = a] \in ReadyLocal
    BY GoingAsApprover
  <2>2. Core'
    BY <1>0, <1>5, <2>1, StepType, WriteType DEF OpenDecision
  <2> QED
    BY <1>5, <2>2, OnlyCore DEF OpenDecision
<1>6. CASE RecordDecision(w, decision)
  <2>1. DecideAllowed(request, handler[w].approver) =>
          Decide(request, handler[w].approver, decision) \in Row
    BY <1>0, ApprovalRowsType, ApproverAssumption DEF DecideAllowed, EligibleApprover
  <2>2. Core'
    BY <1>0, <1>6, <2>1, StepType, WriteType DEF RecordDecision
  <2> QED
    BY <1>6, <2>2, OnlyCore DEF RecordDecision
<1> QED
  BY <1>1, <1>2, <1>3, <1>4, <1>5, <1>6

\* The escalation and the administrator.
LEMMA AdministrationType ==
    ASSUME TypeInv, NEW w \in Worker, NEW action \in AdminActions,
           \/ OpenEscalation(w) \/ Escalate(w) \/ MailSkipManager(w)
           \/ AdminReset(w, action)
    PROVE  TypeInv'
<1> USE DEF PlainPlace, Place
<1>0. Core /\ request \in Row /\ Idle \in ReadyLocal
  BY LocalType DEF TypeInv, Core
<1>1. CASE OpenEscalation(w)
  <2>1. Core'
    BY <1>0, <1>1, LocalType, StepType DEF OpenEscalation
  <2> QED
    BY <1>1, <2>1, OnlyCore DEF OpenEscalation
<1>2. CASE Escalate(w)
  <2>1. EscalateToSkipManager(request) \in Row
    BY <1>0, ApprovalRowsType, ApproverAssumption
  <2>2. Core'
    BY <1>0, <1>2, <2>1, LocalType, StepType, WriteType DEF Escalate
  <2>3. HistoryType'
    BY <1>2 DEF Escalate, TypeInv, HistoryType
  <2> QED
    BY <1>2, <2>2, <2>3 DEF Escalate, TypeInv, AttemptsType, GraphType, BrowserType
<1>3. CASE MailSkipManager(w)
  <2>1. Core'
    BY <1>0, <1>3, StepType DEF MailSkipManager
  <2>2. BrowserType'
    BY <1>3, ApproverAssumption DEF MailSkipManager, Mailed, TypeInv, BrowserType
  <2> QED
    BY <1>3, <2>1, <2>2 DEF MailSkipManager, TypeInv, AttemptsType, GraphType, HistoryType
<1>4. CASE AdminReset(w, action)
  <2>1. AdminResetRequest(request, action) \in Row
    BY <1>0, AdminResetType
  <2>2. (IF LapsedOnLoad(AdminResetRequest(request, action), "request" \in due)
         THEN Going("expire") ELSE Idle) \in ReadyLocal
    BY <1>0, LocalType
  <2>3. Core'
    BY <1>0, <1>4, <2>1, <2>2, WriteType DEF AdminReset
  <2>4. HistoryType'
    BY <1>4 DEF AdminReset, TypeInv, HistoryType
  <2> QED
    BY <1>4, <2>3, <2>4 DEF AdminReset, TypeInv, AttemptsType, GraphType, BrowserType
<1> QED
  BY <1>1, <1>2, <1>3, <1>4

\* The portal's side of an exchange.
LEMMA ExchangeStepsType ==
    ASSUME TypeInv, NEW w \in Worker, NEW kind \in Kind,
           \/ OpenExchange(w, kind) \/ Begin(w) \/ Create(w) \/ Attach(w) \/ Fail(w)
    PROVE  TypeInv'
<1> USE DEF PlainPlace, Place
<1>0. /\ Core
      /\ request \in Row
      /\ handler[w] \in ReadyLocal
      /\ handler[w].n \in 0 .. MaxAttempts
  BY DEF TypeInv, Core, ReadyLocal, Local
<1>1. CASE OpenExchange(w, kind)
  <2>1. [Going("begin") EXCEPT !.kind = kind] \in ReadyLocal
    BY GoingForExchange
  <2>2. Core'
    BY <1>0, <1>1, <2>1, StepType DEF OpenExchange
  <2> QED
    BY <1>1, <2>2, OnlyCore DEF OpenExchange
<1>2. CASE Begin(w)
  <2>1. ASSUME NEW n \in Attempt
        PROVE  /\ BeginRow(handler[w].kind, n) \in Row
               /\ [handler[w] EXCEPT !.at = "create", !.n = n] \in ReadyLocal
    <3>1. n \in 0 .. MaxAttempts
      BY BoundsAssumption DEF Attempt
    <3>2. BeginRow(handler[w].kind, n) \in Row
      BY <1>0, <3>1, ExchangeRowsType DEF BeginRow
    <3>3. [handler[w] EXCEPT !.at = "create", !.n = n] \in ReadyLocal
      BY <1>0, <3>1, NamingType
    <3> QED
      BY <3>2, <3>3
  <2>2. Core'
    BY <1>0, <1>2, <2>1, LocalType, StepType, WriteType DEF Begin
  <2>3. AttemptsType'
    BY <1>2, HappensType DEF Begin, Event, TypeInv, AttemptsType
  <2>4. due' \subseteq Deadline
    BY <1>2 DEF Begin, TypeInv
  <2> QED
    BY <1>2, <2>2, <2>3, <2>4 DEF Begin, TypeInv, GraphType, BrowserType, HistoryType
<1>3. CASE Create(w)
  <2>1. Core'
    BY <1>0, <1>3, LocalType, StepType DEF Create
  <2>2. AttemptsType'
    BY <1>3, HappensType DEF Create, Event, TypeInv, AttemptsType
  <2> QED
    BY <1>3, <2>1, <2>2 DEF Create, TypeInv, GraphType, BrowserType, HistoryType
<1>4. CASE Attach(w)
  <2>1. AttachRow(handler[w].kind, handler[w].n) \in Row
    BY <1>0, ExchangeRowsType DEF AttachRow
  <2>2. Core'
    BY <1>0, <1>4, <2>1, LocalType, StepType, WriteType DEF Attach
  <2>3. due' \subseteq Deadline
    BY <1>4 DEF Attach, TypeInv
  <2> QED
    BY <1>4, <2>2, <2>3
       DEF Attach, TypeInv, AttemptsType, GraphType, BrowserType, HistoryType
<1>5. CASE Fail(w)
  <2>1. FailRow(handler[w].kind) \in Row
    BY <1>0, ExchangeRowsType DEF FailRow
  <2>2. Core'
    BY <1>0, <1>5, <2>1, LocalType, StepType, WriteType DEF Fail
  <2> QED
    BY <1>5, <2>2, OnlyCore DEF Fail
<1> QED
  BY <1>1, <1>2, <1>3, <1>4, <1>5

\* The callbacks of the Verified ID service.
LEMMA CallbackType ==
    ASSUME TypeInv, NEW w \in Worker, NEW n, NEW event \in Event,
           \/ IssuanceCallbackArrives(w, n, event) \/ ApplyIssuanceCallback(w)
           \/ PresentationCallbackArrives(w, n, event)
           \/ ApplyPresentationReport(w) \/ ApplyPresentationSuccess(w)
    PROVE  TypeInv'
<1> USE DEF PlainPlace, Place
<1>0. /\ Core
      /\ request \in Row
      /\ handler[w] \in ReadyLocal
  BY DEF TypeInv, Core
<1>1. CASE IssuanceCallbackArrives(w, n, event)
  <2>1. [Going("callback") EXCEPT !.kind = "issuance", !.status = event] \in ReadyLocal
    BY <1>1, GoingForCallback DEF IssuanceCallbackArrives, Kind
  <2>2. Core'
    BY <1>0, <1>1, <2>1, StepType DEF IssuanceCallbackArrives
  <2> QED
    BY <1>1, <2>2, OnlyCore DEF IssuanceCallbackArrives
<1>2. CASE ApplyIssuanceCallback(w)
  <2>1. IssuanceCallback(request, handler[w].status) \in Row
    BY <1>0, <1>2, CallbackRowsType DEF ApplyIssuanceCallback, At, ReadyLocal, Ready
  <2>2. Core'
    BY <1>0, <1>2, <2>1, LocalType, StepType, WriteType DEF ApplyIssuanceCallback
  <2> QED
    BY <1>2, <2>2, OnlyCore DEF ApplyIssuanceCallback
<1>3. CASE PresentationCallbackArrives(w, n, event)
  <2> DEFINE next == AfterLookup(request.state, event)
  <2>1. /\ next \in {"callback", "claim-tap"}
        /\ event \in {"retrieved", "error", "success", "bad"}
    BY <1>3 DEF PresentationCallbackArrives, AfterLookup, Event
  <2>2. [Going(next) EXCEPT !.kind = "presentation", !.status = event] \in ReadyLocal
    BY <2>1, GoingForCallback DEF Kind
  <2>3. Core'
    BY <1>0, <1>3, <2>2, StepType DEF PresentationCallbackArrives
  <2> QED
    BY <1>3, <2>3, OnlyCore DEF PresentationCallbackArrives
<1>4. CASE ApplyPresentationReport(w)
  <2>1. handler[w].status \in {"retrieved", "error", "bad"}
    BY <1>0, <1>4 DEF ApplyPresentationReport, At, ReadyLocal, Ready
  <2>2. ReportRow(handler[w].status) \in Row
    BY <1>0, <2>1, CallbackRowsType DEF ReportRow
  <2>3. Core'
    BY <1>0, <1>4, <2>2, LocalType, StepType, WriteType DEF ApplyPresentationReport
  <2> QED
    BY <1>4, <2>3, OnlyCore DEF ApplyPresentationReport
<1>5. CASE ApplyPresentationSuccess(w)
  <2>1. MarkVerified(request) \in Row
    BY <1>0, CallbackRowsType
  <2>2. Core'
    BY <1>0, <1>5, <2>1, LocalType, StepType, WriteType DEF ApplyPresentationSuccess
  <2>3. HistoryType'
    BY <1>5 DEF ApplyPresentationSuccess, TypeInv, HistoryType, GraphType
  <2> QED
    BY <1>5, <2>2, <2>3
       DEF ApplyPresentationSuccess, TypeInv, AttemptsType, GraphType, BrowserType
<1> QED
  BY <1>1, <1>2, <1>3, <1>4, <1>5

\* The Temporary Access Pass and the employee's routes.
LEMMA TapType ==
    ASSUME TypeInv, NEW w \in Worker,
           \/ ClaimTapStep(w) \/ CheckEligibility(w) \/ CreateTap(w)
           \/ RecordTapStep(w) \/ FailTapStep(w)
           \/ OpenDisplay(w) \/ OpenConfirm(w) \/ OpenComplete(w)
           \/ DisplayTap(w) \/ ListMethods(w) \/ Confirm(w) \/ CompleteStep(w)
    PROVE  TypeInv'
<1> USE DEF PlainPlace, Place
<1>0. /\ Core
      /\ request \in Row
      /\ handler[w] \in ReadyLocal
      /\ handler[w].tap \in 0 .. MaxTaps /\ handler[w].methods \in SUBSET Key
      /\ graph.taps \in 0 .. MaxTaps /\ graph.methods \in SUBSET Key
  BY DEF TypeInv, Core, ReadyLocal, Local, GraphType
<1>1. CASE ClaimTapStep(w)
  <2>1. ClaimTap(request, w) \in Row
    BY <1>0 DEF ClaimTap, Row
  <2>2. Core'
    BY <1>0, <1>1, <2>1, LocalType, StepType, WriteType DEF ClaimTapStep
  <2> QED
    BY <1>1, <2>2, OnlyCore, OnlyMarks DEF ClaimTapStep, Abandon
<1>2. CASE CheckEligibility(w)
  <2>1. [handler[w] EXCEPT !.at = "create-tap", !.methods = graph.methods] \in ReadyLocal
    BY <1>0, ListedType
  <2>2. Core'
    BY <1>0, <1>2, <2>1, LocalType, StepType DEF CheckEligibility
  <2> QED
    BY <1>2, <2>2, OnlyCore DEF CheckEligibility
<1>3. CASE CreateTap(w)
  <2>1. graph.taps + 1 \in 0 .. MaxTaps
    BY <1>0, <1>3, BoundsAssumption DEF CreateTap
  <2>2. [handler[w] EXCEPT !.at = "record-tap", !.tap = graph.taps + 1] \in ReadyLocal
    BY <1>0, <2>1, CreatedType
  <2>3. Core'
    BY <1>0, <1>3, <2>2, LocalType, StepType DEF CreateTap
  <2>4. GraphType'
    BY <1>3, <2>1 DEF CreateTap, TypeInv, GraphType
  <2> QED
    BY <1>3, <2>3, <2>4 DEF CreateTap, TypeInv, AttemptsType, BrowserType, HistoryType
<1>4. CASE RecordTapStep(w)
  <2>1. RecordTap(request, handler[w].tap, handler[w].methods) \in Row
    BY <1>0 DEF RecordTap, Row, States
  <2>2. Core'
    BY <1>0, <1>4, <2>1, LocalType, StepType, WriteType DEF RecordTapStep
  <2> QED
    BY <1>4, <2>2, OnlyCore DEF RecordTapStep
<1>5. CASE FailTapStep(w)
  <2>1. FailTap(request) \in Row
    BY <1>0 DEF FailTap, Row
  <2>2. Core'
    BY <1>0, <1>5, <2>1, LocalType, StepType, WriteType DEF FailTapStep
  <2> QED
    BY <1>5, <2>2, OnlyCore, OnlyMarks DEF FailTapStep, Abandon
<1>6. CASE OpenDisplay(w) \/ OpenConfirm(w)
  <2>1. Core'
    BY <1>0, <1>6, LocalType, StepType DEF OpenDisplay, OpenConfirm, OpenRoute
  <2> QED
    BY <1>6, <2>1, OnlyCore DEF OpenDisplay, OpenConfirm, OpenRoute
<1>7. CASE OpenComplete(w)
  <2>1. Core'
    BY <1>0, <1>7, LocalType, StepType DEF OpenComplete
  <2>2. BrowserType'
    BY <1>7 DEF OpenComplete, TypeInv, BrowserType
  <2> QED
    BY <1>7, <2>1, <2>2 DEF OpenComplete, TypeInv, AttemptsType, GraphType, HistoryType
<1>8. CASE DisplayTap(w)
  <2>1. TakeTapForDisplay(request) \in Row
    BY <1>0, BoundsAssumption DEF TakeTapForDisplay, Row
  <2>2. Core'
    BY <1>0, <1>8, <2>1, LocalType, StepType, WriteType DEF DisplayTap
  <2>3. TakeTapAllowed(request) => request.tapProtected \in 1 .. MaxTaps
    BY <1>0, BoundsAssumption DEF TakeTapAllowed, Row
  <2>4. HistoryType'
    BY <1>8, <2>3 DEF DisplayTap, TypeInv, HistoryType
  <2> QED
    BY <1>8, <2>2, <2>4 DEF DisplayTap, TypeInv, AttemptsType, GraphType, BrowserType
<1>9. CASE ListMethods(w)
  <2>1. [handler[w] EXCEPT !.at = "confirm", !.methods = graph.methods] \in ReadyLocal
    BY <1>0, ListedType
  <2>2. Core'
    BY <1>0, <1>9, <2>1, StepType DEF ListMethods
  <2> QED
    BY <1>9, <2>2, OnlyCore DEF ListMethods
<1>10. CASE Confirm(w)
  <2>1. \A key \in NewMethods(request, handler[w].methods) :
           ConfirmPasskey(request, key) \in Row
    BY <1>0 DEF NewMethods, ConfirmPasskey, Row, States
  <2>2. Core'
    BY <1>0, <1>10, <2>1, LocalType, StepType, WriteType DEF Confirm
  <2> QED
    BY <1>10, <2>2, OnlyCore DEF Confirm
<1>11. CASE CompleteStep(w)
  <2>1. Complete(request) \in Row
    BY <1>0, EndType
  <2>2. Core'
    BY <1>0, <1>11, <2>1, LocalType, StepType, WriteType DEF CompleteStep
  <2>3. BrowserType'
    BY <1>11 DEF CompleteStep, TypeInv, BrowserType
  <2> QED
    BY <1>11, <2>2, <2>3 DEF CompleteStep, TypeInv, AttemptsType, GraphType, HistoryType
<1> QED
  BY <1>1, <1>2, <1>3, <1>4, <1>5, <1>6, <1>7, <1>8, <1>9, <1>10, <1>11

\* What happens outside the portal, and the opening of mailed links.
LEMMA OutsideType == TypeInv /\ Outside => TypeInv'
<1> SUFFICES ASSUME TypeInv, Outside PROVE TypeInv'
  OBVIOUS
<1>0. Core /\ request \in Row
  BY DEF TypeInv, Core
<1>1. CASE ActivateInvite
  <2>1. BrowserType'
    BY <1>1 DEF ActivateInvite, TypeInv, BrowserType
  <2> QED
    BY <1>1, <2>1 DEF ActivateInvite, TypeInv, Core, AttemptsType, GraphType, HistoryType
<1>2. ASSUME NEW a \in Approver, NEW token \in Approver, ActivateToken(a, token)
      PROVE  TypeInv'
  <2>1. BrowserType'
    BY <1>2 DEF ActivateToken, TypeInv, BrowserType
  <2> QED
    BY <1>2, <2>1 DEF ActivateToken, TypeInv, Core, AttemptsType, GraphType, HistoryType
<1>3. CASE AdminLookup
  <2>1. request.state \in States
    BY <1>0 DEF Row
  <2>2. Core'
    BY <1>0, <1>3, <2>1 DEF AdminLookup, Core
  <2> QED
    BY <1>3, <2>2, OnlyCore DEF AdminLookup
<1>4. ASSUME NEW kind \in Kind, NEW n \in Attempt, NEW event \in Event, Wallet(kind, n, event)
      PROVE  TypeInv'
  <2>1. AttemptsType'
    BY <1>4, HappensType DEF Wallet, TypeInv
  <2> QED
    BY <1>4, <2>1 DEF Wallet, TypeInv, Core, GraphType, BrowserType, HistoryType
<1>5. ASSUME NEW d \in Deadline, DeadlinePasses(d) PROVE TypeInv'
  BY <1>0, <1>5
     DEF DeadlinePasses, TypeInv, Core, AttemptsType, GraphType, BrowserType,
         HistoryType, Deadline
<1>6. ASSUME NEW key \in Key, RegisterPasskey(key) PROVE TypeInv'
  <2>1. GraphType'
    BY <1>6 DEF RegisterPasskey, TypeInv, GraphType
  <2> QED
    BY <1>6, <2>1 DEF RegisterPasskey, TypeInv, Core, AttemptsType, BrowserType, HistoryType
<1> QED
  BY <1>1, <1>2, <1>3, <1>4, <1>5, <1>6 DEF Outside

-----------------------------------------------------------------------------
(* The theorem *)

\* A new request is well-formed.
LEMMA InitType == Init => TypeInv
<1> SUFFICES ASSUME Init PROVE TypeInv
  OBVIOUS
<1>1. request \in Row
  BY InitialRowsType DEF Init
<1>2. Idle \in ReadyLocal /\ Going("notify") \in ReadyLocal
  BY LocalType DEF PlainPlace, Place
<1>3. handler \in [Worker -> ReadyLocal]
  BY <1>2 DEF Init
<1>4. Core
  BY <1>1, <1>3 DEF Init, Core
<1>5. AttemptsType
  BY DEF Init, AttemptsType
<1>6. GraphType
  BY BoundsAssumption DEF Init, GraphType
<1>7. BrowserType /\ HistoryType /\ due \subseteq Deadline
  BY DEF Init, BrowserType, HistoryType
<1> QED
  BY <1>4, <1>5, <1>6, <1>7 DEF TypeInv

\* Every step keeps the state well-formed.
LEMMA NextType == TypeInv /\ [Next]_vars => TypeInv'
<1> SUFFICES ASSUME TypeInv, [Next]_vars PROVE TypeInv'
  OBVIOUS
<1>1. /\ "direct-manager" \in Approver
      /\ "issuance" \in Kind /\ "error" \in Event /\ "cancel" \in AdminActions
  BY ApproverAssumption DEF Kind, Event, AdminActions
<1>2. ASSUME NEW w \in Worker, Continue(w) PROVE TypeInv'
  <2>1. CASE ExpireLapsed(w)
    BY <2>1, SharedType
  <2>2. CASE \/ Notify(w) \/ MarkNotified(w) \/ MarkFailed(w) \/ BindEmployee(w)
             \/ ConfirmInvite(w) \/ InviteFailed(w)
    BY <2>2, NotificationType
  <2>3. CASE Redeem(w) \/ SaveManagerSession(w)
    BY <1>1, <2>3, DecisionType
  <2>4. ASSUME NEW decision \in {"approve", "reject"}, RecordDecision(w, decision)
        PROVE  TypeInv'
    BY <1>1, <2>4, DecisionType
  <2>5. CASE Escalate(w) \/ MailSkipManager(w)
    BY <1>1, <2>5, AdministrationType
  <2>6. CASE Begin(w) \/ Create(w) \/ Attach(w) \/ Fail(w)
    BY <1>1, <2>6, ExchangeStepsType
  <2>7. CASE ApplyIssuanceCallback(w)
             \/ ApplyPresentationReport(w) \/ ApplyPresentationSuccess(w)
    BY <1>1, <2>7, CallbackType
  <2>8. CASE \/ ClaimTapStep(w) \/ CheckEligibility(w) \/ CreateTap(w)
             \/ RecordTapStep(w) \/ FailTapStep(w)
             \/ DisplayTap(w) \/ ListMethods(w) \/ Confirm(w) \/ CompleteStep(w)
    BY <2>8, TapType
  <2> QED
    BY <1>2, <2>1, <2>2, <2>3, <2>4, <2>5, <2>6, <2>7, <2>8 DEF Continue
<1>3. ASSUME NEW w \in Worker, Arrive(w) PROVE TypeInv'
  <2>1. CASE LoadLapsed(w)
    BY <2>1, SharedType
  <2>2. CASE SubmitInvite(w)
    BY <2>2, NotificationType
  <2>3. ASSUME NEW a \in Approver, NEW token \in Approver,
               SignIn(w, a, token) \/ SignInCallback(w, a) \/ OpenDecision(w, a)
        PROVE  TypeInv'
    BY <2>3, DecisionType
  <2>4. CASE OpenEscalation(w)
    BY <1>1, <2>4, AdministrationType
  <2>5. ASSUME NEW action \in AdminActions, AdminReset(w, action) PROVE TypeInv'
    BY <2>5, AdministrationType
  <2>6. ASSUME NEW kind \in Kind, OpenExchange(w, kind) PROVE TypeInv'
    BY <2>6, ExchangeStepsType
  <2>7. ASSUME NEW n \in Attempt, NEW event \in Event,
               IssuanceCallbackArrives(w, n, event) \/ PresentationCallbackArrives(w, n, event)
        PROVE  TypeInv'
    BY <1>1, <2>7, CallbackType
  <2>8. CASE OpenDisplay(w) \/ OpenConfirm(w) \/ OpenComplete(w)
    BY <2>8, TapType
  <2> QED
    BY <1>3, <2>1, <2>2, <2>3, <2>4, <2>5, <2>6, <2>7, <2>8 DEF Arrive
<1>4. ASSUME NEW w \in Worker, Crash(w) PROVE TypeInv'
  BY <1>4, SharedType
<1>5. CASE Outside
  BY <1>5, OutsideType
<1>6. CASE UNCHANGED vars
  <2>1. Core'
    BY <1>6 DEF vars, TypeInv, Core
  <2> QED
    BY <1>6, <2>1, OnlyCore DEF vars, TypeInv
<1> QED
  BY <1>2, <1>3, <1>4, <1>5, <1>6 DEF Next

\* Every reachable state is well-formed: the rows handlers write, whatever they
\* read before, and what they keep between their calls.
THEOREM TypeCorrect == Spec => []TypeOK
<1>1. TypeInv => TypeOK
  BY TypeInvImpliesTypeOK
<1> QED
  BY <1>1, InitType, NextType, PTL DEF Spec
-----------------------------------------------------------------------------
(* How the state of the request moves *)

\* Expiry overwrites every state, a reset every open one, and the notification is
\* recorded by the handler that makes it.  Every other change is made in a state
\* that is neither terminal nor requested.
Moves ==
    \/ request'.state \in {request.state, "expired"}
    \/ ~Terminal(request) /\ request'.state \in {"requested", "admin-cancelled"}
    \/ \E w \in Worker : handler[w].at = "mark-notified" /\ ~Terminal(request)
    \/ request.state \notin TerminalStates \cup {"requested"}

LEMMA StateMoves == TypeInv /\ [Next]_vars => Moves
<1> SUFFICES ASSUME TypeInv, [Next]_vars PROVE Moves
  OBVIOUS
<1>1. request \in Row /\ handler \in [Worker -> ReadyLocal]
  BY DEF TypeInv, Core
<1>2. ASSUME UNCHANGED request \/ request.state \notin TerminalStates \cup {"requested"}
      PROVE  Moves
  BY <1>2 DEF Moves
<1> USE DEF TerminalStates
<1>3. ASSUME NEW w \in Worker, Continue(w) PROVE Moves
  <2>1. CASE ExpireLapsed(w)
    <3>1. request' = [request EXCEPT !.state = "expired"]
      BY <2>1 DEF ExpireLapsed, Write, Expire
    <3> QED
      BY <1>1, <3>1 DEF Row, Moves
  <2>2. CASE MarkNotified(w)
    BY <1>2, <2>2 DEF MarkNotified, MarkManagerNotifiedAllowed, Step, At, Moves, Terminal
  <2>3. CASE Notify(w) \/ MarkFailed(w) \/ BindEmployee(w) \/ ConfirmInvite(w) \/ InviteFailed(w)
    BY <1>2, <2>3 DEF Notify, MarkFailed, BindEmployee, ConfirmInvite, InviteFailed,
       InviteOpen, Step, Write
  <2>4. CASE \/ Redeem(w) \/ SaveManagerSession(w)
             \/ \E decision \in {"approve", "reject"} : RecordDecision(w, decision)
             \/ Escalate(w) \/ MailSkipManager(w)
    BY <1>2, <2>4 DEF Redeem, SaveManagerSession, RecordDecision, Escalate, MailSkipManager,
       RedeemManagerTokenAllowed, DecideAllowed, EscalateAllowed, Step, Write
  <2>5. CASE Begin(w) \/ Create(w) \/ Attach(w) \/ Fail(w)
    BY <1>2, <2>5 DEF Begin, Create, Attach, Fail, BeginAllowed, AttachAllowed, FailAllowed,
       BeginIssuanceAllowed, BeginPresentationAllowed, AttachIssuanceAllowed,
       AttachPresentationAllowed, FailIssuanceAllowed, FailPresentationAllowed, Step
  <2>6. CASE ApplyIssuanceCallback(w) \/ ApplyPresentationSuccess(w)
    BY <1>2, <2>6 DEF ApplyIssuanceCallback, ApplyPresentationSuccess,
       IssuanceCallbackAllowed, MarkVerifiedAllowed, Step
  <2>7. CASE ApplyPresentationReport(w)
    <3>1. handler[w].status \in {"retrieved", "error", "bad"}
      BY <1>1, <2>7 DEF ApplyPresentationReport, At, ReadyLocal, Ready
    <3> QED
      BY <1>2, <2>7, <3>1 DEF ApplyPresentationReport, ReportAllowed,
         HandlePresentationRetrievedAllowed, HandlePresentationErrorAllowed,
         RecordVerificationFailureAllowed, Step
  <2>8. CASE \/ ClaimTapStep(w) \/ CheckEligibility(w) \/ CreateTap(w)
             \/ RecordTapStep(w) \/ FailTapStep(w)
    BY <1>2, <2>8 DEF ClaimTapStep, CheckEligibility, CreateTap, RecordTapStep, FailTapStep,
       ClaimTapAllowed, RecordTapAllowed, FailTapAllowed, Step
  <2>9. CASE DisplayTap(w) \/ ListMethods(w) \/ Confirm(w) \/ CompleteStep(w)
    BY <1>2, <2>9 DEF DisplayTap, ListMethods, Confirm, CompleteStep, TakeTapAllowed,
       ConfirmPasskeyAllowed, CompleteAllowed, Step
  <2> QED
    BY <1>3, <2>1, <2>2, <2>3, <2>4, <2>5, <2>6, <2>7, <2>8, <2>9 DEF Continue
<1>4. ASSUME NEW w \in Worker, Arrive(w) PROVE Moves
  <2>1. ASSUME NEW action \in AdminActions, AdminReset(w, action) PROVE Moves
    <3>1. ~Terminal(request) /\ request' = AdminResetRequest(request, action)
      BY <2>1 DEF AdminReset, AdminResetAllowed, Write
    <3>2. request'.state \in {"requested", "admin-cancelled"}
      BY <1>1, <3>1 DEF AdminResetRequest, Row
    <3> QED
      BY <3>1, <3>2 DEF Moves
  <2>2. ASSUME NEW a \in Approver, NEW token \in Approver,
               SignIn(w, a, token) \/ SignInCallback(w, a) \/ OpenDecision(w, a)
        PROVE  Moves
    BY <1>2, <2>2 DEF SignIn, SignInCallback, OpenDecision, BeginManagerSignInAllowed, Step, Write
  <2>3. CASE \/ LoadLapsed(w) \/ SubmitInvite(w) \/ OpenEscalation(w)
             \/ \E kind \in Kind : OpenExchange(w, kind)
             \/ \E n \in Attempt, event \in Event :
                   IssuanceCallbackArrives(w, n, event) \/ PresentationCallbackArrives(w, n, event)
             \/ OpenDisplay(w) \/ OpenConfirm(w) \/ OpenComplete(w)
    BY <1>2, <2>3 DEF LoadLapsed, SubmitInvite, OpenEscalation, OpenExchange,
       IssuanceCallbackArrives, PresentationCallbackArrives, OpenDisplay, OpenConfirm,
       OpenRoute, OpenComplete, Step
  <2>4. "direct-manager" \in Approver
    BY ApproverAssumption
  <2> QED
    BY <1>4, <2>1, <2>2, <2>3, <2>4 DEF Arrive
<1>5. ASSUME NEW w \in Worker, Crash(w) PROVE Moves
  BY <1>2, <1>5 DEF Crash, Step
<1>6. CASE Outside
  BY <1>2, <1>6 DEF Outside, ActivateInvite, ActivateToken, AdminLookup, Wallet,
     DeadlinePasses, RegisterPasskey
<1>7. CASE UNCHANGED vars
  BY <1>2, <1>7 DEF vars
<1> QED
  BY <1>3, <1>4, <1>5, <1>6, <1>7 DEF Next

\* No handler left over from before changes the end of a closed request, except to
\* expired (updateRequest's allowed states; loadRequest at onboarding-v2-service.js:484).
THEOREM ClosedKeepsItsEnd == Spec => TerminalStaysTerminal
<1>1. Moves => (Terminal(request) => request'.state \in {request.state, "expired"})
  BY DEF Moves, Terminal
<1>2. TypeInv /\ [Next]_vars
        => [Terminal(request) => request'.state \in {request.state, "expired"}]_vars
  BY <1>1, StateMoves
<1> QED
  BY <1>2, InitType, NextType, PTL DEF Spec, TerminalStaysTerminal

\* What a restart leads to, whichever handlers of the earlier round still run
\* (adminResetRequest, onboarding-v2-service.js:1092).
THEOREM RestartIsNotUndone == Spec => RestartAwaitsAdministrator
<1> DEFINE Awaits ==
      (/\ request.state = "requested"
       /\ \A w \in Worker : handler[w].at \notin {"notify", "mark-notified"})
      => request'.state \in {"requested", "admin-cancelled", "expired"}
<1>1. Moves => Awaits
  BY DEF Moves, Terminal
<1>2. TypeInv /\ [Next]_vars => [Awaits]_vars
  BY <1>1, StateMoves
<1> QED
  BY <1>2, InitType, NextType, PTL DEF Spec, RestartAwaitsAdministrator
=============================================================================
