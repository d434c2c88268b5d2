-------------------------- MODULE RecoveryPortal_proofs --------------------------
(***************************************************************************)
(* Proofs about RecoveryPortal: types, what the state of a recovery request *)
(* rests on, and that the passkeys an employee had are gone before the      *)
(* replacement, whatever rounds of handlers overlap.                        *)
(***************************************************************************)
EXTENDS RecoveryPortal, TLAPS

-----------------------------------------------------------------------------
(* Types *)

\* A callback handler has got one of the events that the service reports.
ReadyLocal ==
    {local \in Local : local.at = "callback" =>
        local.status \in {"retrieved", "error", "success", "bad"}}

AttemptsType == attempts \in [Attempt -> SUBSET Event]

GraphType == graph \in [taps : 0 .. MaxTaps, methods : SUBSET Key, used : SUBSET Key]

BrowserType == browser \in [bound : BOOLEAN, mail : BOOLEAN, signedIn : BOOLEAN]

HistoryType ==
    history \in [approved : BOOLEAN, methodsAtProof : SUBSET Key,
                 abandoned : BOOLEAN, overtaken : BOOLEAN]

\* What every step changes through Step or Replace.
Core ==
    /\ request \in Row
    /\ handler \in [Worker -> ReadyLocal]
    /\ due \subseteq Deadline

TypeInv == Core /\ AttemptsType /\ GraphType /\ BrowserType /\ HistoryType

LEMMA GoingType ==
    ASSUME NEW place \in Place
    PROVE  /\ Going(place) \in Local /\ Going(place).at = place
           /\ Going(place).methods = {} /\ Going(place).left = {}
           /\ Going("idle") = Idle
<1>1. 0 \in 0 .. MaxAttempts /\ 0 \in 0 .. MaxTaps
  BY RecoveryBoundsAssumption
<1> QED
  BY <1>1 DEF Going, Idle, Local

\* Where a handler may go with what it knows.
LEMMA LocalType ==
    ASSUME NEW local \in Local, NEW place \in Place \ {"callback"}
    PROVE  /\ [local EXCEPT !.at = place] \in ReadyLocal
           /\ \A n \in 0 .. MaxAttempts : [local EXCEPT !.n = n] \in Local
           /\ \A tap \in 0 .. MaxTaps : [local EXCEPT !.at = place, !.tap = tap] \in ReadyLocal
           /\ \A methods \in SUBSET Key : [local EXCEPT !.methods = methods] \in Local
           /\ \A left \in SUBSET Key : [local EXCEPT !.left = left] \in Local
           /\ local.at # "callback" => local \in ReadyLocal
  BY DEF Local, ReadyLocal

Others(w) == \A v \in Worker \ {w} : handler'[v] = handler[v]

LEMMA StepTurn ==
    ASSUME Core, NEW w \in Worker, NEW local \in ReadyLocal, Step(w, local)
    PROVE  Core' /\ Others(w) /\ handler'[w] = local /\ UNCHANGED request
  BY DEF Core, Others, Step

LEMMA WriteTurn ==
    ASSUME Core, NEW w \in Worker, NEW local \in ReadyLocal, NEW row \in Row,
           Write(w, row, local) \/ WriteAnew(w, row, local)
    PROVE  Core' /\ Others(w) /\ handler'[w] = local /\ request' = row
<1>1. PICK past \in SUBSET due : Replace(w, row, local, past)
  BY DEF Write, WriteAnew
<1> QED
  BY <1>1 DEF Core, Others, Replace

-----------------------------------------------------------------------------
(* Who changes what *)

\* What a presentation and an operation leave in the row.
SamePresentation(r, row) ==
    /\ row.presentationStatus = r.presentationStatus
    /\ row.presentationState = r.presentationState
    /\ row.presentationRequestId = r.presentationRequestId

SameOperation(r, row) ==
    /\ row.tapStatus = r.tapStatus
    /\ row.tapOperationId = r.tapOperationId
    /\ row.tapProtected = r.tapProtected
    /\ row.passkeyBaseline = r.passkeyBaseline
    /\ row.passkeyMethodId = r.passkeyMethodId

OfficeStep(w) ==
    \/ LoadLapsed(w) \/ ExpireLapsed(w)
    \/ Notify(w) \/ MarkNotified(w) \/ MarkFailed(w) \/ BindEmployee(w)
    \/ SignIn(w) \/ SignInCallback(w) \/ Redeem(w) \/ SaveManagerSession(w)
    \/ OpenDecision(w) \/ \E decision \in {"approve", "reject"} : RecordDecision(w, decision)
    \/ OpenEscalation(w) \/ Escalate(w)

OfficePlace == {"idle", "expire", "notify", "mark-notified", "mark-failed", "bind",
                "redeem", "save-session", "decide", "escalate"}

\* Expiry overwrites every state, the rest moves a request that is not approved yet.
OfficeRow(r, row) ==
    /\ row \in Row /\ SamePresentation(r, row) /\ SameOperation(r, row)
    /\ \/ row = r \/ row.state = "expired"
       \/ r.state = "requested" /\ row.state = "manager-notified"
       \/ r.state = "manager-notified"
          /\ row.state \in {"manager-notified", "manager-approved", "locked"}

\* Only a decision approves.
OtherOfficeRow(r, row) == OfficeRow(r, row) /\ (row.state \in Approved => row = r)

LEMMA OfficeRows ==
    ASSUME NEW r \in Row, NEW decision, NEW tokenOver
    PROVE  /\ OtherOfficeRow(r, r)
           /\ OtherOfficeRow(r, Expire(r))
           /\ MarkManagerNotifiedAllowed(r) => OtherOfficeRow(r, MarkManagerNotified(r))
           /\ BeginManagerSignInAllowed(r) => OtherOfficeRow(r, BeginManagerSignIn(r))
           /\ RedeemManagerTokenAllowed(r, tokenOver) => OtherOfficeRow(r, RedeemManagerToken(r))
           /\ EscalateAllowed(r) => OtherOfficeRow(r, EscalateToSkipManager(r))
           /\ DecideAllowed(r) => OfficeRow(r, Decide(r, decision))
<1> USE DEF OtherOfficeRow, OfficeRow, SamePresentation, SameOperation, Row, States,
            TerminalStates, Approved
<1>1. OtherOfficeRow(r, r) /\ OtherOfficeRow(r, Expire(r))
  BY DEF Expire
<1>2. MarkManagerNotifiedAllowed(r) => OtherOfficeRow(r, MarkManagerNotified(r))
  BY DEF MarkManagerNotifiedAllowed, MarkManagerNotified
<1>6. BeginManagerSignInAllowed(r) => OtherOfficeRow(r, BeginManagerSignIn(r))
  BY DEF BeginManagerSignInAllowed, BeginManagerSignIn
<1>3. RedeemManagerTokenAllowed(r, tokenOver) => OtherOfficeRow(r, RedeemManagerToken(r))
  BY DEF RedeemManagerTokenAllowed, RedeemManagerToken
<1>4. DecideAllowed(r) => OfficeRow(r, Decide(r, decision))
  BY DEF DecideAllowed, Decide
<1>5. EscalateAllowed(r) => OtherOfficeRow(r, EscalateToSkipManager(r))
  BY DEF EscalateAllowed, EscalateToSkipManager
<1> QED
  BY <1>1, <1>2, <1>3, <1>4, <1>5, <1>6

\* Only the approving decision leads to an approved request, and says so.
LEMMA OfficeChanges ==
    ASSUME TypeInv, NEW w \in Worker, OfficeStep(w)
    PROVE  /\ TypeInv' /\ Others(w)
           /\ handler[w].at \in OfficePlace /\ handler'[w].at \in OfficePlace
           /\ OfficeRow(request, request')
           /\ UNCHANGED <<attempts, graph>>
           /\ history'.methodsAtProof = history.methodsAtProof
           /\ history'.abandoned = history.abandoned
           /\ history'.overtaken = history.overtaken
           /\ request'.state \in Approved =>
                 history'.approved \/ (request' = request /\ UNCHANGED history)
<1> DEFINE Decided == \E decision \in {"approve", "reject"} : RecordDecision(w, decision)
           Effect == /\ Core' /\ Others(w)
                     /\ handler[w].at \in OfficePlace /\ handler'[w].at \in OfficePlace
                     /\ OfficeRow(request, request')
                     /\ request'.state \in Approved => request' = request \/ Decided
           Quietly == UNCHANGED <<attempts, graph, history>> /\ BrowserType'
           Calm(local) == local \in ReadyLocal /\ local.at \in OfficePlace
<1>0. Core /\ request \in Row
  BY DEF TypeInv, Core
<1>1. ASSUME NEW local, Calm(local), Step(w, local), handler[w].at \in OfficePlace
      PROVE  Effect
  BY <1>0, <1>1, StepTurn, OfficeRows DEF OtherOfficeRow
<1>2. ASSUME NEW local, NEW row, Calm(local), Write(w, row, local),
             OtherOfficeRow(request, row), handler[w].at \in OfficePlace
      PROVE  Effect
  BY <1>0, <1>2, WriteTurn DEF OtherOfficeRow, OfficeRow
<1>3. Calm(Idle) /\ \A place \in OfficePlace : Calm(Going(place))
  BY GoingType, LocalType DEF OfficePlace, Place
<1> HIDE DEF Calm, Effect, Decided
<1> USE DEF At, OfficePlace
<1>4. LoadLapsed(w) \/ ExpireLapsed(w) => Effect /\ Quietly
  <2>1. LoadLapsed(w) \/ ExpireLapsed(w) => Effect
    BY <1>0, <1>1, <1>2, <1>3, OfficeRows DEF LoadLapsed, ExpireLapsed
  <2> QED
    BY <2>1 DEF LoadLapsed, ExpireLapsed, TypeInv, BrowserType
<1>5. Notify(w) \/ MarkNotified(w) \/ MarkFailed(w) \/ BindEmployee(w) => Effect /\ Quietly
  <2>1. Notify(w) \/ MarkNotified(w) \/ MarkFailed(w) \/ BindEmployee(w) => Effect
    BY <1>0, <1>1, <1>2, <1>3, OfficeRows DEF Notify, MarkNotified, MarkFailed, BindEmployee
  <2> QED
    BY <2>1 DEF Notify, MarkNotified, MarkFailed, BindEmployee, Mailed, TypeInv, BrowserType
<1>6. SignIn(w) \/ SignInCallback(w) \/ Redeem(w) \/ SaveManagerSession(w) => Effect /\ Quietly
  <2>1. SignIn(w) \/ SignInCallback(w) \/ Redeem(w) \/ SaveManagerSession(w) => Effect
    BY <1>0, <1>1, <1>2, <1>3, OfficeRows
       DEF SignIn, SignInCallback, Redeem, SaveManagerSession
  <2> QED
    BY <2>1 DEF SignIn, SignInCallback, Redeem, SaveManagerSession, TypeInv, BrowserType
<1>7. OpenDecision(w) \/ OpenEscalation(w) \/ Escalate(w) => Effect /\ Quietly
  <2>1. OpenDecision(w) \/ OpenEscalation(w) \/ Escalate(w) => Effect
    BY <1>0, <1>1, <1>2, <1>3, OfficeRows DEF OpenDecision, OpenEscalation, Escalate
  <2> QED
    BY <2>1 DEF OpenDecision, OpenEscalation, Escalate, TypeInv, BrowserType
<1>8. ASSUME NEW decision \in {"approve", "reject"}, RecordDecision(w, decision)
      PROVE  /\ Effect /\ UNCHANGED <<attempts, graph, browser>> /\ HistoryType'
             /\ history'.methodsAtProof = history.methodsAtProof
             /\ history'.abandoned = history.abandoned
             /\ history'.overtaken = history.overtaken
             /\ request'.state \in Approved =>
                   history'.approved \/ (request' = request /\ UNCHANGED history)
  <2>1. Effect
    <3>1. Decided
      BY <1>8 DEF Decided
    <3>2. ASSUME NEW local, NEW row, Calm(local), Write(w, row, local),
                 OfficeRow(request, row), handler[w].at \in OfficePlace
          PROVE  Effect
      BY <1>0, <3>1, <3>2, WriteTurn DEF OfficeRow, Calm, Effect
    <3> QED
      BY <1>0, <1>1, <3>2, <1>3, <1>8, OfficeRows DEF RecordDecision
  <2>2. HistoryType'
    BY <1>8 DEF RecordDecision, TypeInv, HistoryType
  <2>3. \/ request' = request /\ UNCHANGED history
        \/ /\ request' = Decide(request, decision)
           /\ history' = [history EXCEPT !.approved = decision = "approve"]
    BY <1>8 DEF RecordDecision, Step, Write, Replace
  <2>4. decision # "approve" => Decide(request, decision).state \notin Approved
    BY <1>0 DEF Decide, Row, Approved
  <2>5. /\ history'.methodsAtProof = history.methodsAtProof
        /\ history'.abandoned = history.abandoned
        /\ history'.overtaken = history.overtaken
    BY <2>3 DEF TypeInv, HistoryType
  <2>6. request'.state \in Approved =>
            history'.approved \/ (request' = request /\ UNCHANGED history)
    <3>1. CASE request' = request /\ UNCHANGED history
      BY <3>1
    <3>2. CASE decision = "approve" /\ history' = [history EXCEPT !.approved = decision = "approve"]
      <4>1. history'.approved
        BY <3>2 DEF TypeInv, HistoryType
      <4> QED
        BY <4>1
    <3>3. CASE decision # "approve" /\ request' = Decide(request, decision)
      BY <2>4, <3>3
    <3> QED
      BY <2>3, <3>1, <3>2, <3>3
  <2> QED
    BY <1>8, <2>1, <2>2, <2>5, <2>6 DEF RecordDecision
<1>9. CASE Decided
  <2>1. PICK decision \in {"approve", "reject"} : RecordDecision(w, decision)
    BY <1>9 DEF Decided
  <2>2. /\ Effect /\ UNCHANGED <<attempts, graph, browser>> /\ HistoryType'
        /\ history'.methodsAtProof = history.methodsAtProof
        /\ history'.abandoned = history.abandoned
        /\ history'.overtaken = history.overtaken
        /\ request'.state \in Approved =>
                   history'.approved \/ (request' = request /\ UNCHANGED history)
    BY <1>8, <2>1
  <2>3. TypeInv'
    BY <2>2 DEF Effect, TypeInv, AttemptsType, GraphType, BrowserType
  <2>4. request'.state \in Approved =>
            history'.approved \/ (request' = request /\ UNCHANGED history)
    BY <2>2
  <2>5. /\ Others(w) /\ handler[w].at \in OfficePlace /\ handler'[w].at \in OfficePlace
        /\ OfficeRow(request, request')
    BY <2>2 DEF Effect
  <2>6. UNCHANGED <<attempts, graph>>
    BY <2>2
  <2> QED
    BY <2>2, <2>3, <2>4, <2>5, <2>6
<1>10. CASE ~Decided
  <2>1. Effect /\ Quietly
    BY <1>4, <1>5, <1>6, <1>7, <1>10 DEF OfficeStep, Decided
  <2> QED
    BY <1>10, <2>1 DEF Effect, TypeInv, AttemptsType, GraphType, HistoryType
<1> QED
  BY <1>9, <1>10

ExchangeStep(w) ==
    \/ OpenPresentation(w) \/ Begin(w) \/ Create(w) \/ Attach(w) \/ Fail(w)
    \/ \E n \in Attempt, event \in Event : CallbackArrives(w, n, event)
    \/ ApplyReport(w) \/ ApplySuccess(w)

ExchangePlace == {"idle", "begin", "create", "attach", "fail", "callback", "claim"}

Presenting == {"manager-approved", "credential-presented"}

ExchangeRow(r, row) ==
    /\ row \in Row /\ SameOperation(r, row)
    /\ \/ row = r
       \/ r.state \in Presenting /\ row.state \in Presenting \cup {"verified", "locked"}

\* Only the successful callback verifies.
OtherExchangeRow(r, row) == ExchangeRow(r, row) /\ (row.state = "verified" => row = r)

LEMMA ExchangeRows ==
    ASSUME NEW r \in Row
    PROVE  /\ OtherExchangeRow(r, r)
           /\ r.state \in Presenting =>
                 \A n \in Attempt : OtherExchangeRow(r, BeginPresentation(r, n))
           /\ \A n \in 0 .. MaxAttempts :
                 /\ AttachPresentationAllowed(r, n) => OtherExchangeRow(r, AttachPresentation(r, n))
                 /\ FailPresentationAllowed(r, n) => OtherExchangeRow(r, FailPresentation(r))
           /\ HandlePresentationRetrievedAllowed(r)
                => OtherExchangeRow(r, HandlePresentationRetrieved(r))
           /\ HandlePresentationErrorAllowed(r)
                => OtherExchangeRow(r, HandlePresentationError(r))
           /\ RecordVerificationFailureAllowed(r)
                => OtherExchangeRow(r, RecordVerificationFailure(r))
           /\ MarkVerifiedAllowed(r) => ExchangeRow(r, MarkVerified(r))
<1> USE DEF OtherExchangeRow, ExchangeRow, Presenting, SameOperation, Row, States,
            TerminalStates, Approved
<1>1. OtherExchangeRow(r, r)
  OBVIOUS
<1>2. ASSUME NEW n \in Attempt, r.state \in Presenting
      PROVE  OtherExchangeRow(r, BeginPresentation(r, n))
  <2>1. n \in 0 .. MaxAttempts /\ r.presentationRetryCount + 1 \in Nat
    BY RecoveryBoundsAssumption DEF Attempt
  <2> QED
    BY <1>2, <2>1 DEF BeginPresentation
<1>3. \A n \in 0 .. MaxAttempts :
         /\ AttachPresentationAllowed(r, n) => OtherExchangeRow(r, AttachPresentation(r, n))
         /\ FailPresentationAllowed(r, n) => OtherExchangeRow(r, FailPresentation(r))
  BY DEF AttachPresentationAllowed, AttachPresentation, FailPresentationAllowed,
         FailPresentation
<1>4. HandlePresentationRetrievedAllowed(r)
        => OtherExchangeRow(r, HandlePresentationRetrieved(r))
  BY DEF HandlePresentationRetrievedAllowed, HandlePresentationRetrieved
<1>7. HandlePresentationErrorAllowed(r) => OtherExchangeRow(r, HandlePresentationError(r))
  BY DEF HandlePresentationErrorAllowed, HandlePresentationError
<1>5. RecordVerificationFailureAllowed(r) => OtherExchangeRow(r, RecordVerificationFailure(r))
  <2>1. r.verificationFailureCount + 1 \in Nat
    OBVIOUS
  <2> QED
    BY <2>1 DEF RecordVerificationFailureAllowed, RecordVerificationFailure
<1>6. MarkVerifiedAllowed(r) => ExchangeRow(r, MarkVerified(r))
  BY DEF MarkVerifiedAllowed, MarkVerified
<1> QED
  BY <1>1, <1>2, <1>3, <1>4, <1>5, <1>6, <1>7

LEMMA ExchangeChanges ==
    ASSUME TypeInv, NEW w \in Worker, ExchangeStep(w)
    PROVE  /\ TypeInv' /\ Others(w)
           /\ handler[w].at \in ExchangePlace /\ handler'[w].at \in ExchangePlace
           /\ ExchangeRow(request, request')
           /\ UNCHANGED graph
           /\ \/ UNCHANGED history /\ OtherExchangeRow(request, request')
              \/ ApplySuccess(w) /\ MarkVerifiedAllowed(request)
<1> DEFINE Effect == /\ Core' /\ Others(w)
                     /\ handler[w].at \in ExchangePlace /\ handler'[w].at \in ExchangePlace
                     /\ OtherExchangeRow(request, request')
           Calm(local) == local \in ReadyLocal /\ local.at \in ExchangePlace
           Quietly == UNCHANGED <<graph, browser, history>> /\ AttemptsType'
<1>0. Core /\ request \in Row /\ handler[w] \in Local
  BY DEF TypeInv, Core, ReadyLocal
<1>1. ASSUME NEW local, Calm(local), Step(w, local), handler[w].at \in ExchangePlace
      PROVE  Effect
  BY <1>0, <1>1, StepTurn, ExchangeRows DEF OtherExchangeRow, ExchangeRow, SameOperation
<1>2. ASSUME NEW local, NEW row, Calm(local), OtherExchangeRow(request, row),
             Write(w, row, local) \/ WriteAnew(w, row, local), handler[w].at \in ExchangePlace
      PROVE  Effect
  BY <1>0, <1>2, WriteTurn DEF OtherExchangeRow, ExchangeRow
<1>3. /\ Calm(Idle) /\ \A place \in ExchangePlace \ {"callback"} : Calm(Going(place))
      /\ \A n \in Attempt : Calm([Going("create") EXCEPT !.n = n])
      /\ \A place \in ExchangePlace \ {"callback"} : Calm([handler[w] EXCEPT !.at = place])
      /\ \A place \in {"callback", "claim"}, status \in {"retrieved", "error", "success", "bad"} :
            Calm([Going(place) EXCEPT !.status = status])
  <2>1. ASSUME NEW place \in ExchangePlace \ {"callback"}
        PROVE  Calm(Going(place)) /\ Calm([handler[w] EXCEPT !.at = place])
    <3>1. place \in Place \ {"callback"} /\ place \in ExchangePlace
      BY DEF ExchangePlace, Place
    <3>2. Going(place) \in ReadyLocal /\ Going(place).at = place
      BY <3>1, GoingType DEF ReadyLocal
    <3>3. /\ [handler[w] EXCEPT !.at = place] \in ReadyLocal
          /\ [handler[w] EXCEPT !.at = place].at = place
      BY <1>0, <3>1, LocalType DEF Local
    <3> QED
      BY <3>1, <3>2, <3>3
  <2>2. Calm(Idle)
    <3>1. Idle = Going("idle") /\ "idle" \in ExchangePlace \ {"callback"}
      BY GoingType DEF ExchangePlace, Place
    <3> QED
      BY <2>1, <3>1
  <2>3. \A n \in Attempt : Calm([Going("create") EXCEPT !.n = n])
    BY GoingType DEF ExchangePlace, Place, Local, ReadyLocal, Attempt
  <2>4. \A place \in {"callback", "claim"}, status \in {"retrieved", "error", "success", "bad"} :
            Calm([Going(place) EXCEPT !.status = status])
    BY GoingType DEF ExchangePlace, Place, Local, ReadyLocal, Event
  <2> QED
    BY <2>1, <2>2, <2>3, <2>4
<1>4. ASSUME NEW n, NEW event \in Event, Happens(n, event)
      PROVE  AttemptsType'
  BY <1>4 DEF Happens, TypeInv, AttemptsType
<1> HIDE DEF Calm, Effect
<1> USE DEF At, ExchangePlace
<1>5. OpenPresentation(w) => Effect /\ Quietly
  BY <1>0, <1>1, <1>3 DEF OpenPresentation, OpenRoute, TypeInv, AttemptsType
<1>6. Begin(w) => Effect /\ Quietly
  <2>1. Begin(w) => Effect
    <3>1. BeginPresentationAllowed(request, "presentation" \in due) => request.state \in Presenting
      BY DEF BeginPresentationAllowed, Presenting
    <3> QED
      BY <1>0, <1>1, <1>2, <1>3, <3>1, ExchangeRows DEF Begin
  <2>2. Begin(w) => AttemptsType'
    <3>1. CASE UNCHANGED attempts
      BY <3>1 DEF TypeInv, AttemptsType
    <3>2. ASSUME NEW n, Happens(n, "named")
          PROVE  AttemptsType'
      BY <1>4, <3>2 DEF Event
    <3> QED
      BY <3>1, <3>2 DEF Begin
  <2> QED
    BY <2>1, <2>2 DEF Begin
<1>7. Create(w) => Effect /\ Quietly
  <2>1. Create(w) => Effect
    BY <1>0, <1>1, <1>3 DEF Create
  <2>2. Create(w) => AttemptsType'
    <3>1. CASE UNCHANGED attempts
      BY <3>1 DEF TypeInv, AttemptsType
    <3>2. CASE Happens(handler[w].n, "created")
      BY <1>4, <3>2 DEF Event
    <3> QED
      BY <3>1, <3>2 DEF Create
  <2> QED
    BY <2>1, <2>2 DEF Create
<1>8. Attach(w) \/ Fail(w) => Effect /\ Quietly
  <2>1. Attach(w) \/ Fail(w) => Effect
    <3>1. handler[w].n \in 0 .. MaxAttempts
      BY <1>0 DEF Local
    <3> QED
      BY <1>0, <1>1, <1>2, <1>3, <3>1, ExchangeRows DEF Attach, Fail
  <2> QED
    BY <2>1 DEF Attach, Fail, TypeInv, AttemptsType
<1>9. ASSUME NEW n \in Attempt, NEW event \in Event, CallbackArrives(w, n, event)
      PROVE  Effect /\ Quietly
  <2>1. event \in {"retrieved", "error", "success", "bad"}
    BY <1>9 DEF CallbackArrives, Event
  <2>2. AfterLookup(request.state, event) \in {"callback", "claim", "idle"}
    BY <2>1 DEF AfterLookup
  <2> QED
    BY <1>0, <1>1, <1>3, <1>9, <2>1, <2>2 DEF CallbackArrives, TypeInv, AttemptsType
<1>10. ApplyReport(w) => Effect /\ Quietly
  <2>1. At(w, "callback") /\ handler[w].status # "success"
        => handler[w].status \in {"retrieved", "error", "bad"}
    BY DEF TypeInv, Core, ReadyLocal
  <2>2. \A event \in {"retrieved", "error", "bad"} :
            ReportAllowed(event) => OtherExchangeRow(request, ReportRow(event))
    BY <1>0, ExchangeRows DEF ReportAllowed, ReportRow
  <2> QED
    BY <1>0, <1>1, <1>2, <1>3, <2>1, <2>2 DEF ApplyReport, TypeInv, AttemptsType
<1>11. (Effect /\ Quietly) =>
         /\ TypeInv' /\ Others(w)
         /\ handler[w].at \in ExchangePlace /\ handler'[w].at \in ExchangePlace
         /\ OtherExchangeRow(request, request') /\ ExchangeRow(request, request')
         /\ UNCHANGED <<graph, history>>
  BY DEF Effect, TypeInv, AttemptsType, GraphType, BrowserType, HistoryType, OtherExchangeRow
<1>12. ASSUME ApplySuccess(w)
       PROVE  /\ TypeInv' /\ Others(w)
              /\ handler[w].at \in ExchangePlace /\ handler'[w].at \in ExchangePlace
              /\ ExchangeRow(request, request') /\ UNCHANGED graph
              /\ \/ UNCHANGED history /\ OtherExchangeRow(request, request')
                 \/ MarkVerifiedAllowed(request)
  <2>1. CASE MarkVerifiedAllowed(request)
    <3>1. Write(w, MarkVerified(request), Going("claim")) /\ UNCHANGED <<attempts, graph, browser>>
          /\ history' = [history EXCEPT !.methodsAtProof = graph.methods]
      BY <1>12, <2>1 DEF ApplySuccess
    <3>2. MarkVerified(request) \in Row /\ ExchangeRow(request, MarkVerified(request))
      BY <1>0, <2>1, ExchangeRows DEF ExchangeRow
    <3>3. Core' /\ Others(w) /\ handler'[w] = Going("claim") /\ request' = MarkVerified(request)
      BY <1>0, <1>3, <3>1, <3>2, WriteTurn DEF Calm
    <3>4. HistoryType' /\ GraphType' /\ AttemptsType' /\ BrowserType'
      BY <3>1 DEF TypeInv, HistoryType, GraphType, AttemptsType, BrowserType
    <3> QED
      BY <1>3, <1>12, <2>1, <3>1, <3>2, <3>3, <3>4 DEF TypeInv, Calm, ApplySuccess
  <2>2. CASE ~MarkVerifiedAllowed(request)
    <3>1. Effect
      BY <1>0, <1>1, <1>3, <1>12, <2>2 DEF ApplySuccess
    <3>2. Quietly
      BY <1>12, <2>2 DEF ApplySuccess, TypeInv, AttemptsType
    <3> QED
      BY <1>11, <3>1, <3>2
  <2> QED
    BY <2>1, <2>2
<1>13. CASE ApplySuccess(w)
  BY <1>12, <1>13
<1>14. CASE ~ApplySuccess(w)
  <2>1. Effect /\ Quietly
    BY <1>5, <1>6, <1>7, <1>8, <1>9, <1>10, <1>14 DEF ExchangeStep
  <2> QED
    BY <1>11, <2>1
<1> QED
  BY <1>13, <1>14

OperationStep(w) ==
    \/ Claim(w) \/ CheckAndList(w) \/ Revoke(w) \/ CreateTap(w)
    \/ RecordTapStep(w) \/ FailTapStep(w)

\* An operation moves verified to passkeys-revoked and on to tap-issued, and never
\* leaves an error behind that it does not stay with.
OperationRow(r, row) ==
    /\ row \in Row /\ SamePresentation(r, row)
    /\ \/ row = r
       \/ r.state = "verified" /\ row.state = "passkeys-revoked"
       \/ /\ r.state = "passkeys-revoked" /\ r.tapStatus # "error"
          /\ row.state \in {"passkeys-revoked", "tap-issued"}

LEMMA OperationRows ==
    ASSUME NEW r \in Row, NEW w \in Worker, NEW tap \in 0 .. MaxTaps, NEW methods \in SUBSET Key
    PROVE  /\ OperationRow(r, r)
           /\ ClaimRevocationAllowed(r) => OperationRow(r, ClaimRevocation(r, w))
           /\ RecordTapAllowed(r, w) => OperationRow(r, RecordTap(r, tap, methods))
           /\ FailTapAllowed(r, w) => OperationRow(r, FailTap(r))
<1> USE DEF OperationRow, SamePresentation, Row, States, TerminalStates, Approved
<1>1. OperationRow(r, r)
  OBVIOUS
<1>2. ClaimRevocationAllowed(r) => OperationRow(r, ClaimRevocation(r, w))
  BY DEF ClaimRevocationAllowed, ClaimRevocation
<1>3. RecordTapAllowed(r, w) => OperationRow(r, RecordTap(r, tap, methods))
  BY DEF RecordTapAllowed, RecordTap
<1>4. FailTapAllowed(r, w) => OperationRow(r, FailTap(r))
  <2>1. CASE r.tapStatus = "error"
    <3>1. FailTap(r) = r
      BY <2>1 DEF FailTap
    <3> QED
      BY <1>1, <3>1
  <2>2. CASE r.tapStatus # "error"
    BY <2>2 DEF FailTapAllowed, FailTap
  <2> QED
    BY <2>1, <2>2
<1> QED
  BY <1>1, <1>2, <1>3, <1>4

LEMMA OperationChanges ==
    ASSUME TypeInv, NEW w \in Worker, OperationStep(w)
    PROVE  /\ TypeInv' /\ Others(w)
           /\ OperationRow(request, request')
           /\ UNCHANGED <<attempts, browser>>
           /\ handler[w].at \in RevocationPlace \cup {"claim"}
           /\ handler'[w].at \in RevocationPlace \cup {"idle"}
           /\ history'.approved = history.approved
           /\ history'.methodsAtProof = history.methodsAtProof
           /\ history'.overtaken = history.overtaken
<1> DEFINE Effect == /\ Core' /\ Others(w) /\ OperationRow(request, request')
                     /\ handler'[w].at \in RevocationPlace \cup {"idle"}
           Calm(local) == local \in ReadyLocal /\ local.at \in RevocationPlace \cup {"idle"}
           Quietly == UNCHANGED <<attempts, browser, history>> /\ GraphType'
           Marks == /\ UNCHANGED <<attempts, graph, browser>> /\ HistoryType'
                    /\ history'.approved = history.approved
                    /\ history'.methodsAtProof = history.methodsAtProof
                    /\ history'.overtaken = history.overtaken
<1>0. /\ Core /\ request \in Row /\ handler[w] \in Local
      /\ handler[w].tap \in 0 .. MaxTaps /\ handler[w].methods \in SUBSET Key
      /\ handler[w].left \in SUBSET Key /\ graph.taps \in 0 .. MaxTaps
      /\ graph.methods \in SUBSET Key /\ 0 \in 0 .. MaxTaps
  BY RecoveryBoundsAssumption DEF TypeInv, Core, ReadyLocal, Local, GraphType
<1>1. ASSUME NEW local, Calm(local), Step(w, local)
      PROVE  Effect
  <2>1. OperationRow(request, request)
    BY <1>0, OperationRows
  <2> QED
    BY <1>0, <1>1, <2>1, StepTurn
<1>2. ASSUME NEW local, NEW row, Calm(local), OperationRow(request, row), Write(w, row, local)
      PROVE  Effect
  BY <1>0, <1>2, WriteTurn DEF OperationRow
<1>3. /\ Calm(Idle) /\ \A place \in RevocationPlace : Calm(Going(place))
      /\ Calm([Going("revoke") EXCEPT !.methods = graph.methods, !.left = graph.methods])
      /\ \A key : At(w, "revoke") => Calm([handler[w] EXCEPT !.left = @ \ {key}])
      /\ \A tap \in 0 .. MaxTaps : Calm([handler[w] EXCEPT !.at = "record-tap", !.tap = tap])
  <2>1. \A place \in RevocationPlace : Calm(Going(place))
    BY GoingType DEF RevocationPlace, Place, ReadyLocal
  <2>2. Calm(Idle)
    BY GoingType DEF Place, ReadyLocal
  <2>3. Calm([Going("revoke") EXCEPT !.methods = graph.methods, !.left = graph.methods])
    BY <1>0, GoingType DEF RevocationPlace, Place, Local, ReadyLocal
  <2>4. \A key : At(w, "revoke") => Calm([handler[w] EXCEPT !.left = @ \ {key}])
    BY <1>0 DEF RevocationPlace, Local, ReadyLocal, At
  <2>5. \A tap \in 0 .. MaxTaps : Calm([handler[w] EXCEPT !.at = "record-tap", !.tap = tap])
    BY <1>0, LocalType DEF RevocationPlace, Place, Local
  <2> QED
    BY <2>1, <2>2, <2>3, <2>4, <2>5
<1> HIDE DEF Calm, Effect
<1>4. Claim(w) => Effect /\ Marks
  <2>1. Claim(w) => Effect
    BY <1>0, <1>1, <1>2, <1>3, OperationRows DEF Claim, RevocationPlace
  <2> QED
    BY <2>1 DEF Claim, Abandon, TypeInv, HistoryType
<1>5. CheckAndList(w) => Effect /\ Quietly
  <2>1. CheckAndList(w) => Effect
    BY <1>0, <1>1, <1>3 DEF CheckAndList, GoFail, RevocationPlace
  <2> QED
    BY <2>1 DEF CheckAndList, TypeInv, GraphType
<1>6. Revoke(w) => Effect /\ Quietly
  <2>1. Revoke(w) => Effect
    BY <1>0, <1>1, <1>3 DEF Revoke, GoFail, RevocationPlace
  <2> QED
    BY <2>1 DEF Revoke, TypeInv, GraphType
<1>7. CreateTap(w) => Effect /\ Quietly
  <2>1. graph.taps + 1 <= MaxTaps => graph.taps + 1 \in 0 .. MaxTaps
    BY <1>0, RecoveryBoundsAssumption
  <2>2. CreateTap(w) => Effect
    BY <1>0, <1>1, <1>3, <2>1 DEF CreateTap, GoFail, RevocationPlace
  <2> QED
    BY <2>1, <2>2 DEF CreateTap, TypeInv, GraphType
<1>8. RecordTapStep(w) => Effect /\ Quietly
  <2>1. RecordTapStep(w) => Effect
    BY <1>0, <1>1, <1>2, <1>3, OperationRows DEF RecordTapStep, GoFail, RevocationPlace
  <2> QED
    BY <2>1 DEF RecordTapStep, TypeInv, GraphType
<1>9. FailTapStep(w) => Effect /\ Marks
  <2>1. FailTapStep(w) => Effect
    BY <1>0, <1>1, <1>2, <1>3, OperationRows DEF FailTapStep, RevocationPlace
  <2> QED
    BY <2>1 DEF FailTapStep, Abandon, TypeInv, HistoryType
<1>10. handler[w].at \in RevocationPlace \cup {"claim"}
  BY DEF OperationStep, Claim, CheckAndList, Revoke, CreateTap, RecordTapStep, FailTapStep, At,
         RevocationPlace
<1>11. CASE Claim(w) \/ FailTapStep(w)
  BY <1>4, <1>10, <1>11, <1>9 DEF Effect, TypeInv, AttemptsType, GraphType, BrowserType
<1>12. CASE ~Claim(w) /\ ~FailTapStep(w)
  <2>1. Effect /\ Quietly
    BY <1>5, <1>6, <1>7, <1>8, <1>12 DEF OperationStep
  <2> QED
    BY <1>10, <2>1 DEF Effect, TypeInv, AttemptsType, BrowserType, HistoryType
<1> QED
  BY <1>11, <1>12

ReplacementStep(w) ==
    \/ OpenDisplay(w) \/ OpenConfirm(w) \/ OpenComplete(w)
    \/ DisplayTap(w) \/ ListMethods(w) \/ Confirm(w) \/ CompleteStep(w)

ReplacementPlace == {"idle", "take", "list-methods", "confirm", "complete"}

ReplacementRow(r, row) ==
    /\ row \in Row /\ row.presentationStatus = r.presentationStatus
    /\ \/ row = r
       \/ /\ r.state = "tap-issued"
          /\ row = TakeTapForDisplay(r) \/ row.state = "passkey-registered"
       \/ r.state = "passkey-registered" /\ row = Complete(r)

LEMMA ReplacementChanges ==
    ASSUME TypeInv, NEW w \in Worker, ReplacementStep(w)
    PROVE  /\ TypeInv' /\ Others(w)
           /\ ReplacementRow(request, request')
           /\ handler[w].at \in ReplacementPlace /\ handler'[w].at \in ReplacementPlace
           /\ UNCHANGED <<attempts, graph, history>>
<1> DEFINE Effect == /\ Core' /\ Others(w) /\ ReplacementRow(request, request')
                     /\ handler[w].at \in ReplacementPlace /\ handler'[w].at \in ReplacementPlace
           Calm(local) == local \in ReadyLocal /\ local.at \in ReplacementPlace
           Quietly == UNCHANGED <<attempts, graph, history>> /\ BrowserType'
<1>0. /\ Core /\ request \in Row /\ handler[w] \in Local
      /\ handler[w].methods \in SUBSET Key /\ graph.methods \in SUBSET Key
      /\ 0 \in 0 .. MaxTaps /\ 0 \in 0 .. MaxAttempts
  BY RecoveryBoundsAssumption DEF TypeInv, Core, ReadyLocal, Local, GraphType
<1>1. ASSUME NEW local, Calm(local), Step(w, local), handler[w].at \in ReplacementPlace
      PROVE  Effect
  BY <1>0, <1>1, StepTurn DEF ReplacementRow
<1>2. ASSUME NEW local, NEW row, Calm(local), ReplacementRow(request, row), Write(w, row, local),
             handler[w].at \in ReplacementPlace
      PROVE  Effect
  BY <1>0, <1>2, WriteTurn DEF ReplacementRow
<1>3. /\ Calm(Idle) /\ \A place \in ReplacementPlace : Calm(Going(place))
      /\ Calm([Going("confirm") EXCEPT !.methods = graph.methods])
  <2>1. \A place \in ReplacementPlace : Calm(Going(place))
    BY GoingType DEF ReplacementPlace, Place, ReadyLocal
  <2>2. Calm(Idle)
    BY GoingType DEF ReplacementPlace, Place, ReadyLocal
  <2>3. Calm([Going("confirm") EXCEPT !.methods = graph.methods])
    BY <1>0, GoingType DEF ReplacementPlace, Place, Local, ReadyLocal
  <2> QED
    BY <2>1, <2>2, <2>3
<1>4. /\ TakeTapAllowed(request) => ReplacementRow(request, TakeTapForDisplay(request))
      /\ CompleteAllowed(request) => ReplacementRow(request, Complete(request))
      /\ \A methods \in SUBSET Key, key \in Key : ConfirmPasskeyAllowed(request, methods)
            => ReplacementRow(request, ConfirmPasskey(request, key))
  BY <1>0 DEF ReplacementRow, TakeTapAllowed, TakeTapForDisplay, CompleteAllowed, Complete,
              ConfirmPasskeyAllowed, ConfirmPasskey, Row, States, TerminalStates, Approved
<1> HIDE DEF Calm, Effect
<1>5. OpenDisplay(w) \/ OpenConfirm(w) \/ OpenComplete(w) => Effect /\ Quietly
  <2>1. OpenDisplay(w) \/ OpenConfirm(w) \/ OpenComplete(w) => Effect
    BY <1>0, <1>1, <1>3
       DEF OpenDisplay, OpenConfirm, OpenComplete, OpenRoute, At, ReplacementPlace
  <2> QED
    BY <2>1 DEF OpenDisplay, OpenConfirm, OpenComplete, OpenRoute, TypeInv, BrowserType
<1>6. DisplayTap(w) \/ ListMethods(w) => Effect /\ Quietly
  <2>1. DisplayTap(w) \/ ListMethods(w) => Effect
    BY <1>0, <1>1, <1>2, <1>3, <1>4 DEF DisplayTap, ListMethods, At, ReplacementPlace
  <2> QED
    BY <2>1 DEF DisplayTap, ListMethods, TypeInv, BrowserType
<1>7. Confirm(w) => Effect /\ Quietly
  <2>1. NewMethods(request, handler[w].methods) \subseteq Key
    BY <1>0 DEF NewMethods
  <2>2. Confirm(w) => Effect
    BY <1>0, <1>1, <1>2, <1>3, <1>4, <2>1 DEF Confirm, At, ReplacementPlace
  <2> QED
    BY <2>2 DEF Confirm, TypeInv, BrowserType
<1>8. CompleteStep(w) => Effect /\ Quietly
  <2>1. CompleteStep(w) => Effect
    BY <1>0, <1>1, <1>2, <1>3, <1>4 DEF CompleteStep, At, ReplacementPlace
  <2> QED
    BY <2>1 DEF CompleteStep, TypeInv, BrowserType
<1>9. Effect /\ Quietly
  BY <1>5, <1>6, <1>7, <1>8 DEF ReplacementStep
<1> QED
  BY <1>9 DEF Effect, TypeInv, AttemptsType, GraphType, HistoryType

ResetStep(w) == \E action \in AdminActions : AdminReset(w, action)

\* What a reset leaves of the round that it ends.
ResetRow(r, row) ==
    /\ row \in Row /\ ~Terminal(r)
    /\ row.state \in {"admin-cancelled", "manager-notified"}
    /\ row.presentationStatus = "none" /\ row.tapStatus = "none"
    /\ row.tapOperationId = None /\ row.tapProtected = 0

Overtakes == \E v \in Worker : Revoking(v) \/ At(v, "confirm")

LEMMA ResetChanges ==
    ASSUME TypeInv, NEW w \in Worker, ResetStep(w)
    PROVE  /\ TypeInv' /\ Others(w)
           /\ ResetRow(request, request')
           /\ At(w, "idle") /\ handler'[w].at \in {"idle", "expire"}
           /\ UNCHANGED <<attempts, graph>>
           /\ history'.methodsAtProof = {} /\ history'.abandoned = FALSE
           /\ history'.overtaken = (history.overtaken \/ Overtakes)
<1> PICK action \in AdminActions : AdminReset(w, action)
  BY DEF ResetStep
<1> DEFINE row == AdminResetRequest(request, action)
           local == IF LapsedOnLoad(row, "request" \in due) THEN Going("expire") ELSE Idle
<1>1. Core /\ request \in Row
  BY DEF TypeInv, Core
<1>2. ResetRow(request, row)
  <2>1. 0 \in 0 .. MaxAttempts /\ 0 \in 0 .. MaxTaps /\ 0 \in Nat /\ None \in Worker \cup {None}
    BY RecoveryBoundsAssumption
  <2>2. CASE action = "cancel"
    <3>1. row = [request EXCEPT !.state = "admin-cancelled", !.managerTokenStatus = "revoked",
                     !.managerAuth = FALSE, !.presentationStatus = "none",
                     !.presentationState = 0, !.presentationRequestId = 0, !.tapStatus = "none",
                     !.tapOperationId = None, !.tapProtected = 0]
      BY <1>1, <2>2 DEF AdminResetRequest, Row
    <3> HIDE DEF row
    <3> QED
      BY <1>1, <2>1, <3>1
         DEF AdminReset, ResetRow, AdminResetAllowed, Row, States, TerminalStates
  <2>3. CASE action # "cancel"
    <3>1. row = [request EXCEPT !.state = "manager-notified", !.managerTokenStatus = "revoked",
                     !.managerAuth = FALSE, !.presentationStatus = "none",
                     !.presentationState = 0, !.presentationRequestId = 0,
                     !.presentationRetryCount = 0, !.verificationFailureCount = 0,
                     !.tapStatus = "none", !.tapOperationId = None, !.tapProtected = 0]
      BY <1>1, <2>3 DEF AdminResetRequest, Row
    <3> HIDE DEF row
    <3> QED
      BY <1>1, <2>1, <3>1
         DEF AdminReset, ResetRow, AdminResetAllowed, Row, States, TerminalStates
  <2> QED
    BY <2>2, <2>3
<1>3. local \in ReadyLocal /\ local.at \in {"idle", "expire"}
  BY GoingType DEF Place, ReadyLocal
<1>4. Write(w, row, local) /\ UNCHANGED <<attempts, graph, browser>> /\ At(w, "idle")
  BY DEF AdminReset
<1>5. row \in Row
  BY <1>2 DEF ResetRow
<1> HIDE DEF row, local
<1>6. Core' /\ Others(w) /\ handler'[w] = local /\ request' = row
  BY <1>1, <1>3, <1>4, <1>5, WriteTurn
<1>7. history' = [approved |-> FALSE, methodsAtProof |-> {}, abandoned |-> FALSE,
                  overtaken |-> history.overtaken \/ Overtakes]
  BY DEF AdminReset, Overtakes
<1>8. history.overtaken \in BOOLEAN
  BY DEF TypeInv, HistoryType
<1>9. HistoryType'
  BY <1>7, <1>8 DEF HistoryType, Overtakes
<1> QED
  BY <1>2, <1>3, <1>4, <1>6, <1>7, <1>9 DEF TypeInv, AttemptsType, GraphType, BrowserType

LEMMA CrashChanges ==
    ASSUME TypeInv, NEW w \in Worker, Crash(w)
    PROVE  /\ TypeInv' /\ Others(w)
           /\ UNCHANGED <<request, attempts, graph>>
           /\ handler'[w] = Idle
           /\ history'.approved = history.approved
           /\ history'.methodsAtProof = history.methodsAtProof
           /\ history'.overtaken = history.overtaken
<1>1. Idle \in ReadyLocal
  BY GoingType DEF Place, ReadyLocal
<1>2. Core' /\ Others(w) /\ UNCHANGED request /\ handler'[w] = Idle
  BY <1>1, StepTurn DEF Crash, TypeInv
<1>3. HistoryType' /\ history'.approved = history.approved
      /\ history'.methodsAtProof = history.methodsAtProof
      /\ history'.overtaken = history.overtaken
  BY DEF Crash, TypeInv, HistoryType
<1> QED
  BY <1>2, <1>3 DEF Crash, TypeInv, AttemptsType, GraphType, BrowserType

LEMMA OutsideChanges ==
    ASSUME TypeInv, Outside
    PROVE  /\ TypeInv' /\ UNCHANGED <<request, handler, browser, history>>
           /\ \A n \in Attempt : attempts[n] \subseteq attempts'[n]
           /\ \/ UNCHANGED graph
              \/ \E key \in Key \ graph.used :
                    graph' = [graph EXCEPT !.methods = @ \cup {key}, !.used = @ \cup {key}]
<1>1. ASSUME NEW n \in Attempt, NEW event \in Event, Wallet(n, event)
      PROVE  /\ AttemptsType' /\ UNCHANGED <<request, handler, due, graph, browser, history>>
             /\ \A m \in Attempt : attempts[m] \subseteq attempts'[m]
  BY <1>1 DEF Wallet, Happens, TypeInv, AttemptsType
<1>2. ASSUME NEW d \in Deadline, DeadlinePasses(d)
      PROVE  due' \subseteq Deadline
             /\ UNCHANGED <<request, handler, attempts, graph, browser, history>>
  BY <1>2 DEF DeadlinePasses, TypeInv, Core
<1>3. ASSUME NEW key \in Key, RegisterPasskey(key)
      PROVE  /\ GraphType' /\ UNCHANGED <<request, handler, due, attempts, browser, history>>
             /\ key \notin graph.used
             /\ graph' = [graph EXCEPT !.methods = @ \cup {key}, !.used = @ \cup {key}]
  BY <1>3 DEF RegisterPasskey, TypeInv, GraphType
<1> USE DEF TypeInv, Core, AttemptsType, GraphType, BrowserType, HistoryType
<1>4. CASE \E n \in Attempt, event \in Event : Wallet(n, event)
  BY <1>1, <1>4
<1>5. CASE \E d \in Deadline : DeadlinePasses(d)
  BY <1>2, <1>5
<1>6. CASE \E key \in Key : RegisterPasskey(key)
  BY <1>3, <1>6
<1> QED
  BY <1>4, <1>5, <1>6 DEF Outside

LEMMA NextCases ==
    ASSUME Next
    PROVE  \/ \E w \in Worker : OfficeStep(w) \/ ExchangeStep(w) \/ OperationStep(w)
                                \/ ReplacementStep(w) \/ ResetStep(w) \/ Crash(w)
           \/ Outside
<1>1. ASSUME NEW w \in Worker, Continue(w)
      PROVE  OfficeStep(w) \/ ExchangeStep(w) \/ OperationStep(w) \/ ReplacementStep(w)
  BY <1>1 DEF Continue, OfficeStep, ExchangeStep, OperationStep, ReplacementStep
<1>2. ASSUME NEW w \in Worker, Arrive(w)
      PROVE  OfficeStep(w) \/ ExchangeStep(w) \/ ReplacementStep(w) \/ ResetStep(w)
  BY <1>2 DEF Arrive, OfficeStep, ExchangeStep, ReplacementStep, ResetStep
<1> QED
  BY <1>1, <1>2 DEF Next

LEMMA InitTypes == Init => TypeInv
<1> SUFFICES ASSUME Init PROVE TypeInv
  OBVIOUS
<1>1. request \in Row
  BY RecoveryBoundsAssumption DEF Init, RequestedRow, Row, States, TerminalStates, Approved
<1>2. handler \in [Worker -> ReadyLocal]
  <2>1. Going("notify") \in ReadyLocal /\ Idle \in ReadyLocal
    BY GoingType DEF Place, ReadyLocal
  <2> QED
    BY <2>1 DEF Init
<1>3. GraphType
  BY RecoveryBoundsAssumption DEF Init, GraphType
<1> QED
  BY <1>1, <1>2, <1>3 DEF Init, TypeInv, Core, AttemptsType, BrowserType, HistoryType

LEMMA NextTypes == TypeInv /\ [Next]_vars => TypeInv'
<1> SUFFICES ASSUME TypeInv, [Next]_vars PROVE TypeInv'
  OBVIOUS
<1>1. CASE Next
  BY <1>1, NextCases, OfficeChanges, ExchangeChanges, OperationChanges, ReplacementChanges,
     ResetChanges, CrashChanges, OutsideChanges
<1>2. CASE UNCHANGED vars
  BY <1>2 DEF vars, TypeInv, Core, AttemptsType, GraphType, BrowserType, HistoryType
<1> QED
  BY <1>1, <1>2

LEMMA TypesAlways == Spec => []TypeInv
  BY InitTypes, NextTypes, PTL DEF Spec

\* Type correctness of the recovery portal: whatever handlers, callbacks and resets
\* overlap, the row, the handlers and the history stay within their types.
THEOREM TypeCorrect == Spec => []TypeOK
<1>1. TypeInv => TypeOK
  BY DEF TypeInv, Core, AttemptsType, GraphType, BrowserType, HistoryType, TypeOK, ReadyLocal
<1> QED
  BY <1>1, TypesAlways, PTL

-----------------------------------------------------------------------------
(* The approval *)

\* No late report and no old handler brings a request past an approval that a reset
\* has taken away: what leads on starts in a state that follows the approval, and a
\* reset leaves all of them.
THEOREM ApprovalIsCurrent == Spec => []ApprovedSinceReset
<1>1. Init => ApprovedSinceReset
  BY DEF Init, RequestedRow, ApprovedSinceReset, Approved
<1>2. TypeInv /\ ApprovedSinceReset /\ [Next]_vars => ApprovedSinceReset'
  <2> SUFFICES ASSUME TypeInv, ApprovedSinceReset, [Next]_vars PROVE ApprovedSinceReset'
    OBVIOUS
  <2> USE DEF ApprovedSinceReset
  <2>1. ASSUME NEW w \in Worker, OfficeStep(w) PROVE ApprovedSinceReset'
    BY <2>1, OfficeChanges
  <2>2. ASSUME NEW w \in Worker, ExchangeStep(w) PROVE ApprovedSinceReset'
    <3>1. ExchangeRow(request, request')
      BY <2>2, ExchangeChanges
    <3>2. request'.state \in Approved => request.state \in Approved
      BY <3>1 DEF ExchangeRow, Presenting, Approved
    <3>3. history'.approved = history.approved
      BY <2>2, ExchangeChanges DEF ApplySuccess, TypeInv, HistoryType
    <3> QED
      BY <3>2, <3>3
  <2>3. ASSUME NEW w \in Worker, OperationStep(w) PROVE ApprovedSinceReset'
    <3>1. OperationRow(request, request') /\ history'.approved = history.approved
      BY <2>3, OperationChanges
    <3>2. request'.state \in Approved => request.state \in Approved
      BY <3>1 DEF OperationRow, Approved
    <3> QED
      BY <3>1, <3>2
  <2>4. ASSUME NEW w \in Worker, ReplacementStep(w) PROVE ApprovedSinceReset'
    <3>1. ReplacementRow(request, request') /\ UNCHANGED history
      BY <2>4, ReplacementChanges
    <3>2. request'.state \in Approved => request.state \in Approved
      BY <3>1 DEF ReplacementRow, Approved
    <3> QED
      BY <3>1, <3>2
  <2>5. ASSUME NEW w \in Worker, ResetStep(w) PROVE ApprovedSinceReset'
    BY <2>5, ResetChanges DEF ResetRow, Approved
  <2>6. ASSUME NEW w \in Worker, Crash(w) PROVE ApprovedSinceReset'
    BY <2>6, CrashChanges
  <2>7. CASE Outside
    BY <2>7, OutsideChanges
  <2>8. CASE UNCHANGED vars
    BY <2>8 DEF vars
  <2> QED
    BY <2>1, <2>2, <2>3, <2>4, <2>5, <2>6, <2>7, <2>8, NextCases
<1> QED
  BY <1>1, <1>2, TypesAlways, PTL DEF Spec

-----------------------------------------------------------------------------
(* Where a request may go *)

\* How the state and the failed operation of the row may change in one step.
LEMMA RowChanges ==
    ASSUME TypeInv, [Next]_vars
    PROVE  \/ UNCHANGED request
           \/ OfficeRow(request, request') \/ ExchangeRow(request, request')
           \/ OperationRow(request, request') \/ ReplacementRow(request, request')
           \/ ResetRow(request, request')
<1>1. CASE Next
  BY <1>1, NextCases, OfficeChanges, ExchangeChanges, OperationChanges, ReplacementChanges,
     ResetChanges, CrashChanges, OutsideChanges
<1>2. CASE UNCHANGED vars
  BY <1>2 DEF vars
<1> QED
  BY <1>1, <1>2

\* A terminal request never gets another state than expired, whatever handlers are
\* still under way: only the expiry update writes without a look at the state.
THEOREM TerminalIsFinal == Spec => TerminalStaysTerminal
<1>1. TypeInv /\ [Next]_vars
        => (Terminal(request) => request'.state \in {request.state, "expired"})
  <2> SUFFICES ASSUME TypeInv, [Next]_vars, Terminal(request)
               PROVE  request'.state \in {request.state, "expired"}
    OBVIOUS
  <2> QED
    BY RowChanges DEF OfficeRow, ExchangeRow, Presenting, OperationRow, ReplacementRow, ResetRow,
       Terminal, TerminalStates
<1>2. TypeInv /\ [Next]_vars
        => [Terminal(request) => request'.state \in {request.state, "expired"}]_vars
  BY <1>1
<1> QED
  BY <1>2, TypesAlways, PTL DEF Spec, TerminalStaysTerminal

\* A failed operation is not tried again: the row stays as it is until it expires or
\* an administrator resets it, and with that a new approval and proof are needed.
THEOREM FailureIsFinal == Spec => FailureNeedsNewRound
<1> DEFINE Failed == request.state = "passkeys-revoked" /\ request.tapStatus = "error"
           Leads == \/ request' = request
                    \/ request'.state \in {"expired", "manager-notified", "admin-cancelled"}
<1>1. TypeInv /\ [Next]_vars => (Failed => Leads)
  <2> SUFFICES ASSUME TypeInv, [Next]_vars, Failed PROVE Leads
    OBVIOUS
  <2> QED
    BY RowChanges DEF OfficeRow, ExchangeRow, Presenting, OperationRow, ReplacementRow, ResetRow
<1>2. TypeInv /\ [Next]_vars => [Failed => Leads]_vars
  BY <1>1
<1> QED
  BY <1>2, TypesAlways, PTL DEF Spec, FailureNeedsNewRound

-----------------------------------------------------------------------------
(* The proof of identity *)

VerifiedStates ==
    {"verified", "passkeys-revoked", "tap-issued", "passkey-registered", "complete"}

Succeeded == \E n \in Attempt : "success" \in attempts[n]

\* A code that is shown exists at the service, and a verified request has been
\* presented and waits for no presentation any more.
RowEvidence ==
    /\ request.presentationStatus = "active" =>
          /\ request.presentationState = request.presentationRequestId
          /\ request.presentationState \in Attempt
          /\ "created" \in attempts[request.presentationState]
    /\ request.state \in VerifiedStates => request.presentationStatus = "verified" /\ Succeeded

\* What a handler knows about the presentation that it works for.
HandlerEvidence(local) ==
    /\ local.at \in {"create", "attach"} => local.n \in Attempt
    /\ local.at = "attach" => "created" \in attempts[local.n]
    /\ local.at = "callback" /\ local.status = "success" => Succeeded

EvidenceInv == RowEvidence /\ \A w \in Worker : HandlerEvidence(handler[w])

\* The service forgets nothing.
AttemptsGrow == \A n \in Attempt : attempts[n] \subseteq attempts'[n]

LEMMA AttemptsGrowing ==
    ASSUME TypeInv, NEW w \in Worker, ExchangeStep(w)
    PROVE  AttemptsGrow
<1>1. UNCHANGED attempts => AttemptsGrow
  BY DEF AttemptsGrow
<1>2. ASSUME NEW n, NEW event, Happens(n, event) PROVE AttemptsGrow
  BY <1>2 DEF Happens, AttemptsGrow, TypeInv, AttemptsType
<1>3. Begin(w) => AttemptsGrow
  BY <1>1, <1>2 DEF Begin
<1>4. Create(w) => AttemptsGrow
  BY <1>1, <1>2 DEF Create
<1>5. OpenPresentation(w) \/ Attach(w) \/ Fail(w) \/ ApplyReport(w) \/ ApplySuccess(w)
        => AttemptsGrow
  BY <1>1 DEF OpenPresentation, OpenRoute, Attach, Fail, ApplyReport, ApplySuccess
<1>6. (\E n \in Attempt, event \in Event : CallbackArrives(w, n, event)) => AttemptsGrow
  BY <1>1 DEF CallbackArrives
<1> QED
  BY <1>3, <1>4, <1>5, <1>6 DEF ExchangeStep

\* A step that adds nothing to be explained keeps the evidence.
LEMMA EvidenceKept ==
    ASSUME EvidenceInv, AttemptsGrow, NEW w \in Worker, Others(w),
           RowEvidence', HandlerEvidence(handler[w])'
    PROVE  EvidenceInv'
<1>1. Succeeded => Succeeded'
  BY DEF Succeeded, AttemptsGrow
<1>2. ASSUME NEW v \in Worker \ {w} PROVE HandlerEvidence(handler[v])'
  <2>1. HandlerEvidence(handler[v]) /\ handler'[v] = handler[v]
    BY <1>2 DEF EvidenceInv, Others
  <2> QED
    BY <1>1, <2>1 DEF HandlerEvidence, AttemptsGrow
<1> QED
  BY <1>2 DEF EvidenceInv

\* The row keeps its evidence if it keeps its presentation.
LEMMA RowEvidenceKept ==
    ASSUME RowEvidence, AttemptsGrow, SamePresentation(request, request'),
           request'.state \in VerifiedStates => request.state \in VerifiedStates
    PROVE  RowEvidence'
<1>1. Succeeded => Succeeded'
  BY DEF Succeeded, AttemptsGrow
<1> QED
  BY <1>1 DEF RowEvidence, AttemptsGrow, SamePresentation

LEMMA ExchangeEvidence ==
    ASSUME TypeInv, EvidenceInv, NEW w \in Worker, ExchangeStep(w)
    PROVE  EvidenceInv'
<1>1. /\ AttemptsGrow /\ Others(w) /\ TypeInv' /\ ExchangeRow(request, request')
      /\ handler[w] \in Local /\ RowEvidence /\ HandlerEvidence(handler[w])
      /\ handler \in [Worker -> ReadyLocal] /\ request \in Row
  BY AttemptsGrowing, ExchangeChanges DEF TypeInv, Core, ReadyLocal, EvidenceInv
<1>2. ASSUME NEW local, Step(w, local)
      PROVE  RowEvidence' /\ handler'[w] = local
  BY <1>1, <1>2, RowEvidenceKept DEF Step, SamePresentation
<1>3. ASSUME NEW row, NEW local, Write(w, row, local) \/ WriteAnew(w, row, local)
      PROVE  request' = row /\ handler'[w] = local
  BY <1>1, <1>3 DEF Write, WriteAnew, Replace
<1>4. \A place \in {"begin", "fail", "claim", "idle"} :
          /\ Going(place).at = place
          /\ \A local \in Local : [local EXCEPT !.at = place].at = place
  BY GoingType DEF Place, Local
<1>5. Idle.at = "idle"
  BY DEF Idle
<1>6. OpenPresentation(w) => EvidenceInv'
  BY <1>1, <1>2, <1>4, EvidenceKept DEF OpenPresentation, OpenRoute, HandlerEvidence
<1>7. ASSUME Begin(w) PROVE EvidenceInv'
  <2>1. CASE Step(w, Idle)
    BY <1>1, <1>2, <1>5, <2>1, EvidenceKept DEF HandlerEvidence
  <2>2. ASSUME NEW n \in Attempt,
               WriteAnew(w, BeginPresentation(request, n), [Going("create") EXCEPT !.n = n])
        PROVE  EvidenceInv'
    <3>1. request' = BeginPresentation(request, n) /\ handler'[w] = [Going("create") EXCEPT !.n = n]
      BY <1>3, <2>2
    <3>2. handler'[w].at = "create" /\ handler'[w].n = n
      BY <3>1, GoingType DEF Place, Local
    <3>3. RowEvidence'
      BY <1>1, <3>1 DEF BeginPresentation, RowEvidence, Row, VerifiedStates
    <3> QED
      BY <1>1, <3>2, <3>3, EvidenceKept DEF HandlerEvidence
  <2> QED
    BY <1>7, <2>1, <2>2 DEF Begin
<1>8. ASSUME Create(w) PROVE EvidenceInv'
  <2>1. handler[w].n \in Attempt
    BY <1>1, <1>8 DEF Create, At, HandlerEvidence
  <2>2. CASE Step(w, [handler[w] EXCEPT !.at = "attach"]) /\ Happens(handler[w].n, "created")
    <3>1. RowEvidence' /\ handler'[w] = [handler[w] EXCEPT !.at = "attach"]
      BY <1>2, <2>2
    <3>2. handler'[w].at = "attach" /\ handler'[w].n = handler[w].n
      BY <1>1, <3>1 DEF Local
    <3>3. "created" \in attempts'[handler[w].n]
      BY <2>1, <2>2 DEF Happens, TypeInv, AttemptsType
    <3> QED
      BY <1>1, <2>1, <3>1, <3>2, <3>3, EvidenceKept DEF HandlerEvidence
  <2>3. CASE Step(w, [handler[w] EXCEPT !.at = "fail"])
    BY <1>1, <1>2, <1>4, <2>3, EvidenceKept DEF HandlerEvidence
  <2> QED
    BY <1>8, <2>2, <2>3 DEF Create
<1>9. ASSUME Attach(w) PROVE EvidenceInv'
  <2> DEFINE n == handler[w].n
  <2>1. n \in Attempt /\ "created" \in attempts[n]
    BY <1>1, <1>9 DEF Attach, At, HandlerEvidence
  <2>2. CASE /\ AttachPresentationAllowed(request, n)
             /\ request' = AttachPresentation(request, n)
             /\ handler'[w] \in {Idle, [handler[w] EXCEPT !.at = "fail"]}
    <3>1. RowEvidence'
      BY <1>1, <2>1, <2>2
         DEF AttachPresentationAllowed, AttachPresentation, RowEvidence, Row, VerifiedStates,
             AttemptsGrow
    <3> QED
      BY <1>1, <1>4, <1>5, <2>2, <3>1, EvidenceKept DEF HandlerEvidence
  <2>3. CASE Step(w, [handler[w] EXCEPT !.at = "fail"])
    BY <1>1, <1>2, <1>4, <2>3, EvidenceKept DEF HandlerEvidence
  <2> QED
    BY <1>3, <1>9, <2>2, <2>3 DEF Attach
<1>10. ASSUME Fail(w) PROVE EvidenceInv'
  <2>1. CASE /\ FailPresentationAllowed(request, handler[w].n)
             /\ Write(w, FailPresentation(request), Idle)
    <3>1. request' = FailPresentation(request) /\ handler'[w] = Idle
      BY <1>3, <2>1
    <3>2. RowEvidence'
      BY <1>1, <2>1, <3>1
         DEF FailPresentationAllowed, FailPresentation, RowEvidence, Row, VerifiedStates
    <3> QED
      BY <1>1, <1>5, <3>1, <3>2, EvidenceKept DEF HandlerEvidence
  <2>2. CASE Step(w, Idle)
    BY <1>1, <1>2, <1>5, <2>2, EvidenceKept DEF HandlerEvidence
  <2> QED
    BY <1>10, <2>1, <2>2 DEF Fail
<1>11. ASSUME NEW n \in Attempt, NEW event \in Event, CallbackArrives(w, n, event)
       PROVE  EvidenceInv'
  <2> DEFINE next == AfterLookup(request.state, event)
  <2>1. Step(w, [Going(next) EXCEPT !.status = event]) /\ event \in attempts[n]
        /\ event \in {"retrieved", "error", "success", "bad"}
    BY <1>11 DEF CallbackArrives, Event
  <2>2. next \in {"callback", "claim", "idle"}
    BY <2>1 DEF AfterLookup
  <2> HIDE DEF next
  <2>3. RowEvidence' /\ handler'[w] = [Going(next) EXCEPT !.status = event]
    BY <1>2, <2>1
  <2>4. handler'[w].at = next /\ handler'[w].status = event
    BY <2>2, <2>3, GoingType DEF Place, Local
  <2>5. event = "success" => Succeeded'
    BY <1>1, <2>1 DEF Succeeded, AttemptsGrow
  <2> QED
    BY <1>1, <2>2, <2>3, <2>4, <2>5, EvidenceKept DEF HandlerEvidence
<1>12. ASSUME ApplyReport(w) PROVE EvidenceInv'
  <2> DEFINE event == handler[w].status
  <2>1. event \in {"retrieved", "error", "bad"}
    BY <1>12 DEF ApplyReport, At, TypeInv, Core, ReadyLocal
  <2>2. CASE ReportAllowed(event)
    <3>1. request' = ReportRow(event) /\ handler'[w] = Idle
      BY <1>3, <1>12, <2>2 DEF ApplyReport
    <3>2. CASE event = "retrieved"
      <4>1. RowEvidence'
        BY <1>1, <2>2, <3>1, <3>2
           DEF ReportAllowed, ReportRow, HandlePresentationRetrieved, RowEvidence, Row,
               VerifiedStates
      <4> QED
        BY <1>1, <1>5, <3>1, <4>1, EvidenceKept DEF HandlerEvidence
    <3>3. CASE event = "error"
      <4>1. RowEvidence'
        BY <1>1, <2>2, <3>1, <3>3
           DEF ReportAllowed, ReportRow, HandlePresentationError, RowEvidence, Row,
               VerifiedStates
      <4> QED
        BY <1>1, <1>5, <3>1, <4>1, EvidenceKept DEF HandlerEvidence
    <3>4. CASE event = "bad"
      <4>1. request' = RecordVerificationFailure(request)
        BY <3>1, <3>4 DEF ReportRow
      <4>2. SamePresentation(request, request') /\ request'.state \notin VerifiedStates
        BY <1>1, <4>1 DEF RecordVerificationFailure, SamePresentation, Row, VerifiedStates
      <4>3. RowEvidence'
        BY <1>1, <4>2, RowEvidenceKept
      <4> QED
        BY <1>1, <1>5, <3>1, <4>3, EvidenceKept DEF HandlerEvidence
    <3> QED
      BY <2>1, <3>2, <3>3, <3>4
  <2>3. CASE ~ReportAllowed(event)
    BY <1>1, <1>2, <1>5, <1>12, <2>3, EvidenceKept DEF ApplyReport, HandlerEvidence
  <2> QED
    BY <2>2, <2>3
<1>13. ASSUME ApplySuccess(w) PROVE EvidenceInv'
  <2>1. CASE MarkVerifiedAllowed(request)
    <3>1. request' = MarkVerified(request) /\ handler'[w] = Going("claim") /\ UNCHANGED attempts
      BY <1>3, <1>13, <2>1 DEF ApplySuccess
    <3>2. Succeeded
      BY <1>1, <1>13 DEF ApplySuccess, At, HandlerEvidence
    <3>3. RowEvidence'
      BY <1>1, <3>1, <3>2 DEF MarkVerified, RowEvidence, Row, Succeeded
    <3> QED
      BY <1>1, <1>4, <3>1, <3>3, EvidenceKept DEF HandlerEvidence
  <2>2. CASE ~MarkVerifiedAllowed(request)
    BY <1>1, <1>2, <1>5, <1>13, <2>2, EvidenceKept DEF ApplySuccess, HandlerEvidence
  <2> QED
    BY <2>1, <2>2
<1> QED
  BY <1>6, <1>7, <1>8, <1>9, <1>10, <1>11, <1>12, <1>13 DEF ExchangeStep

LEMMA EvidenceAlways == Spec => []EvidenceInv
<1>1. Init => EvidenceInv
  <2>1. Init => \A w \in Worker : handler[w].at \in {"notify", "idle"}
    BY GoingType DEF Init, Idle, Place
  <2>2. Init => request.presentationStatus = "none" /\ request.state = "requested"
    BY DEF Init, RequestedRow
  <2> QED
    BY <2>1, <2>2 DEF EvidenceInv, RowEvidence, HandlerEvidence, VerifiedStates
<1>2. TypeInv /\ EvidenceInv /\ [Next]_vars => EvidenceInv'
  <2> SUFFICES ASSUME TypeInv, EvidenceInv, [Next]_vars PROVE EvidenceInv'
    OBVIOUS
  <2>0. RowEvidence /\ (UNCHANGED attempts => AttemptsGrow)
    BY DEF EvidenceInv, AttemptsGrow
  <2>1. ASSUME NEW w \in Worker, OfficeStep(w) PROVE EvidenceInv'
    <3>1. /\ Others(w) /\ OfficeRow(request, request') /\ UNCHANGED attempts
          /\ handler'[w].at \in OfficePlace
      BY <2>1, OfficeChanges
    <3>2. RowEvidence'
      BY <2>0, <3>1, RowEvidenceKept DEF OfficeRow, VerifiedStates
    <3> QED
      BY <2>0, <3>1, <3>2, EvidenceKept DEF HandlerEvidence, OfficePlace
  <2>2. ASSUME NEW w \in Worker, ExchangeStep(w) PROVE EvidenceInv'
    BY <2>2, ExchangeEvidence
  <2>3. ASSUME NEW w \in Worker, OperationStep(w) PROVE EvidenceInv'
    <3>1. /\ Others(w) /\ OperationRow(request, request') /\ UNCHANGED attempts
          /\ handler'[w].at \in RevocationPlace \cup {"idle"}
      BY <2>3, OperationChanges
    <3>2. RowEvidence'
      BY <2>0, <3>1, RowEvidenceKept DEF OperationRow, VerifiedStates
    <3> QED
      BY <2>0, <3>1, <3>2, EvidenceKept DEF HandlerEvidence, RevocationPlace
  <2>4. ASSUME NEW w \in Worker, ReplacementStep(w) PROVE EvidenceInv'
    <3>1. /\ Others(w) /\ ReplacementRow(request, request') /\ UNCHANGED attempts
          /\ handler'[w].at \in ReplacementPlace
      BY <2>4, ReplacementChanges
    <3>2. RowEvidence'
      BY <2>0, <3>1 DEF ReplacementRow, TakeTapForDisplay, Complete, RowEvidence, VerifiedStates,
                        Succeeded, TypeInv, Core, Row
    <3> QED
      BY <2>0, <3>1, <3>2, EvidenceKept DEF HandlerEvidence, ReplacementPlace
  <2>5. ASSUME NEW w \in Worker, ResetStep(w) PROVE EvidenceInv'
    <3>1. /\ Others(w) /\ ResetRow(request, request') /\ UNCHANGED attempts
          /\ handler'[w].at \in {"idle", "expire"}
      BY <2>5, ResetChanges
    <3>2. RowEvidence'
      BY <3>1 DEF ResetRow, RowEvidence, VerifiedStates
    <3> QED
      BY <2>0, <3>1, <3>2, EvidenceKept DEF HandlerEvidence
  <2>6. ASSUME NEW w \in Worker, Crash(w) PROVE EvidenceInv'
    <3>1. Others(w) /\ UNCHANGED <<request, attempts>> /\ handler'[w].at = "idle"
      BY <2>6, CrashChanges DEF Idle
    <3>2. RowEvidence'
      BY <2>0, <3>1 DEF RowEvidence, Succeeded
    <3> QED
      BY <2>0, <3>1, <3>2, EvidenceKept DEF HandlerEvidence
  <2>7. CASE Outside
    <3>1. UNCHANGED <<request, handler>> /\ AttemptsGrow
      BY <2>7, OutsideChanges DEF AttemptsGrow
    <3>2. Succeeded => Succeeded'
      BY <3>1 DEF Succeeded, AttemptsGrow
    <3> QED
      BY <3>1, <3>2 DEF EvidenceInv, RowEvidence, HandlerEvidence, AttemptsGrow
  <2>8. CASE UNCHANGED vars
    BY <2>8 DEF vars, EvidenceInv, RowEvidence, HandlerEvidence, Succeeded
  <2> QED
    BY <2>1, <2>2, <2>3, <2>4, <2>5, <2>6, <2>7, <2>8, NextCases
<1> QED
  BY <1>1, <1>2, TypesAlways, PTL DEF Spec

\* Errors, rejected credentials and repeated or late callbacks never add up to a proof
\* of identity: a verified request has had a presentation that succeeded.
THEOREM PresentationSucceeded == Spec => []VerifiedMeansPresented
<1>1. EvidenceInv => VerifiedMeansPresented
  BY DEF EvidenceInv, RowEvidence, VerifiedMeansPresented, VerifiedStates, Succeeded
<1> QED
  BY <1>1, EvidenceAlways, PTL

\* While a code is shown, the callback state and the request id that the row stores
\* belong to one presentation, which the service has: a handler whose presentation was
\* replaced attaches nothing.
THEOREM ShownPresentationIsWhole == Spec => []ActiveExchangeIsWhole
<1>1. EvidenceInv => ActiveExchangeIsWhole
  BY DEF EvidenceInv, RowEvidence, ActiveExchangeIsWhole
<1> QED
  BY <1>1, EvidenceAlways, PTL

-----------------------------------------------------------------------------
(* The operation has a handler *)

\* A step of a handler that works on no operation leaves those that do at work.
LEMMA AliveKept ==
    ASSUME OperationIsAlive, NEW w \in Worker, Others(w), ~Revoking(w),
           history'.abandoned = history.abandoned,
           request'.state = "passkeys-revoked" => request' = request
    PROVE  OperationIsAlive'
  BY DEF OperationIsAlive, Others, Revoking

\* An operation that is lost by an error is marked so.
LEMMA Abandoned == ASSUME TypeInv, Abandon(TRUE) PROVE OperationIsAlive'
  BY DEF TypeInv, HistoryType, Abandon, OperationIsAlive

LEMMA OperationAlive ==
    ASSUME TypeInv, OperationIsAlive, NEW w \in Worker, OperationStep(w)
    PROVE  OperationIsAlive'
<1>1. /\ Others(w) /\ request \in Row /\ handler \in [Worker -> ReadyLocal]
      /\ handler[w] \in Local
  BY OperationChanges DEF TypeInv, Core, ReadyLocal
<1>2. ASSUME UNCHANGED <<request, history>>, handler'[w].at \in RevocationPlace
      PROVE  OperationIsAlive'
  BY <1>1, <1>2 DEF OperationIsAlive, Others, Revoking
<1>3. \A place \in RevocationPlace : Going(place).at = place
  BY GoingType DEF RevocationPlace, Place
<1>4. Idle.at = "idle"
  BY DEF Idle
<1> USE DEF RevocationPlace
<1>5. ASSUME GoFail(w), UNCHANGED history PROVE OperationIsAlive'
  BY <1>1, <1>2, <1>3, <1>5 DEF GoFail, Step
<1>6. ASSUME Claim(w) PROVE OperationIsAlive'
  <2>1. CASE Write(w, ClaimRevocation(request, w), Going("check"))
    <3>1. request' = ClaimRevocation(request, w) /\ handler'[w] = Going("check")
      BY <1>1, <2>1 DEF Write, Replace
    <3>2. request'.tapOperationId = w
      BY <1>1, <3>1 DEF ClaimRevocation, Row
    <3> QED
      BY <1>3, <3>1, <3>2 DEF OperationIsAlive, Revoking
  <2>2. CASE Step(w, Idle) /\ UNCHANGED history
    BY <1>1, <1>6, <2>2, AliveKept DEF Claim, Step, At, Revoking
  <2>3. CASE Abandon(TRUE)
    BY <2>3, Abandoned
  <2> QED
    BY <1>6, <2>1, <2>2, <2>3 DEF Claim
<1>7. ASSUME CheckAndList(w) PROVE OperationIsAlive'
  <2>1. CASE GoFail(w)
    BY <1>5, <1>7, <2>1 DEF CheckAndList
  <2>2. CASE Step(w, [Going("revoke") EXCEPT !.methods = graph.methods, !.left = graph.methods])
    <3>1. handler'[w].at = "revoke" /\ UNCHANGED request
      BY <1>1, <1>3, <2>2, GoingType DEF Step, Place, Local
    <3> QED
      BY <1>2, <1>7, <3>1 DEF CheckAndList
  <2> QED
    BY <1>7, <2>1, <2>2 DEF CheckAndList
<1>8. ASSUME Revoke(w) PROVE OperationIsAlive'
  <2>1. CASE GoFail(w)
    BY <1>5, <1>8, <2>1 DEF Revoke
  <2>2. ASSUME NEW key, Step(w, [handler[w] EXCEPT !.left = @ \ {key}])
        PROVE  OperationIsAlive'
    <3>1. handler'[w].at = "revoke" /\ UNCHANGED request
      BY <1>1, <1>8, <2>2 DEF Step, Revoke, At, Local
    <3> QED
      BY <1>2, <1>8, <3>1 DEF Revoke
  <2> QED
    BY <1>8, <2>1, <2>2 DEF Revoke
<1>9. ASSUME CreateTap(w) PROVE OperationIsAlive'
  <2>1. CASE GoFail(w)
    BY <1>5, <1>9, <2>1 DEF CreateTap
  <2>2. CASE Step(w, [handler[w] EXCEPT !.at = "record-tap", !.tap = graph.taps + 1])
    <3>1. handler'[w].at = "record-tap" /\ UNCHANGED request
      BY <1>1, <2>2 DEF Step, Local
    <3> QED
      BY <1>2, <1>9, <3>1 DEF CreateTap
  <2> QED
    BY <1>9, <2>1, <2>2 DEF CreateTap
<1>10. ASSUME RecordTapStep(w) PROVE OperationIsAlive'
  <2>1. CASE Write(w, RecordTap(request, handler[w].tap, handler[w].methods), Idle)
    <3>1. request' = RecordTap(request, handler[w].tap, handler[w].methods)
      BY <2>1 DEF Write, Replace
    <3> QED
      BY <1>1, <3>1 DEF RecordTap, Row, OperationIsAlive
  <2>2. CASE GoFail(w)
    BY <1>5, <1>10, <2>2 DEF RecordTapStep
  <2> QED
    BY <1>10, <2>1, <2>2 DEF RecordTapStep
<1>11. ASSUME FailTapStep(w) PROVE OperationIsAlive'
  <2>1. CASE Write(w, FailTap(request), Idle)
    <3>1. request' = FailTap(request)
      BY <2>1 DEF Write, Replace
    <3> QED
      BY <1>1, <3>1 DEF FailTap, Row, OperationIsAlive
  <2>2. CASE Abandon(TRUE)
    BY <2>2, Abandoned
  <2>3. CASE ~FailTapAllowed(request, w)
    <3>1. UNCHANGED <<request, history>>
      BY <1>11, <2>3 DEF FailTapStep, Step
    <3> QED
      BY <1>1, <2>3, <3>1 DEF FailTapAllowed, OperationIsAlive, Others, Revoking
  <2> QED
    BY <1>11, <2>1, <2>2, <2>3 DEF FailTapStep
<1> QED
  BY <1>6, <1>7, <1>8, <1>9, <1>10, <1>11 DEF OperationStep

\* An operation that the row says is under way has a handler at work on it, or it was
\* lost for one of three reasons: the handler crashed, the claim was stored although its
\* update threw, or the record of the failure threw, which the handler swallows.  Any
\* other error, of Graph or of the table, leaves a handler that goes on to record it.
THEOREM OperationHasHandler == Spec => []OperationIsAlive
<1>1. Init => OperationIsAlive
  BY DEF Init, RequestedRow, OperationIsAlive
<1>2. TypeInv /\ OperationIsAlive /\ [Next]_vars => OperationIsAlive'
  <2> SUFFICES ASSUME TypeInv, OperationIsAlive, [Next]_vars PROVE OperationIsAlive'
    OBVIOUS
  <2>1. ASSUME NEW w \in Worker, OfficeStep(w) PROVE OperationIsAlive'
    <3>1. request'.state = "passkeys-revoked" => request' = request
      BY <2>1, OfficeChanges DEF OfficeRow
    <3> QED
      BY <2>1, <3>1, OfficeChanges, AliveKept DEF Revoking, OfficePlace, RevocationPlace
  <2>2. ASSUME NEW w \in Worker, ExchangeStep(w) PROVE OperationIsAlive'
    <3>1. request'.state = "passkeys-revoked" => request' = request
      BY <2>2, ExchangeChanges DEF ExchangeRow, Presenting
    <3>2. history'.abandoned = history.abandoned
      BY <2>2, ExchangeChanges DEF ApplySuccess, TypeInv, HistoryType
    <3> QED
      BY <2>2, <3>1, <3>2, ExchangeChanges, AliveKept DEF Revoking, ExchangePlace, RevocationPlace
  <2>3. ASSUME NEW w \in Worker, OperationStep(w) PROVE OperationIsAlive'
    BY <2>3, OperationAlive
  <2>4. ASSUME NEW w \in Worker, ReplacementStep(w) PROVE OperationIsAlive'
    <3>1. request'.state = "passkeys-revoked" => request' = request
      BY <2>4, ReplacementChanges
         DEF ReplacementRow, TakeTapForDisplay, Complete, TypeInv, Core, Row
    <3> QED
      BY <2>4, <3>1, ReplacementChanges, AliveKept
         DEF Revoking, ReplacementPlace, RevocationPlace
  <2>5. ASSUME NEW w \in Worker, ResetStep(w) PROVE OperationIsAlive'
    BY <2>5, ResetChanges DEF ResetRow, OperationIsAlive
  <2>6. ASSUME NEW w \in Worker, Crash(w) PROVE OperationIsAlive'
    <3>1. Others(w) /\ UNCHANGED request
      BY <2>6, CrashChanges
    <3>2. CASE Revoking(w) /\ request.tapOperationId = w
      <4>1. history'.abandoned
        BY <2>6, <3>2 DEF Crash, TypeInv, HistoryType
      <4> QED
        BY <4>1 DEF OperationIsAlive
    <3>3. CASE ~(Revoking(w) /\ request.tapOperationId = w)
      <4>1. history.abandoned => history'.abandoned
        BY <2>6 DEF Crash, TypeInv, HistoryType
      <4> QED
        BY <3>1, <3>3, <4>1 DEF OperationIsAlive, Others, Revoking
    <3> QED
      BY <3>2, <3>3
  <2>7. CASE Outside
    BY <2>7, OutsideChanges DEF OperationIsAlive, Revoking
  <2>8. CASE UNCHANGED vars
    BY <2>8 DEF vars, OperationIsAlive, Revoking
  <2> QED
    BY <2>1, <2>2, <2>3, <2>4, <2>5, <2>6, <2>7, <2>8, NextCases
<1> QED
  BY <1>1, <1>2, TypesAlways, PTL DEF Spec

-----------------------------------------------------------------------------
(* The turns of a round                                                     *)
(*                                                                          *)
(* What each step does to the passkeys, to the operation and to what the    *)
(* handlers that delete or confirm know, whatever else it does.             *)

SameRound == /\ history'.methodsAtProof = history.methodsAtProof
             /\ history'.overtaken = history.overtaken

Ended == TerminalStates \ {"complete"}

Early == {"requested", "manager-notified", "manager-approved", "credential-presented", "verified"}

Replaced == {"passkey-registered", "complete"}

QuietRow(r, row) ==
    /\ r.state = "passkeys-revoked" => row = r \/ row.state \in Ended
    /\ r.state \in Ended => row.state \in Ended
    /\ row.state \in {"verified", "passkeys-revoked"} => row = r
    /\ row.state \in Early => r.state \in Early
    /\ row.state = "tap-issued" =>
          /\ r.state = "tap-issued" /\ row.passkeyBaseline = r.passkeyBaseline
          /\ row.tapProtected \in {0, r.tapProtected}
    /\ row.state \in Replaced =>
          r.state \in Replaced /\ row.passkeyMethodId = r.passkeyMethodId

Quiet(w) ==
    /\ Others(w) /\ ~Revoking(w)
    /\ handler'[w].at \notin RevocationPlace \cup {"confirm"}
    /\ QuietRow(request, request') /\ UNCHANGED graph /\ SameRound

\* MarkVerified
Proves(w) ==
    /\ Others(w) /\ ~Revoking(w) /\ handler'[w].at = "claim"
    /\ request.state = "credential-presented" /\ request'.state = "verified"
    /\ UNCHANGED graph
    /\ history'.methodsAtProof = graph.methods /\ history'.overtaken = history.overtaken

\* The claim, after which a handler whose update threw is gone.
Claims(w) ==
    /\ Others(w) /\ ~Revoking(w) /\ handler'[w].at \in {"check", "idle"}
    /\ request.state = "verified" /\ request' = ClaimRevocation(request, w)
    /\ UNCHANGED graph /\ SameRound

Lists(w) ==
    /\ Others(w) /\ At(w, "check") /\ handler'[w].at = "revoke"
    /\ handler'[w].methods = graph.methods /\ handler'[w].left = graph.methods
    /\ UNCHANGED <<request, graph>> /\ SameRound

Deletes(w, key) ==
    /\ Others(w) /\ At(w, "revoke") /\ handler'[w].at = "revoke"
    /\ key \in handler[w].left /\ handler'[w].left = handler[w].left \ {key}
    /\ handler'[w].methods = handler[w].methods
    /\ graph'.methods = graph.methods \ {key}
    /\ graph'.taps = graph.taps /\ graph'.used = graph.used
    /\ UNCHANGED request /\ SameRound

Creates(w) ==
    /\ Others(w) /\ At(w, "revoke") /\ handler'[w].at = "record-tap"
    /\ handler[w].left = {} /\ handler'[w].methods = handler[w].methods
    /\ handler'[w].tap = graph'.taps
    /\ graph'.methods = graph.methods /\ graph'.used = graph.used
    /\ UNCHANGED request /\ SameRound

Records(w) ==
    /\ Others(w) /\ At(w, "record-tap") /\ handler'[w].at = "idle"
    /\ RecordTapAllowed(request, w)
    /\ request' = RecordTap(request, handler[w].tap, handler[w].methods)
    /\ UNCHANGED graph /\ SameRound

\* A failed call may have had its effect; only the step that records the failure, or
\* a crash, ends the operation.
GivesUp(w) ==
    /\ Others(w) /\ Revoking(w) /\ SameRound
    /\ \/ handler'[w].at \in {"idle", "fail-tap"} /\ UNCHANGED request
       \/ /\ handler'[w].at = "idle"
          /\ FailTapAllowed(request, w) /\ request' = FailTap(request)
    /\ graph'.used = graph.used
    /\ \/ UNCHANGED graph
       \/ At(w, "revoke") /\ graph'.methods = graph.methods
       \/ /\ At(w, "revoke") /\ graph'.taps = graph.taps
          /\ \E key \in handler[w].left : graph'.methods = graph.methods \ {key}

ListsNew(w) ==
    /\ Others(w) /\ ~Revoking(w) /\ handler'[w].at = "confirm"
    /\ handler'[w].methods = graph.methods
    /\ UNCHANGED <<request, graph>> /\ SameRound

Confirms(w) ==
    /\ Others(w) /\ At(w, "confirm") /\ handler'[w].at = "idle"
    /\ request.state = "tap-issued"
    /\ \E key \in NewMethods(request, handler[w].methods) : request' = ConfirmPasskey(request, key)
    /\ UNCHANGED graph /\ SameRound

Resets(w) ==
    /\ Others(w) /\ ~Revoking(w) /\ handler'[w].at \in {"idle", "expire"}
    /\ ResetRow(request, request') /\ UNCHANGED graph
    /\ history'.methodsAtProof = {}
    /\ history'.overtaken = (history.overtaken \/ Overtakes)

Registers(key) ==
    /\ UNCHANGED <<request, handler>> /\ SameRound
    /\ key \notin graph.used
    /\ graph'.methods = graph.methods \cup {key} /\ graph'.used = graph.used \cup {key}
    /\ graph'.taps = graph.taps

Rests == UNCHANGED <<request, handler, graph>> /\ SameRound

OperationTurn(w) ==
    \/ Quiet(w) \/ Claims(w) \/ Lists(w) \/ (\E key \in Key : Deletes(w, key)) \/ Creates(w)
    \/ Records(w) \/ GivesUp(w)

LEMMA OperationTurns ==
    ASSUME TypeInv, NEW w \in Worker, OperationStep(w)
    PROVE  OperationTurn(w)
<1>1. /\ Others(w) /\ request \in Row /\ handler \in [Worker -> ReadyLocal]
      /\ handler[w] \in Local /\ SameRound
      /\ graph \in [taps : 0 .. MaxTaps, methods : SUBSET Key, used : SUBSET Key]
  BY OperationChanges DEF TypeInv, Core, ReadyLocal, GraphType, SameRound
<1>2. QuietRow(request, request) /\ Idle.at = "idle"
  BY <1>1 DEF QuietRow, Ended, Early, Replaced, TerminalStates, Idle
<1>3. \A place \in RevocationPlace : Going(place).at = place
  BY GoingType DEF RevocationPlace, Place
<1>4. ASSUME GoFail(w) PROVE handler'[w].at = "fail-tap" /\ UNCHANGED request
  BY <1>1, <1>3, <1>4 DEF GoFail, Step, RevocationPlace
<1>5. ASSUME Claim(w) PROVE OperationTurn(w)
  <2>1. ASSUME NEW local \in {Going("check"), Idle},
               ClaimRevocationAllowed(request), Write(w, ClaimRevocation(request, w), local)
        PROVE  OperationTurn(w)
    <3>1. request' = ClaimRevocation(request, w) /\ handler'[w] = local
      BY <1>1, <2>1 DEF Write, Replace
    <3>2. request.state = "verified"
      BY <2>1 DEF ClaimRevocationAllowed
    <3>3. local.at \in {"check", "idle"}
      BY <1>2, <1>3 DEF RevocationPlace
    <3>4. Claims(w)
      BY <1>1, <1>5, <3>1, <3>2, <3>3 DEF Claims, Claim, At, Revoking, RevocationPlace
    <3> QED
      BY <3>4 DEF OperationTurn
  <2>2. CASE Step(w, Idle)
    <3>1. Quiet(w)
      BY <1>1, <1>2, <1>5, <2>2 DEF Quiet, Claim, Step, At, Revoking, RevocationPlace
    <3> QED
      BY <3>1 DEF OperationTurn
  <2> QED
    BY <1>5, <2>1, <2>2 DEF Claim
<1>6. ASSUME CheckAndList(w) PROVE OperationTurn(w)
  <2>1. CASE GoFail(w)
    <3>1. GivesUp(w)
      BY <1>1, <1>4, <1>6, <2>1 DEF GivesUp, CheckAndList, At, Revoking, RevocationPlace
    <3> QED
      BY <3>1 DEF OperationTurn
  <2>2. CASE Step(w, [Going("revoke") EXCEPT !.methods = graph.methods, !.left = graph.methods])
    <3>1. /\ handler'[w] = [Going("revoke") EXCEPT !.methods = graph.methods,
                                                   !.left = graph.methods]
          /\ UNCHANGED request
      BY <1>1, <2>2 DEF Step
    <3>2. /\ handler'[w].at = "revoke" /\ handler'[w].methods = graph.methods
          /\ handler'[w].left = graph.methods
      BY <3>1, GoingType DEF Place, RevocationPlace, Local
    <3>3. Lists(w)
      BY <1>1, <1>6, <3>1, <3>2 DEF Lists, CheckAndList
    <3> QED
      BY <3>3 DEF OperationTurn
  <2> QED
    BY <1>6, <2>1, <2>2 DEF CheckAndList
<1>7. ASSUME Revoke(w) PROVE OperationTurn(w)
  <2>1. PICK key \in handler[w].left :
            LET deleted == graph' = [graph EXCEPT !.methods = @ \ {key}]
            IN  \/ /\ key \in graph.methods
                   /\ Step(w, [handler[w] EXCEPT !.left = @ \ {key}])
                   /\ deleted
                \/ GoFail(w) /\ (deleted \/ UNCHANGED graph)
    BY <1>7 DEF Revoke
  <2>2. At(w, "revoke") /\ Revoking(w) /\ key \in Key
    BY <1>1, <1>7 DEF Revoke, At, Revoking, RevocationPlace, Local
  <2>3. graph' = [graph EXCEPT !.methods = @ \ {key}]
        => /\ graph'.methods = graph.methods \ {key} /\ graph'.taps = graph.taps
           /\ graph'.used = graph.used
    BY <1>1
  <2>4. CASE GoFail(w)
    <3>1. /\ graph'.used = graph.used
          /\ \/ UNCHANGED graph
             \/ graph'.taps = graph.taps /\ graph'.methods = graph.methods \ {key}
      BY <1>1, <2>1, <2>3
    <3>2. GivesUp(w)
      BY <1>1, <1>4, <2>2, <2>4, <3>1 DEF GivesUp
    <3> QED
      BY <3>2 DEF OperationTurn
  <2>5. CASE ~GoFail(w)
    <3>1. /\ handler'[w] = [handler[w] EXCEPT !.left = @ \ {key}] /\ UNCHANGED request
          /\ graph' = [graph EXCEPT !.methods = @ \ {key}]
      BY <1>1, <2>1, <2>5 DEF Step
    <3>2. /\ handler'[w].at = "revoke" /\ handler'[w].left = handler[w].left \ {key}
          /\ handler'[w].methods = handler[w].methods
      BY <1>1, <2>2, <3>1 DEF Local, At
    <3>3. Deletes(w, key)
      BY <1>1, <2>2, <2>3, <3>1, <3>2 DEF Deletes
    <3> QED
      BY <2>2, <3>3 DEF OperationTurn
  <2> QED
    BY <2>4, <2>5
<1>8. ASSUME CreateTap(w) PROVE OperationTurn(w)
  <2>1. At(w, "revoke") /\ Revoking(w) /\ handler[w].left = {}
    BY <1>8 DEF CreateTap, AllRevoked, At, Revoking, RevocationPlace
  <2>2. graph' = [graph EXCEPT !.taps = graph.taps + 1]
        => /\ graph'.methods = graph.methods /\ graph'.taps = graph.taps + 1
           /\ graph'.used = graph.used
    BY <1>1
  <2>3. CASE GoFail(w)
    <3>1. graph'.used = graph.used /\ graph'.methods = graph.methods
      BY <1>8, <2>2, <2>3 DEF CreateTap, GoFail, Step
    <3>2. GivesUp(w)
      BY <1>1, <1>4, <2>1, <2>3, <3>1 DEF GivesUp
    <3> QED
      BY <3>2 DEF OperationTurn
  <2>4. CASE ~GoFail(w)
    <3>1. /\ handler'[w] = [handler[w] EXCEPT !.at = "record-tap", !.tap = graph.taps + 1]
          /\ UNCHANGED request /\ graph' = [graph EXCEPT !.taps = graph.taps + 1]
      BY <1>1, <1>8, <2>4 DEF CreateTap, Step
    <3>2. /\ handler'[w].at = "record-tap" /\ handler'[w].tap = graph.taps + 1
          /\ handler'[w].methods = handler[w].methods
      BY <1>1, <3>1 DEF Local
    <3>3. Creates(w)
      BY <1>1, <2>1, <2>2, <3>1, <3>2 DEF Creates
    <3> QED
      BY <3>3 DEF OperationTurn
  <2> QED
    BY <2>3, <2>4
<1>9. ASSUME RecordTapStep(w) PROVE OperationTurn(w)
  <2>1. CASE /\ RecordTapAllowed(request, w)
             /\ Write(w, RecordTap(request, handler[w].tap, handler[w].methods), Idle)
    <3>1. /\ request' = RecordTap(request, handler[w].tap, handler[w].methods)
          /\ handler'[w] = Idle
      BY <1>1, <2>1 DEF Write, Replace
    <3>2. Records(w)
      BY <1>1, <1>2, <1>9, <2>1, <3>1 DEF Records, RecordTapStep
    <3> QED
      BY <3>2 DEF OperationTurn
  <2>2. CASE GoFail(w)
    <3>1. GivesUp(w)
      BY <1>1, <1>4, <1>9, <2>2 DEF GivesUp, RecordTapStep, At, Revoking, RevocationPlace
    <3> QED
      BY <3>1 DEF OperationTurn
  <2> QED
    BY <1>9, <2>1, <2>2 DEF RecordTapStep
<1>10. ASSUME FailTapStep(w) PROVE OperationTurn(w)
  <2>1. UNCHANGED graph /\ Revoking(w) /\ handler'[w] = Idle
    BY <1>1, <1>10
       DEF FailTapStep, Write, Replace, Step, At, Revoking, RevocationPlace
  <2>2. UNCHANGED request \/ (FailTapAllowed(request, w) /\ request' = FailTap(request))
    BY <1>10 DEF FailTapStep, Write, Replace, Step
  <2>3. GivesUp(w)
    BY <1>1, <1>2, <2>1, <2>2 DEF GivesUp
  <2> QED
    BY <2>3 DEF OperationTurn
<1> QED
  BY <1>5, <1>6, <1>7, <1>8, <1>9, <1>10 DEF OperationStep

ReplacementTurn(w) == Quiet(w) \/ ListsNew(w) \/ Confirms(w)

LEMMA ReplacementTurns ==
    ASSUME TypeInv, NEW w \in Worker, ReplacementStep(w)
    PROVE  ReplacementTurn(w)
<1>1. /\ Others(w) /\ request \in Row /\ handler \in [Worker -> ReadyLocal]
      /\ SameRound /\ UNCHANGED graph /\ ~Revoking(w)
  BY ReplacementChanges
     DEF TypeInv, Core, SameRound, Revoking, RevocationPlace, ReplacementPlace
<1>2. QuietRow(request, request) /\ Idle.at = "idle"
  BY <1>1 DEF QuietRow, Ended, Early, Replaced, TerminalStates, Idle
<1>3. \A place \in ReplacementPlace : Going(place).at = place
  BY GoingType DEF ReplacementPlace, Place
<1>4. ASSUME NEW local, Step(w, local), local.at \in ReplacementPlace \ {"confirm"}
      PROVE  Quiet(w)
  BY <1>1, <1>2, <1>4 DEF Step, Quiet, ReplacementPlace, RevocationPlace
<1>5. ASSUME NEW row, Write(w, row, Idle), QuietRow(request, row)
      PROVE  Quiet(w)
  BY <1>1, <1>2, <1>5 DEF Write, Replace, Quiet, RevocationPlace
<1>6. OpenDisplay(w) \/ OpenConfirm(w) \/ OpenComplete(w) => Quiet(w)
  BY <1>2, <1>3, <1>4
     DEF OpenDisplay, OpenConfirm, OpenComplete, OpenRoute, ReplacementPlace
<1>7. DisplayTap(w) => Quiet(w)
  <2>1. TakeTapAllowed(request) => QuietRow(request, TakeTapForDisplay(request))
    BY <1>1 DEF TakeTapAllowed, TakeTapForDisplay, QuietRow, Row, Ended, Early, Replaced,
                TerminalStates
  <2> QED
    BY <1>2, <1>4, <1>5, <2>1 DEF DisplayTap, ReplacementPlace
<1>8. CompleteStep(w) => Quiet(w)
  <2>1. CompleteAllowed(request) => QuietRow(request, Complete(request))
    BY <1>1 DEF CompleteAllowed, Complete, QuietRow, Row, Ended, Early, Replaced,
                TerminalStates
  <2> QED
    BY <1>2, <1>4, <1>5, <2>1 DEF CompleteStep, ReplacementPlace
<1>9. ListMethods(w) => ListsNew(w)
  <2>1. /\ [Going("confirm") EXCEPT !.methods = graph.methods].at = "confirm"
        /\ [Going("confirm") EXCEPT !.methods = graph.methods].methods = graph.methods
    BY GoingType DEF Place, Local
  <2> QED
    BY <1>1, <2>1 DEF ListMethods, Step, ListsNew
<1>10. Confirm(w) => Quiet(w) \/ Confirms(w)
  <2>1. CASE ConfirmPasskeyAllowed(request, handler[w].methods)
    <3>1. Confirm(w) =>
            /\ handler'[w] = Idle
            /\ \E key \in NewMethods(request, handler[w].methods) :
                  request' = ConfirmPasskey(request, key)
      BY <1>1, <2>1 DEF Confirm, Write, Replace
    <3> QED
      BY <1>1, <1>2, <2>1, <3>1 DEF Confirm, Confirms, ConfirmPasskeyAllowed
  <2>2. CASE ~ConfirmPasskeyAllowed(request, handler[w].methods)
    BY <1>2, <1>4, <2>2 DEF Confirm, ReplacementPlace
  <2> QED
    BY <2>1, <2>2
<1> QED
  BY <1>6, <1>7, <1>8, <1>9, <1>10 DEF ReplacementStep, ReplacementTurn

LEMMA RoundTurns ==
    ASSUME TypeInv, [Next]_vars
    PROVE  \/ \E w \in Worker :
                \/ Quiet(w) \/ Proves(w) \/ Claims(w) \/ Lists(w)
                \/ (\E key \in Key : Deletes(w, key)) \/ Creates(w)
                \/ Records(w) \/ GivesUp(w) \/ ListsNew(w) \/ Confirms(w) \/ Resets(w)
           \/ \E key \in Key : Registers(key)
           \/ Rests
<1> USE DEF SameRound
<1>1. ASSUME NEW w \in Worker, OfficeStep(w) PROVE Quiet(w)
  <2>1. QuietRow(request, request')
    BY <1>1, OfficeChanges DEF OfficeRow, QuietRow, Ended, Early, Replaced, TerminalStates
  <2> QED
    BY <1>1, <2>1, OfficeChanges DEF Quiet, Revoking, OfficePlace, RevocationPlace
<1>2. ASSUME NEW w \in Worker, ExchangeStep(w) PROVE Quiet(w) \/ Proves(w)
  <2>1. CASE UNCHANGED history /\ OtherExchangeRow(request, request')
    <3>1. QuietRow(request, request')
      BY <2>1 DEF OtherExchangeRow, ExchangeRow, Presenting, QuietRow, Ended, Early, Replaced,
                  TerminalStates
    <3> QED
      BY <1>2, <2>1, <3>1, ExchangeChanges DEF Quiet, Revoking, ExchangePlace, RevocationPlace
  <2>2. CASE ApplySuccess(w) /\ MarkVerifiedAllowed(request)
    <3>1. /\ request' = MarkVerified(request) /\ handler'[w] = Going("claim")
          /\ history' = [history EXCEPT !.methodsAtProof = graph.methods]
      BY <2>2 DEF ApplySuccess, Write, Replace, TypeInv, Core
    <3>2. request'.state = "verified" /\ handler'[w].at = "claim"
      BY <3>1, GoingType DEF MarkVerified, TypeInv, Core, Row, Place
    <3>3. /\ history'.methodsAtProof = graph.methods
          /\ history'.overtaken = history.overtaken
      BY <3>1 DEF TypeInv, HistoryType
    <3> QED
      BY <1>2, <2>2, <3>2, <3>3, ExchangeChanges
         DEF Proves, MarkVerifiedAllowed, Revoking, ExchangePlace, RevocationPlace
  <2> QED
    BY <1>2, <2>1, <2>2, ExchangeChanges
<1>3. ASSUME NEW w \in Worker, ResetStep(w) PROVE Resets(w)
  BY <1>3, ResetChanges DEF Resets, At, Revoking, RevocationPlace
<1>4. ASSUME NEW w \in Worker, Crash(w) PROVE Quiet(w) \/ GivesUp(w)
  <2>1. handler'[w].at = "idle" /\ QuietRow(request, request)
    BY <1>4, CrashChanges DEF Idle, QuietRow, Ended, Early, Replaced, TerminalStates
  <2>2. CASE Revoking(w)
    BY <1>4, <2>1, <2>2, CrashChanges DEF GivesUp
  <2>3. CASE ~Revoking(w)
    BY <1>4, <2>1, <2>3, CrashChanges DEF Quiet, RevocationPlace
  <2> QED
    BY <2>2, <2>3
<1>5. CASE Outside
  <2>1. ASSUME NEW key \in Key \ graph.used,
               graph' = [graph EXCEPT !.methods = @ \cup {key}, !.used = @ \cup {key}]
        PROVE  Registers(key)
    BY <1>5, <2>1, OutsideChanges DEF Registers, TypeInv, GraphType
  <2> QED
    BY <1>5, <2>1, OutsideChanges DEF Rests
<1>6. CASE UNCHANGED vars
  BY <1>6 DEF vars, Rests
<1>7. CASE Next
  BY <1>1, <1>2, <1>3, <1>4, <1>5, <1>7, NextCases, OperationTurns, ReplacementTurns
     DEF OperationTurn, ReplacementTurn
<1> QED
  BY <1>6, <1>7

-----------------------------------------------------------------------------
(* One operation at a time *)

Owns(w) ==
    /\ request.state = "passkeys-revoked" /\ request.tapStatus = "creating"
    /\ request.tapOperationId = w

OneAtWork == \A v, w \in Worker : Revoking(v) /\ Revoking(w) => v = w

WorkIsOwned == \A w \in Worker : Revoking(w) => Owns(w) \/ request.state \in Ended

LastTapHeld == \A w \in Worker : At(w, "record-tap") => handler[w].tap = graph.taps

LastTapStored ==
    request.state = "tap-issued" /\ request.tapProtected # 0
    => request.tapProtected = graph.taps

\* Until a reset overtakes it, the handler of an operation is alone and is the one
\* that the row names, unless the request has ended under it.
OwnerInv ==
    ~history.overtaken => OneAtWork /\ WorkIsOwned /\ LastTapHeld /\ LastTapStored

\* A step of a handler outside an operation that leaves the operation to its handler.
LEMMA OwnerKept ==
    ASSUME OneAtWork /\ WorkIsOwned /\ LastTapHeld, NEW w \in Worker, Others(w), ~Revoking(w),
           handler'[w].at \notin RevocationPlace, graph'.taps = graph.taps,
           request.state = "passkeys-revoked" => request' = request \/ request'.state \in Ended,
           request.state \in Ended => request'.state \in Ended
    PROVE  OneAtWork' /\ WorkIsOwned' /\ LastTapHeld'
<1>1. \A v \in Worker : Revoking(v)' => Revoking(v) /\ handler'[v] = handler[v]
  BY DEF Others, Revoking
<1>2. WorkIsOwned'
  BY <1>1 DEF WorkIsOwned, Owns
<1>3. LastTapHeld'
  <2> SUFFICES ASSUME NEW v \in Worker, At(v, "record-tap")' PROVE (handler[v].tap = graph.taps)'
    BY DEF LastTapHeld
  <2> QED
    BY <1>1 DEF LastTapHeld, At, Revoking, RevocationPlace
<1> QED
  BY <1>1, <1>2, <1>3 DEF OneAtWork

LEMMA OwnerStep == TypeInv /\ OwnerInv /\ [Next]_vars => OwnerInv'
<1> SUFFICES ASSUME TypeInv, OwnerInv, [Next]_vars, ~history'.overtaken
             PROVE  OneAtWork' /\ WorkIsOwned' /\ LastTapHeld' /\ LastTapStored'
  BY DEF OwnerInv
<1> DEFINE Goal == OneAtWork' /\ WorkIsOwned' /\ LastTapHeld' /\ LastTapStored'
<1>1. history.overtaken \in BOOLEAN /\ request \in Row /\ handler \in [Worker -> ReadyLocal]
  BY DEF TypeInv, HistoryType, Core
<1>2. SameRound => OneAtWork /\ WorkIsOwned /\ LastTapHeld /\ LastTapStored
  BY DEF OwnerInv, SameRound
<1>3. ASSUME NEW w \in Worker, Quiet(w) PROVE Goal
  <2>1. OneAtWork' /\ WorkIsOwned' /\ LastTapHeld'
    BY <1>2, <1>3, OwnerKept DEF Quiet, QuietRow
  <2>2. LastTapStored'
    BY <1>2, <1>3 DEF Quiet, QuietRow, LastTapStored
  <2> QED
    BY <2>1, <2>2
<1>4. ASSUME NEW w \in Worker, Proves(w) PROVE Goal
  <2>1. OneAtWork /\ WorkIsOwned /\ LastTapHeld
    BY <1>4 DEF OwnerInv, Proves
  <2>2. OneAtWork' /\ WorkIsOwned' /\ LastTapHeld'
    BY <1>4, <2>1, OwnerKept DEF Proves, Ended, TerminalStates, RevocationPlace
  <2> QED
    BY <1>4, <2>2 DEF Proves, LastTapStored
<1>5. ASSUME NEW w \in Worker, Claims(w) PROVE Goal
  <2>1. \A v \in Worker : ~Revoking(v)
    BY <1>2, <1>5 DEF Claims, WorkIsOwned, Owns, Ended, TerminalStates
  <2>2. \A v \in Worker : Revoking(v)' => v = w
    BY <1>5, <2>1 DEF Claims, Others, Revoking
  <2>3. Owns(w)' /\ request'.state = "passkeys-revoked"
    BY <1>1, <1>5 DEF Claims, ClaimRevocation, Owns, Row
  <2>4. \A v \in Worker : ~At(v, "record-tap")'
    BY <1>5, <2>2 DEF Claims, Revoking, At, RevocationPlace
  <2> QED
    BY <2>2, <2>3, <2>4 DEF OneAtWork, WorkIsOwned, LastTapHeld, LastTapStored
<1>6. ASSUME NEW w \in Worker, Revoking(w), Others(w), SameRound, UNCHANGED request,
             At(w, "record-tap")' => handler'[w].tap = graph'.taps
      PROVE  Goal
  <2>1. \A v \in Worker : Revoking(v) => v = w
    BY <1>2, <1>6 DEF OneAtWork
  <2>2. \A v \in Worker : Revoking(v)' => v = w
    BY <1>6, <2>1 DEF Others, Revoking
  <2>3. WorkIsOwned' /\ LastTapStored'
    <3>1. Owns(w) \/ request.state \in Ended
      BY <1>2, <1>6 DEF WorkIsOwned
    <3> QED
      BY <1>6, <2>2, <3>1 DEF WorkIsOwned, Owns, LastTapStored, Ended, TerminalStates
  <2>4. LastTapHeld'
    <3>1. \A v \in Worker : At(v, "record-tap")' => v = w
      BY <2>2 DEF At, Revoking, RevocationPlace
    <3> QED
      BY <1>6, <3>1 DEF LastTapHeld
  <2> QED
    BY <2>2, <2>3, <2>4 DEF OneAtWork
<1>7. ASSUME NEW w \in Worker, Lists(w) \/ (\E key \in Key : Deletes(w, key)) \/ Creates(w)
      PROVE  Goal
  <2>1. /\ Revoking(w) /\ Others(w) /\ SameRound /\ UNCHANGED request
        /\ At(w, "record-tap")' => handler'[w].tap = graph'.taps
    BY <1>7 DEF Lists, Deletes, Creates, At, Revoking, RevocationPlace
  <2> QED
    BY <1>6, <2>1
<1>8. ASSUME NEW w \in Worker, Others(w), Revoking(w), SameRound, handler'[w].at = "idle",
             LastTapStored'
      PROVE  Goal
  <2>1. \A v \in Worker : ~Revoking(v)'
    BY <1>2, <1>8 DEF OneAtWork, Others, Revoking, RevocationPlace
  <2>2. \A v \in Worker : ~At(v, "record-tap")'
    BY <2>1 DEF At, Revoking, RevocationPlace
  <2> QED
    BY <1>8, <2>1, <2>2 DEF OneAtWork, WorkIsOwned, LastTapHeld
<1>9. ASSUME NEW w \in Worker, Records(w) PROVE Goal
  <2>1. handler[w].tap = graph.taps
    BY <1>2, <1>9 DEF Records, LastTapHeld
  <2>2. LastTapStored'
    BY <1>1, <1>9, <2>1 DEF Records, RecordTap, LastTapStored, Row
  <2> QED
    BY <1>8, <1>9, <2>2 DEF Records, At, Revoking, RevocationPlace
<1>10. ASSUME NEW w \in Worker, GivesUp(w) PROVE Goal
  <2>1. CASE UNCHANGED request
    <3>1. ~At(w, "record-tap")'
      BY <1>10, <2>1 DEF GivesUp, At
    <3> QED
      BY <1>6, <1>10, <2>1, <3>1 DEF GivesUp
  <2>2. CASE handler'[w].at = "idle" /\ FailTapAllowed(request, w) /\ request' = FailTap(request)
    <3>1. LastTapStored'
      BY <1>1, <2>2 DEF FailTapAllowed, FailTap, LastTapStored, Row
    <3> QED
      BY <1>8, <1>10, <2>2, <3>1 DEF GivesUp
  <2> QED
    BY <1>10, <2>1, <2>2 DEF GivesUp
<1>11. ASSUME NEW w \in Worker, ListsNew(w) \/ Confirms(w) PROVE Goal
  <2>1. /\ SameRound /\ Others(w) /\ ~Revoking(w) /\ handler'[w].at \notin RevocationPlace
        /\ UNCHANGED graph
        /\ \/ UNCHANGED request
           \/ request.state = "tap-issued" /\ request'.state = "passkey-registered"
    BY <1>1, <1>11
       DEF ListsNew, Confirms, ConfirmPasskey, At, Revoking, RevocationPlace, Row
  <2>2. OneAtWork' /\ WorkIsOwned' /\ LastTapHeld'
    BY <1>2, <2>1, OwnerKept DEF Ended, TerminalStates
  <2> QED
    BY <1>2, <2>1, <2>2 DEF LastTapStored
<1>12. ASSUME NEW w \in Worker, Resets(w) PROVE Goal
  <2>1. ~history.overtaken /\ ~Overtakes
    BY <1>12 DEF Resets
  <2>2. \A v \in Worker : ~Revoking(v)'
    BY <1>12, <2>1 DEF Resets, Overtakes, Others, Revoking, RevocationPlace
  <2>3. \A v \in Worker : ~At(v, "record-tap")'
    BY <2>2 DEF At, Revoking, RevocationPlace
  <2>4. LastTapStored'
    BY <1>12 DEF Resets, ResetRow, LastTapStored
  <2> QED
    BY <2>2, <2>3, <2>4 DEF OneAtWork, WorkIsOwned, LastTapHeld
<1>13. ASSUME Rests \/ \E key \in Key : Registers(key) PROVE Goal
  <2>1. SameRound /\ UNCHANGED <<request, handler>> /\ graph'.taps = graph.taps
    BY <1>13 DEF Rests, Registers
  <2> QED
    BY <1>2, <2>1
       DEF OneAtWork, WorkIsOwned, LastTapHeld, LastTapStored, Owns, Revoking, At
<1> HIDE DEF Goal
<1>14. Goal
  BY <1>3, <1>4, <1>5, <1>7, <1>9, <1>10, <1>11, <1>12, <1>13, RoundTurns
<1> QED
  BY <1>14 DEF Goal

LEMMA OwnerAlways == Spec => []OwnerInv
<1>1. Init => OwnerInv
  <2>1. Init => \A w \in Worker : handler[w].at \in {"notify", "idle"}
    BY GoingType DEF Init, Idle, Place
  <2>2. Init => request.state = "requested"
    BY DEF Init, RequestedRow
  <2> QED
    BY <2>1, <2>2 DEF OwnerInv, OneAtWork, WorkIsOwned, LastTapHeld, LastTapStored, Revoking, At,
                      RevocationPlace
<1> QED
  BY <1>1, OwnerStep, TypesAlways, PTL DEF Spec

\* The pass that the row holds for display is the last one created: no failed, late or
\* repeated operation stores one that a later one has replaced, unless a reset let a
\* second operation overtake the first.
THEOREM StoredTapWorks == Spec => []NewestTapStored
<1>1. OwnerInv => NewestTapStored
  BY DEF OwnerInv, LastTapStored, NewestTapStored
<1> QED
  BY <1>1, OwnerAlways, PTL

-----------------------------------------------------------------------------
(* The passkeys are gone *)

\* What is left of the passkeys that the employee had when the identity was proved.
Remaining == graph.methods \cap history.methodsAtProof

KnownMethods == graph.methods \cup history.methodsAtProof \subseteq graph.used

\* The handler that the row names, and no other, knows what it has still to delete.
DeletionKnown ==
    request.state = "passkeys-revoked" =>
        \A w \in Worker : request.tapOperationId = w =>
            /\ At(w, "revoke") => Remaining \subseteq handler[w].left
            /\ At(w, "record-tap") => Remaining = {}

\* No reset excuses this: an overtaken handler's pass is refused by the operation id.
RevokedInv == KnownMethods /\ DeletionKnown /\ RevokedBeforeReplacement

LEMMA RevokedStep == TypeInv /\ RevokedInv /\ [Next]_vars => RevokedInv'
<1> SUFFICES ASSUME TypeInv, RevokedInv, [Next]_vars PROVE RevokedInv'
  OBVIOUS
<1>1. /\ request \in Row /\ handler \in [Worker -> ReadyLocal]
      /\ KnownMethods /\ DeletionKnown /\ RevokedBeforeReplacement
  BY DEF TypeInv, Core, RevokedInv
<1>2. ASSUME NEW w \in Worker, Others(w), Remaining' \subseteq Remaining, KnownMethods',
             handler'[w].at \notin {"revoke", "record-tap"},
             request'.state = "passkeys-revoked" =>
                /\ request.state = "passkeys-revoked"
                /\ request'.tapOperationId = request.tapOperationId,
             RevokedBeforeReplacement'
      PROVE  RevokedInv'
  <2>1. ASSUME request'.state = "passkeys-revoked", NEW v \in Worker, request'.tapOperationId = v
        PROVE  /\ At(v, "revoke")' => Remaining' \subseteq handler'[v].left
               /\ At(v, "record-tap")' => Remaining' = {}
    <3>1. CASE v = w
      BY <1>2, <3>1 DEF At
    <3>2. CASE v # w
      BY <1>1, <1>2, <2>1, <3>2 DEF DeletionKnown, At, Others
    <3> QED
      BY <3>1, <3>2
  <2>2. DeletionKnown'
    BY <2>1 DEF DeletionKnown
  <2> QED
    BY <1>2, <2>2 DEF RevokedInv
<1>3. UNCHANGED graph /\ SameRound => Remaining' = Remaining /\ KnownMethods'
  BY <1>1 DEF SameRound, Remaining, KnownMethods
<1>4. ASSUME NEW w \in Worker, Quiet(w) PROVE RevokedInv'
  <2>1. RevokedBeforeReplacement'
    BY <1>1, <1>3, <1>4
       DEF Quiet, QuietRow, Replaced, RevokedBeforeReplacement, Remaining
  <2> QED
    BY <1>2, <1>3, <1>4, <2>1 DEF Quiet, QuietRow, RevocationPlace
<1>5. ASSUME NEW w \in Worker, Proves(w) PROVE RevokedInv'
  BY <1>1, <1>5
     DEF Proves, RevokedInv, KnownMethods, DeletionKnown, RevokedBeforeReplacement
<1>6. ASSUME NEW w \in Worker, Claims(w) PROVE RevokedInv'
  <2>1. request'.state = "passkeys-revoked" /\ request'.tapOperationId = w
    BY <1>1, <1>6 DEF Claims, ClaimRevocation, Row
  <2>2. DeletionKnown'
    BY <1>6, <2>1 DEF Claims, DeletionKnown, At
  <2> QED
    BY <1>3, <1>6, <2>1, <2>2 DEF Claims, RevokedInv, RevokedBeforeReplacement
<1>7. ASSUME NEW w \in Worker, Others(w), UNCHANGED request, Remaining' \subseteq Remaining,
             KnownMethods',
             At(w, "revoke")' =>
                (request.state = "passkeys-revoked" /\ request.tapOperationId = w
                   => Remaining' \subseteq handler'[w].left),
             At(w, "record-tap")' =>
                (request.state = "passkeys-revoked" /\ request.tapOperationId = w
                   => Remaining' = {})
      PROVE  RevokedInv'
  <2>1. RevokedBeforeReplacement'
    BY <1>1, <1>7 DEF RevokedBeforeReplacement, Remaining
  <2>2. ASSUME request'.state = "passkeys-revoked", NEW v \in Worker, request'.tapOperationId = v
        PROVE  /\ At(v, "revoke")' => Remaining' \subseteq handler'[v].left
               /\ At(v, "record-tap")' => Remaining' = {}
    <3>1. CASE v = w
      BY <1>7, <2>2, <3>1
    <3>2. CASE v # w
      BY <1>1, <1>7, <2>2, <3>2 DEF DeletionKnown, At, Others
    <3> QED
      BY <3>1, <3>2
  <2>3. DeletionKnown'
    BY <2>2 DEF DeletionKnown
  <2> QED
    BY <1>7, <2>1, <2>3 DEF RevokedInv
<1>8. ASSUME NEW w \in Worker, Lists(w) PROVE RevokedInv'
  <2>1. Remaining' \subseteq handler'[w].left
    BY <1>8 DEF Lists, Remaining
  <2> QED
    BY <1>3, <1>7, <1>8, <2>1 DEF Lists, At
<1>9. ASSUME NEW w \in Worker, NEW key \in Key, Deletes(w, key) PROVE RevokedInv'
  <2>1. Remaining' = Remaining \ {key} /\ KnownMethods'
    BY <1>1, <1>9 DEF Deletes, SameRound, Remaining, KnownMethods
  <2>2. request.state = "passkeys-revoked" /\ request.tapOperationId = w
        => Remaining' \subseteq handler'[w].left
    BY <1>1, <1>9, <2>1 DEF Deletes, DeletionKnown
  <2> QED
    BY <1>7, <1>9, <2>1, <2>2 DEF Deletes, At
<1>10. ASSUME NEW w \in Worker, Creates(w) PROVE RevokedInv'
  <2>1. Remaining' = Remaining /\ KnownMethods'
    BY <1>1, <1>10 DEF Creates, SameRound, Remaining, KnownMethods
  <2>2. request.state = "passkeys-revoked" /\ request.tapOperationId = w => Remaining = {}
    BY <1>1, <1>10 DEF Creates, DeletionKnown
  <2> QED
    BY <1>7, <1>10, <2>1, <2>2 DEF Creates, At
<1>11. ASSUME NEW w \in Worker, Records(w) PROVE RevokedInv'
  <2>1. Remaining = {}
    BY <1>1, <1>11 DEF Records, RecordTapAllowed, DeletionKnown
  <2>2. request'.state = "tap-issued"
    BY <1>1, <1>11 DEF Records, RecordTap, Row
  <2> QED
    BY <1>3, <1>11, <2>1, <2>2
       DEF Records, RevokedInv, DeletionKnown, RevokedBeforeReplacement, Remaining
<1>12. ASSUME NEW w \in Worker, GivesUp(w) PROVE RevokedInv'
  <2>1. Remaining' \subseteq Remaining /\ KnownMethods'
    BY <1>1, <1>12 DEF GivesUp, SameRound, Remaining, KnownMethods
  <2>2. CASE UNCHANGED request
    BY <1>7, <1>12, <2>1, <2>2 DEF GivesUp, At
  <2>3. CASE handler'[w].at = "idle" /\ FailTapAllowed(request, w) /\ request' = FailTap(request)
    <3>1. /\ request.state = "passkeys-revoked" /\ request'.state = "passkeys-revoked"
          /\ request'.tapOperationId = request.tapOperationId
      BY <1>1, <2>3 DEF FailTapAllowed, FailTap, Row
    <3> QED
      BY <1>2, <1>12, <2>1, <2>3, <3>1 DEF GivesUp, RevokedBeforeReplacement
  <2> QED
    BY <1>12, <2>2, <2>3 DEF GivesUp
<1>13. ASSUME NEW w \in Worker, ListsNew(w) PROVE RevokedInv'
  BY <1>3, <1>7, <1>13 DEF ListsNew, At
<1>14. ASSUME NEW w \in Worker, Confirms(w) PROVE RevokedInv'
  <2>1. request'.state = "passkey-registered"
    BY <1>1, <1>14 DEF Confirms, ConfirmPasskey, Row
  <2> QED
    BY <1>1, <1>2, <1>3, <1>14, <2>1 DEF Confirms, RevokedBeforeReplacement, Remaining
<1>15. ASSUME NEW w \in Worker, Resets(w) PROVE RevokedInv'
  BY <1>1, <1>15
     DEF Resets, ResetRow, RevokedInv, KnownMethods, DeletionKnown, RevokedBeforeReplacement
<1>16. ASSUME NEW key \in Key, Registers(key) PROVE RevokedInv'
  <2>1. Remaining' = Remaining /\ KnownMethods'
    BY <1>1, <1>16 DEF Registers, SameRound, Remaining, KnownMethods
  <2> QED
    BY <1>1, <1>16, <2>1
       DEF Registers, RevokedInv, DeletionKnown, At, RevokedBeforeReplacement, Remaining
<1>17. ASSUME Rests PROVE RevokedInv'
  BY <1>1, <1>3, <1>17
     DEF Rests, RevokedInv, DeletionKnown, At, RevokedBeforeReplacement, Remaining
<1> QED
  BY <1>4, <1>5, <1>6, <1>8, <1>9, <1>10, <1>11, <1>12, <1>13, <1>14, <1>15, <1>16, <1>17,
     RoundTurns

\* Once a pass is stored no passkey is left that the employee had when the identity was
\* proved, whatever deletions fail, operations are abandoned or rounds overlap: only the
\* handler that the row names stores a pass, and only when its list is empty.
THEOREM AllRevokedFirst == Spec => []RevokedBeforeReplacement
<1>1. Init => RevokedInv
  BY DEF Init, RequestedRow, RevokedInv, KnownMethods, DeletionKnown, RevokedBeforeReplacement
<1>2. RevokedInv => RevokedBeforeReplacement
  BY DEF RevokedInv
<1> QED
  BY <1>1, <1>2, RevokedStep, TypesAlways, PTL DEF Spec

-----------------------------------------------------------------------------
(* The replacement is new *)

Deleting(w) == At(w, "revoke") \/ At(w, "record-tap")

\* What the employee had at the proof stays registered until the operation has listed
\* it, and what was listed becomes the baseline of the confirmation.
BaselineKept ==
    /\ request.state = "verified" => history.methodsAtProof \subseteq graph.methods
    /\ \A w \in Worker :
          /\ At(w, "check") => history.methodsAtProof \subseteq graph.methods
          /\ Deleting(w) => history.methodsAtProof \subseteq handler[w].methods
          /\ At(w, "revoke") => handler[w].left \subseteq handler[w].methods
    /\ request.state = "tap-issued" => history.methodsAtProof \subseteq request.passkeyBaseline

\* A method that a handler has listed to confirm it, perhaps a round ago, is registered,
\* or is one that the operation lists and the baseline then rules out.
ListingKept ==
    \A w \in Worker : At(w, "confirm") =>
        /\ request.state \in Early => handler[w].methods \subseteq graph.methods
        /\ \A v \in Worker :
              /\ At(v, "check") => handler[w].methods \subseteq graph.methods
              /\ Deleting(v) => handler[w].methods \ handler[v].methods \subseteq graph.methods
        /\ request.state = "tap-issued"
              => handler[w].methods \ request.passkeyBaseline \subseteq graph.methods

NewRegistered ==
    request.state \in Replaced
    => request.passkeyMethodId \in graph.methods \ history.methodsAtProof

ReplacementInv == ~history.overtaken => BaselineKept /\ ListingKept /\ NewRegistered

Kept == BaselineKept /\ ListingKept /\ NewRegistered

\* A step outside an operation and a confirmation that leaves the operation alone, or
\* registers a method.
LEMMA ReplacementKept ==
    ASSUME Kept, NEW w \in Worker, Others(w),
           handler'[w].at \notin {"check", "revoke", "record-tap", "confirm"},
           history'.methodsAtProof = history.methodsAtProof,
           graph'.methods = graph.methods,
           request'.state = "verified" => request.state = "verified",
           request'.state \in Early => request.state \in Early,
           request'.state = "tap-issued" =>
              request.state = "tap-issued" /\ request'.passkeyBaseline = request.passkeyBaseline,
           NewRegistered'
    PROVE  Kept'
<1>1. \A v \in Worker : At(v, "check")' \/ Deleting(v)' \/ At(v, "confirm")'
         => handler'[v] = handler[v]
  BY DEF Others, At, Deleting
<1>2. BaselineKept'
  BY <1>1 DEF Kept, BaselineKept, At, Deleting
<1>3. ListingKept'
  BY <1>1 DEF Kept, ListingKept, At, Deleting
<1> QED
  BY <1>2, <1>3 DEF Kept

LEMMA ReplacementStepKept ==
    TypeInv /\ OwnerInv /\ RevokedInv /\ ReplacementInv /\ [Next]_vars => ReplacementInv'
<1> SUFFICES ASSUME TypeInv, OwnerInv, RevokedInv, ReplacementInv, [Next]_vars,
                    ~history'.overtaken
             PROVE  Kept'
  BY DEF ReplacementInv, Kept
<1>1. /\ request \in Row /\ handler \in [Worker -> ReadyLocal] /\ KnownMethods
      /\ history.overtaken \in BOOLEAN
  BY DEF TypeInv, Core, HistoryType, RevokedInv
<1>2. SameRound => Kept /\ OneAtWork /\ WorkIsOwned
  BY DEF SameRound, ReplacementInv, Kept, OwnerInv
<1>3. ASSUME NEW w \in Worker, Quiet(w) PROVE Kept'
  <2>1. NewRegistered'
    BY <1>2, <1>3 DEF Quiet, QuietRow, SameRound, Kept, NewRegistered
  <2> QED
    BY <1>2, <1>3, <2>1, ReplacementKept DEF Quiet, QuietRow, SameRound, RevocationPlace
<1>4. ASSUME NEW w \in Worker, Proves(w) PROVE Kept'
  <2>1. Kept /\ WorkIsOwned
    BY <1>4 DEF Proves, ReplacementInv, Kept, OwnerInv
  <2>2. \A v \in Worker : ~Revoking(v)
    BY <1>4, <2>1 DEF Proves, WorkIsOwned, Owns, Ended, TerminalStates
  <2>3. \A v \in Worker : ~At(v, "check")' /\ ~Deleting(v)'
    BY <1>4, <2>2 DEF Proves, Others, At, Deleting, Revoking, RevocationPlace
  <2>4. BaselineKept'
    BY <1>4, <2>3 DEF Proves, BaselineKept, Deleting
  <2>5. \A v \in Worker : At(v, "confirm")' => At(v, "confirm") /\ handler'[v] = handler[v]
    BY <1>4 DEF Proves, Others, At
  <2>6. ListingKept'
    BY <1>4, <2>1, <2>3, <2>5 DEF Proves, Kept, ListingKept, Early
  <2> QED
    BY <1>4, <2>4, <2>6 DEF Proves, Kept, NewRegistered, Replaced
<1>5. ASSUME NEW w \in Worker, Claims(w) PROVE Kept'
  <2>1. Kept /\ history.methodsAtProof \subseteq graph.methods
    BY <1>2, <1>5 DEF Claims, Kept, BaselineKept
  <2>2. request'.state = "passkeys-revoked"
    BY <1>1, <1>5 DEF Claims, ClaimRevocation, Row
  <2>3. BaselineKept'
    BY <1>5, <2>1, <2>2 DEF Claims, SameRound, Kept, BaselineKept, Others, At, Deleting
  <2>4. ASSUME NEW v \in Worker, At(v, "confirm")'
        PROVE  handler'[v].methods \subseteq graph'.methods
    BY <1>5, <2>1, <2>4 DEF Claims, Kept, ListingKept, Others, At, Early
  <2>5. ListingKept'
    BY <2>2, <2>4 DEF ListingKept, Early
  <2> QED
    BY <2>2, <2>3, <2>5 DEF Kept, NewRegistered, Replaced
<1>6. ASSUME NEW w \in Worker, Lists(w) PROVE Kept'
  <2>1. Kept
    BY <1>2, <1>6 DEF Lists
  <2>2. BaselineKept'
    BY <1>6, <2>1 DEF Lists, SameRound, Kept, BaselineKept, Others, At, Deleting
  <2>3. ASSUME NEW v \in Worker, At(v, "confirm")'
        PROVE  handler'[v].methods \subseteq graph'.methods /\ handler'[v] = handler[v]
    BY <1>6, <2>1, <2>3 DEF Lists, Kept, ListingKept, Others, At
  <2>4. ListingKept'
    BY <2>3 DEF ListingKept
  <2> QED
    BY <1>6, <2>1, <2>2, <2>4 DEF Lists, SameRound, Kept, NewRegistered
<1>7. ASSUME NEW w \in Worker, Revoking(w), Others(w), SameRound, UNCHANGED request,
             NEW key, graph'.methods = graph.methods \ {key}, At(w, "revoke"),
             key \in handler[w].left,
             Deleting(w)' => /\ handler'[w].methods = handler[w].methods
                             /\ handler'[w].left \subseteq handler[w].left,
             handler'[w].at \notin {"check", "confirm"}
      PROVE  Kept'
  <2>1. Kept /\ (Owns(w) \/ request.state \in Ended) /\ \A v \in Worker : Revoking(v) => v = w
    BY <1>2, <1>7 DEF OneAtWork, WorkIsOwned
  <2>2. request.state \notin Early \cup Replaced \cup {"verified", "tap-issued"}
    BY <2>1 DEF Owns, Ended, Early, Replaced, TerminalStates
  <2>3. \A v \in Worker : v # w => ~At(v, "check")' /\ ~Deleting(v)'
    BY <1>7, <2>1 DEF Others, At, Deleting, Revoking, RevocationPlace
  <2>4. ~At(w, "check")' /\ ~At(w, "confirm")'
    BY <1>7 DEF At
  <2>5. BaselineKept'
    BY <1>7, <2>1, <2>2, <2>3, <2>4 DEF Kept, BaselineKept, SameRound, Deleting
  <2>6. key \in handler[w].methods
    BY <1>7, <2>1 DEF Kept, BaselineKept, Deleting
  <2>7. ASSUME NEW v \in Worker, At(v, "confirm")', Deleting(w)'
        PROVE  handler'[v].methods \ handler'[w].methods \subseteq graph'.methods
    <3>1. handler'[v] = handler[v] /\ At(v, "confirm") /\ Deleting(w)
      BY <1>7, <2>4, <2>7 DEF Others, At, Deleting
    <3> QED
      BY <1>7, <2>1, <2>6, <2>7, <3>1 DEF Kept, ListingKept
  <2>8. ListingKept'
    BY <1>7, <2>2, <2>3, <2>4, <2>7 DEF ListingKept
  <2> QED
    BY <1>7, <2>2, <2>5, <2>8 DEF Kept, NewRegistered
<1>8. ASSUME NEW w \in Worker, NEW key \in Key, Deletes(w, key) PROVE Kept'
  BY <1>7, <1>8 DEF Deletes, At, Deleting, Revoking, RevocationPlace
<1>9. ASSUME NEW w \in Worker, Creates(w) PROVE Kept'
  <2>1. Kept
    BY <1>2, <1>9 DEF Creates
  <2>2. BaselineKept'
    BY <1>9, <2>1 DEF Creates, SameRound, Kept, BaselineKept, Others, At, Deleting
  <2>3. ListingKept'
    BY <1>9, <2>1 DEF Creates, SameRound, Kept, ListingKept, Others, At, Deleting
  <2> QED
    BY <1>9, <2>1, <2>2, <2>3 DEF Creates, SameRound, Kept, NewRegistered
<1>10. ASSUME NEW w \in Worker, Records(w) PROVE Kept'
  <2>1. Kept /\ \A v \in Worker : Revoking(v) => v = w
    BY <1>2, <1>10 DEF Records, OneAtWork, At, Revoking, RevocationPlace
  <2>2. request'.state = "tap-issued" /\ request'.passkeyBaseline = handler[w].methods
    BY <1>1, <1>10 DEF Records, RecordTap, Row
  <2>3. \A v \in Worker : ~At(v, "check")' /\ ~Deleting(v)'
    BY <1>10, <2>1 DEF Records, Others, At, Deleting, Revoking, RevocationPlace
  <2>4. BaselineKept'
    BY <1>10, <2>1, <2>2, <2>3 DEF Records, SameRound, Kept, BaselineKept, Deleting
  <2>5. ASSUME NEW v \in Worker, At(v, "confirm")'
        PROVE  handler'[v].methods \ request'.passkeyBaseline \subseteq graph'.methods
    BY <1>10, <2>1, <2>2, <2>5 DEF Records, Kept, ListingKept, Others, At, Deleting
  <2>6. ListingKept'
    BY <2>2, <2>3, <2>5 DEF ListingKept, Early
  <2> QED
    BY <2>2, <2>4, <2>6 DEF Kept, NewRegistered, Replaced
<1>11. ASSUME NEW w \in Worker, GivesUp(w) PROVE Kept'
  <2>1. Kept /\ Others(w) /\ Revoking(w) /\ SameRound
    BY <1>2, <1>11 DEF GivesUp
  <2>2. handler'[w].at \in {"idle", "fail-tap"} /\ ~Deleting(w)'
    BY <1>11 DEF GivesUp, At, Deleting
  <2>3. /\ request'.state = request.state /\ request'.passkeyBaseline = request.passkeyBaseline
        /\ request'.passkeyMethodId = request.passkeyMethodId
    BY <1>1, <1>11 DEF GivesUp, FailTapAllowed, FailTap, Row
  <2>4. CASE graph'.methods = graph.methods
    <3>1. NewRegistered'
      BY <2>1, <2>3, <2>4 DEF Kept, NewRegistered, SameRound
    <3> QED
      BY <2>1, <2>2, <2>3, <2>4, <3>1, ReplacementKept DEF SameRound
  <2>5. CASE graph'.methods # graph.methods
    <3>1. PICK key \in handler[w].left : At(w, "revoke") /\ graph'.methods = graph.methods \ {key}
      BY <1>11, <2>5 DEF GivesUp
    <3>2. CASE UNCHANGED request
      BY <1>7, <2>1, <2>2, <3>1, <3>2
    <3>3. CASE FailTapAllowed(request, w) /\ request' = FailTap(request)
      <4>1. request.state = "passkeys-revoked" /\ \A v \in Worker : Revoking(v) => v = w
        BY <1>2, <2>1, <3>3 DEF FailTapAllowed, OneAtWork
      <4>2. \A v \in Worker : ~At(v, "check")' /\ ~Deleting(v)'
        BY <2>1, <2>2, <4>1 DEF Others, At, Deleting, Revoking, RevocationPlace
      <4> QED
        BY <2>3, <4>1, <4>2
           DEF Kept, BaselineKept, ListingKept, NewRegistered, Early, Replaced, Deleting
    <3> QED
      BY <1>11, <3>2, <3>3 DEF GivesUp
  <2> QED
    BY <2>4, <2>5
<1>12. ASSUME NEW w \in Worker, ListsNew(w) PROVE Kept'
  <2>1. Kept
    BY <1>2, <1>12 DEF ListsNew
  <2>2. BaselineKept'
    BY <1>12, <2>1 DEF ListsNew, SameRound, Kept, BaselineKept, Others, At, Deleting
  <2>3. ListingKept'
    BY <1>12, <2>1 DEF ListsNew, SameRound, Kept, ListingKept, Others, At, Deleting
  <2> QED
    BY <1>12, <2>1, <2>2, <2>3 DEF ListsNew, SameRound, Kept, NewRegistered
<1>13. ASSUME NEW w \in Worker, Confirms(w) PROVE Kept'
  <2>1. Kept
    BY <1>2, <1>13 DEF Confirms
  <2>2. PICK key \in NewMethods(request, handler[w].methods) :
            request' = ConfirmPasskey(request, key)
    BY <1>13 DEF Confirms
  <2>3. key \in graph.methods \ history.methodsAtProof
    BY <1>13, <2>1, <2>2 DEF Confirms, NewMethods, Kept, BaselineKept, ListingKept
  <2>4. request'.state = "passkey-registered" /\ request'.passkeyMethodId = key
    BY <1>1, <2>2 DEF ConfirmPasskey, Row
  <2>5. NewRegistered'
    BY <1>13, <2>3, <2>4 DEF Confirms, SameRound, NewRegistered
  <2> QED
    BY <1>13, <2>1, <2>4, <2>5, ReplacementKept DEF Confirms, SameRound, Early
<1>14. ASSUME NEW w \in Worker, Resets(w) PROVE Kept'
  <2>1. ~history.overtaken /\ \A v \in Worker : ~Revoking(v) /\ ~At(v, "confirm")
    BY <1>14 DEF Resets, Overtakes
  <2>2. \A v \in Worker : ~At(v, "check")' /\ ~Deleting(v)' /\ ~At(v, "confirm")'
    BY <1>14, <2>1 DEF Resets, Others, At, Deleting, Revoking, RevocationPlace
  <2> QED
    BY <1>14, <2>2
       DEF Resets, ResetRow, Kept, BaselineKept, ListingKept, NewRegistered, Replaced, Deleting
<1>15. ASSUME NEW key \in Key, Registers(key) PROVE Kept'
  <2>1. Kept /\ key \notin history.methodsAtProof
    BY <1>1, <1>2, <1>15 DEF Registers, KnownMethods
  <2>2. BaselineKept'
    BY <1>15, <2>1 DEF Registers, SameRound, Kept, BaselineKept, At, Deleting
  <2>3. ListingKept'
    BY <1>15, <2>1 DEF Registers, SameRound, Kept, ListingKept, At, Deleting
  <2> QED
    BY <1>15, <2>1, <2>2, <2>3 DEF Registers, SameRound, Kept, NewRegistered
<1>16. ASSUME Rests PROVE Kept'
  BY <1>2, <1>16
     DEF Rests, SameRound, Kept, BaselineKept, ListingKept, NewRegistered, At, Deleting
<1> QED
  BY <1>3, <1>4, <1>5, <1>6, <1>8, <1>9, <1>10, <1>11, <1>12, <1>13, <1>14, <1>15, <1>16,
     RoundTurns

\* A recovery ends with a passkey that is registered and that the employee did not have
\* when the identity was proved: deletions touch only what was listed, and what was
\* listed is the baseline; unless a reset overtook a handler that deletes or confirms.
THEOREM ReplacementIsNew == Spec => []ReplacementIsGood
<1>1. Init => OwnerInv /\ RevokedInv /\ ReplacementInv
  <2>1. Init => \A w \in Worker : handler[w].at \in {"notify", "idle"}
    BY GoingType DEF Init, Idle, Place
  <2>2. Init => request.state = "requested"
    BY DEF Init, RequestedRow
  <2>3. Init => history.methodsAtProof = {} /\ graph.methods = graph.used
    BY DEF Init
  <2>4. Init => OwnerInv
    BY <2>1, <2>2 DEF OwnerInv, OneAtWork, WorkIsOwned, LastTapHeld, LastTapStored, Revoking, At,
                      RevocationPlace
  <2>5. Init => RevokedInv
    BY <2>2, <2>3 DEF RevokedInv, KnownMethods, DeletionKnown, RevokedBeforeReplacement
  <2>6. Init => ReplacementInv
    BY <2>1, <2>2
       DEF ReplacementInv, BaselineKept, ListingKept, NewRegistered, Replaced, At, Deleting
  <2> QED
    BY <2>4, <2>5, <2>6
<1>2. ReplacementInv => ReplacementIsGood
  BY DEF ReplacementInv, NewRegistered, ReplacementIsGood, Replaced
<1> QED
  BY <1>1, <1>2, OwnerStep, RevokedStep, ReplacementStepKept, TypesAlways, PTL DEF Spec
====
