---------------------------- MODULE OnboardingPortal ----------------------------
(***************************************************************************)
(* One onboarding request from its creation to its end: every handler that  *)
(* touches it, interleaved call by call, with the mail, the identity        *)
(* provider, Microsoft Graph, the Verified ID service, the clock and the    *)
(* administrator around it.                                                 *)
(***************************************************************************)
EXTENDS ApprovalHandlers, CredentialHandlers, TapHandlers, FiniteSets

\* createRequest has stored the row and its handler goes on to notify the manager,
\* or createManagerInitiatedRequest has stored an invitation.
Init ==
    /\ \/ /\ request = RequestedRow
          /\ \E w \in Worker :
                handler = [v \in Worker |-> IF v = w THEN Going("notify") ELSE Idle]
       \/ /\ "invitation" \in Events
          /\ GroupCheckDefined
          /\ request = InvitedRow
          /\ handler = [v \in Worker |-> Idle]
    /\ due = {}
    /\ attempts = [kind \in Kind |-> [n \in Attempt |-> {}]]
    /\ \E methods \in SUBSET Key : graph = [taps |-> 0, methods |-> methods]
    /\ browser = [bound |-> FALSE, invited |-> FALSE, mail |-> {}, preAuth |-> {},
                  codes |-> {}, signedIn |-> {}]
    /\ admin = [seen |-> None, fresh |-> FALSE]
    /\ history = [redeemedSinceArmed |-> 0, methodsAtProof |-> {},
                  shown |-> {}, abandoned |-> FALSE]

\* The next call of a handler that is under way.
Continue(w) ==
    \/ ExpireLapsed(w)
    \/ Notify(w) \/ MarkNotified(w) \/ MarkFailed(w) \/ BindEmployee(w)
    \/ ConfirmInvite(w) \/ InviteFailed(w)
    \/ Redeem(w) \/ SaveManagerSession(w)
    \/ \E decision \in {"approve", "reject"} : RecordDecision(w, decision)
    \/ Escalate(w) \/ MailSkipManager(w)
    \/ Begin(w) \/ Create(w) \/ Attach(w) \/ Fail(w)
    \/ ApplyIssuanceCallback(w)
    \/ ApplyPresentationReport(w) \/ ApplyPresentationSuccess(w)
    \/ ClaimTapStep(w) \/ CheckEligibility(w) \/ CreateTap(w)
    \/ RecordTapStep(w) \/ FailTapStep(w)
    \/ DisplayTap(w) \/ ListMethods(w) \/ Confirm(w) \/ CompleteStep(w)

\* A request from the browsers or a callback reaches an idle worker.
Arrive(w) ==
    \/ LoadLapsed(w)
    \/ SubmitInvite(w)
    \/ \E a, token \in Approver : SignIn(w, a, token)
    \/ \E a \in Approver : SignInCallback(w, a) \/ OpenDecision(w, a)
    \/ OpenEscalation(w)
    \/ \E action \in AdminActions : AdminReset(w, action)
    \/ \E kind \in Kind : OpenExchange(w, kind)
    \/ \E n \in Attempt, event \in Event :
          IssuanceCallbackArrives(w, n, event) \/ PresentationCallbackArrives(w, n, event)
    \/ OpenDisplay(w) \/ OpenConfirm(w) \/ OpenComplete(w)

Outside ==
    \/ ActivateInvite
    \/ \E a, token \in Approver : ActivateToken(a, token)
    \/ AdminLookup
    \/ \E kind \in Kind, n \in Attempt, event \in Event : Wallet(kind, n, event)
    \/ \E d \in Deadline : DeadlinePasses(d)
    \/ \E key \in Key : RegisterPasskey(key)

Next ==
    \/ \E w \in Worker : Continue(w) \/ Arrive(w) \/ Crash(w)
    \/ Outside

Spec == Init /\ [][Next]_vars

\* A handler that awaits an answer or an error gets it, every call having a timeout,
\* unless the process dies.  Nothing is assumed of browsers, wallets and callbacks.
FairSpec == Spec /\ \A w \in Worker : WF_vars(Continue(w))

-----------------------------------------------------------------------------

(* Properties *)

\* The type of every variable: the row, what the handlers keep between their
\* calls, and what the services and browsers hold.
TypeOK ==
    /\ request \in Row
    /\ handler \in [Worker -> Local]
    /\ due \subseteq Deadline
    /\ attempts \in [Kind -> [Attempt -> SUBSET Event]]
    /\ graph \in [taps : 0 .. MaxTaps, methods : SUBSET Key]
    /\ browser \in [bound : BOOLEAN, invited : BOOLEAN, mail : SUBSET Approver,
                    preAuth : SUBSET (Approver \X Approver),
                    codes : SUBSET Approver, signedIn : SUBSET Approver]
    /\ admin \in [seen : States \cup {None}, fresh : BOOLEAN]
    /\ history \in [redeemedSinceArmed : 0 .. 2, methodsAtProof : SUBSET Key,
                    shown : SUBSET (1 .. MaxTaps), abandoned : BOOLEAN]

\* Between two redemptions of the approval token an escalation must have put it
\* back to active: two sign-ins that complete at the same time cannot both spend it.
RedeemedOncePerArming == history.redeemedSinceArmed <= 1

\* A decision is recorded for an approver who signed in, and only if a token was
\* redeemed since the last escalation or reset: a session from before does not do.
DecisionFollowsRedemption ==
    [][(request.state = "manager-notified" /\
        request'.state \in {"manager-approved", "manager-rejected"})
       => /\ history.redeemedSinceArmed > 0
          /\ request'.managerDecisionByRole \in browser.signedIn]_vars

\* An administrator resets the state he was shown, although handlers go on writing
\* while he decides (the etag precondition of adminResetRequest).
ResetActsOnWhatWasSeen ==
    [][(\E w \in Worker, action \in AdminActions : AdminReset(w, action))
       => request.state = admin.seen]_vars

\* Whatever handlers are still under way, a terminal request never gets another
\* state than expired (see NothingLeavesComplete for that one).
TerminalStaysTerminal ==
    [][Terminal(request) => request'.state \in {request.state, "expired"}]_vars

\* A restart revokes the link and mails no other.  From then on nothing but expiry or
\* another reset moves the request, whatever handlers of the round before go on to
\* write; only the notification of a new request may still be under way
\* (adminResetRequest, onboarding-v2-service.js:1092).
RestartAwaitsAdministrator ==
    [][(/\ request.state = "requested"
        /\ \A w \in Worker : handler[w].at \notin {"notify", "mark-notified"})
       => request'.state \in {"requested", "admin-cancelled", "expired"}]_vars

\* While the employee is shown a code, the stored callback state and request id
\* belong to one attempt that exists at the Verified ID service, so that its
\* callbacks will be found.
ActiveExchangeIsWhole ==
    \A kind \in Kind :
        LET x == ExchangeOf(request, kind)
        IN  x.status = "active" =>
                x.requestId = x.state /\ "created" \in attempts[kind][x.state]

\* credential-issued and every later state rest on a credential that the Verified
\* ID service reported as issued, also when the report came late.
IssuedCredentialExists ==
    request.state \in {"credential-issued", "credential-presented", "verified",
                       "tap-issued", "passkey-registered", "complete"}
    => \E n \in Attempt : "success" \in attempts["issuance"][n]

\* verified and every later state rest on a presentation that passed validation:
\* errors, rejected credentials and repeated callbacks never add up to one.
VerifiedMeansPresented ==
    request.state \in {"verified", "tap-issued", "passkey-registered", "complete"}
    => \E n \in Attempt : "success" \in attempts["presentation"][n]

\* Without a reset, no more exchanges are started than the retry limits allow.
RetryLimitsHold ==
    /\ Cardinality({n \in Attempt : Named("issuance", n)}) <= MaxIssuanceRetries
    /\ Cardinality({n \in Attempt : Named("presentation", n)}) <= MaxPresentationRetries

\* Callbacks that are repeated or arrive together start one operation at a time:
\* never are two handlers between the claim and the record of a pass.
OneTapOperation ==
    \A v, w \in Worker :
        handler[v].at \in TapPlaces /\ handler[w].at \in TapPlaces => v = w

\* The pass stored for display is the last one created, the one that works, also
\* after failed operations that did create a pass.
NewestTapStored ==
    request.state = "tap-issued" /\ request.tapProtected # 0
    => request.tapProtected = graph.taps

\* A pass that was displayed is not retained, so two displays at the same time
\* cannot both show it.
NotRetainedAfterDisplay == request.tapProtected \notin history.shown

\* The passkey that completes the request was registered after the employee's
\* identity was proved, however old the lists the handlers compare.
PasskeyIsNew == request.passkeyMethodId \notin history.methodsAtProof

\* A proved request gets its pass, or the failure is recorded, or the request moves
\* on.  The only others are those whose operation was lost for one of three reasons:
\* the handler crashed, the claim's update threw, or the failure itself could not be
\* recorded, which the code swallows (issueTapOnce, onboarding-v2-service.js:1379).
TapAttemptResolves ==
    request.state = "verified"
        ~> request.state # "verified" \/ request.tapStatus = "error" \/ history.abandoned

\* Stated by README.md and docs/architecture.md ("verified --> tap-issued"):
\* when nothing outside the portal fails, proof of identity leads to a pass.
ProofYieldsTap == request.state = "verified" ~> request.state = "tap-issued"

\* Stated by README.md, "skip-level approval": the link mailed to the skip manager
\* can be opened while the token is active.
SkipManagerLinkOpens ==
    "skip-manager" \in browser.mail
    /\ request.state = "manager-notified"
    /\ request.managerTokenStatus = "active"
    => ActivateManagerTokenAllowed(request, "skip-manager", FALSE)

\* Stated by the state diagram of docs/architecture.md: no transition leaves
\* complete.
NothingLeavesComplete ==
    [][request.state = "complete" => request'.state = "complete"]_vars

\* The portal keeps the promises of RequestLifecycle.
stage ==
    CASE request.state \in {"requested", "manager-notified", "employee-invited"} -> "waiting"
      [] request.state \in {"manager-approved", "credential-issued",
                            "credential-presented"} -> "approved"
      [] request.state = "verified" -> "proved"
      [] request.state = "tap-issued" -> "pass-issued"
      [] request.state = "passkey-registered" -> "registered"
      [] request.state = "complete" -> "complete"
      [] OTHER -> "closed"

Lifecycle == INSTANCE RequestLifecycle WITH
    working <- \E w \in Worker : handler[w].at \in TapPlaces,
    passes <- graph.taps,
    shown <- history.shown

\* Every step of the portal is a step of RequestLifecycle or leaves it unchanged.
KeepsLifecycle == Lifecycle!Spec
=============================================================================
