--------------------------- MODULE ApprovalHandlers ---------------------------
(***************************************************************************)
(* The handlers that carry a request to manager-approved, and the           *)
(* administrator's reset: the tail of the intake in v2-onboarding.js, the   *)
(* invitation routes there, and the approval, escalation and admin routes   *)
(* of v2-manager.js.                                                        *)
(***************************************************************************)
EXTENDS PortalState

\* Counts no further than "more than once".
Again(count) == IF count = 0 THEN 1 ELSE 2

-----------------------------------------------------------------------------
(* Intake, after createRequest *)

Mailed(token) == [browser EXCEPT !.mail = @ \cup {token}]

\* sendApprovalRequest mails the link before the row says so.  A send that is
\* reported as failed may have delivered it.
Notify(w) ==
    /\ At(w, "notify")
    /\ \/ /\ Step(w, Going("mark-notified"))
          /\ browser' = Mailed("direct-manager")
       \/ /\ "mail-fault" \in Events
          /\ Step(w, Going("mark-failed"))
          /\ browser' \in {browser, Mailed("direct-manager")}
    /\ UNCHANGED <<due, attempts, graph, history>>

MarkNotified(w) ==
    /\ At(w, "mark-notified")
    /\ IF MarkManagerNotifiedAllowed(request)
       THEN Write(w, MarkManagerNotified(request), Going("bind"))
       ELSE Step(w, Idle)
    /\ UNCHANGED <<due, attempts, graph, browser, history>>

\* markNotificationFailed changes nothing but the failure code.
MarkFailed(w) ==
    /\ At(w, "mark-failed")
    /\ IF request.state = "requested"
       THEN Write(w, request, Going("bind"))
       ELSE Step(w, Idle)
    /\ UNCHANGED <<due, attempts, graph, browser, history>>

\* The browser that sent the form gets the request's session.
BindEmployee(w) ==
    /\ At(w, "bind")
    /\ Step(w, Idle)
    /\ browser' = [browser EXCEPT !.bound = TRUE]
    /\ UNCHANGED <<due, attempts, graph, history>>

-----------------------------------------------------------------------------
(* Invitation *)

ActivateInvite ==
    /\ InviteOpen(request, "token" \in due)
    /\ ~browser.invited
    /\ browser' = [browser EXCEPT !.invited = TRUE]
    /\ UNCHANGED <<request, handler, due, attempts, graph, admin, history>>

\* The submitted identity is looked up in Graph and compared, and eligibility is
\* checked: any failure on the way counts as a failed confirmation.
SubmitInvite(w) ==
    /\ At(w, "idle")
    /\ browser.invited
    /\ \/ GroupCheckDefined /\ Step(w, Going("confirm-invite"))
       \/ Step(w, Going("invite-failed"))
    /\ UNCHANGED <<due, attempts, graph, browser, history>>

ConfirmInvite(w) ==
    /\ At(w, "confirm-invite")
    /\ IF InviteOpen(request, "token" \in due)
       THEN Write(w, ConfirmEmployeeInvite(request), Going("bind"))
       ELSE Step(w, Going("invite-failed"))
    /\ UNCHANGED <<due, attempts, graph, browser, history>>

InviteFailed(w) ==
    /\ At(w, "invite-failed")
    /\ IF InviteOpen(request, "token" \in due)
       THEN Write(w, RecordEmployeeInviteFailure(request), Idle)
       ELSE Step(w, Idle)
    /\ UNCHANGED <<due, attempts, graph, browser, history>>

-----------------------------------------------------------------------------
(* The approval link and the sign-in *)

\* A mailed link is opened by its addressee, or by whom it is forwarded to.
ActivateToken(a, token) ==
    /\ token \in browser.mail
    /\ a = token \/ "forwarded-link" \in Events
    /\ <<a, token>> \notin browser.preAuth
    /\ ActivateManagerTokenAllowed(request, token, "token" \in due)
    /\ browser' = [browser EXCEPT !.preAuth = @ \cup {<<a, token>>}]
    /\ UNCHANGED <<request, handler, due, attempts, graph, admin, history>>

\* GET /auth/manager/signin: the row remembers the latest sign-in only, and the
\* identity provider will hand that browser one authorization code.
SignIn(w, a, token) ==
    /\ At(w, "idle")
    /\ <<a, token>> \in browser.preAuth
    /\ BeginManagerSignInAllowed(request, token)
    /\ Write(w, BeginManagerSignIn(request, a), Idle)
    /\ browser' = [browser EXCEPT !.codes = @ \cup {a}]
    /\ UNCHANGED <<due, attempts, graph, history>>

\* POST /auth/manager/callback: the flow is loaded, the code is exchanged (once)
\* and the live relationship is checked against the row that was loaded; anything
\* wrong is recorded as a failed authentication.
SignInCallback(w, a) ==
    /\ At(w, "idle")
    /\ a \in browser.codes
    /\ LoadManagerAuthFlowAllowed(request, a)
    /\ browser' = [browser EXCEPT !.codes = @ \ {a}]
    /\ \/ /\ EligibleApprover(request, a)
          /\ Step(w, [Going("redeem") EXCEPT !.approver = a])
       \/ /\ ~EligibleApprover(request, a) \/ "graph-fault" \in Events
          /\ Write(w, request, Idle)
    /\ UNCHANGED <<due, attempts, graph, history>>

\* A refusal is recorded on the row if the sign-in can still be loaded.
Redeem(w) ==
    LET a == handler[w].approver
    IN  /\ At(w, "redeem")
        /\ IF RedeemManagerTokenAllowed(request, a, "token" \in due)
           THEN /\ Write(w, RedeemManagerToken(request),
                         [handler[w] EXCEPT !.at = "save-session"])
                /\ history' = [history EXCEPT !.redeemedSinceArmed = Again(@)]
           ELSE /\ IF LoadManagerAuthFlowAllowed(request, a)
                   THEN Write(w, request, Idle)
                   ELSE Step(w, Idle)
                /\ UNCHANGED history
        /\ UNCHANGED <<due, attempts, graph, browser>>

\* The token is spent whether or not the session can be saved.
SaveManagerSession(w) ==
    /\ At(w, "save-session")
    /\ Step(w, Idle)
    /\ \/ browser' = [browser EXCEPT !.signedIn = @ \cup {handler[w].approver}]
       \/ "session-fault" \in Events /\ UNCHANGED browser
    /\ UNCHANGED <<due, attempts, graph, history>>

-----------------------------------------------------------------------------
(* Decision *)

\* loadRequest, then the live relationship: a changed one is only recorded.
OpenDecision(w, a) ==
    /\ At(w, "idle")
    /\ a \in browser.signedIn
    /\ Live
    /\ \/ /\ EligibleApprover(request, a)
          /\ Step(w, [Going("decide") EXCEPT !.approver = a])
       \/ /\ ~EligibleApprover(request, a) \/ "graph-fault" \in Events
          /\ request.state = "manager-notified"
          /\ Write(w, request, Idle)
    /\ UNCHANGED <<due, attempts, graph, browser, history>>

RecordDecision(w, decision) ==
    /\ At(w, "decide")
    /\ IF DecideAllowed(request, handler[w].approver)
       THEN Write(w, Decide(request, handler[w].approver, decision), Idle)
       ELSE Step(w, Idle)
    /\ UNCHANGED <<due, attempts, graph, browser, history>>

-----------------------------------------------------------------------------
(* Escalation by the employee *)

OpenEscalation(w) ==
    /\ "escalation" \in Events
    /\ At(w, "idle")
    /\ browser.bound
    /\ Live
    /\ Step(w, Going("escalate"))
    /\ UNCHANGED <<due, attempts, graph, browser, history>>

Escalate(w) ==
    /\ At(w, "escalate")
    /\ IF EscalateAllowed(request)
       THEN /\ Write(w, EscalateToSkipManager(request), Going("mail-skip"))
            /\ history' = [history EXCEPT !.redeemedSinceArmed = 0]
       ELSE Step(w, Idle) /\ UNCHANGED history
    /\ UNCHANGED <<due, attempts, graph, browser>>

MailSkipManager(w) ==
    /\ At(w, "mail-skip")
    /\ Step(w, Idle)
    /\ \/ browser' = Mailed("skip-manager")
       \/ "mail-fault" \in Events /\ UNCHANGED browser
    /\ UNCHANGED <<due, attempts, graph, history>>

-----------------------------------------------------------------------------
(* The administrator *)

\* The lookup returns the row with its etag; nothing expires it.
AdminLookup ==
    /\ "admin" \in Events
    /\ ~admin.fresh
    /\ admin' = [seen |-> request.state, fresh |-> TRUE]
    /\ UNCHANGED <<request, handler, due, attempts, graph, browser, history>>

\* A reset ends every redemption that came before, and then reloads the request.
AdminReset(w, action) ==
    /\ "admin" \in Events
    /\ At(w, "idle")
    /\ admin.seen # None
    /\ AdminResetAllowed(request, admin.fresh)
    /\ LET row == AdminResetRequest(request, action)
       IN  Write(w, row, IF LapsedOnLoad(row, "request" \in due)
                         THEN Going("expire") ELSE Idle)
    /\ history' = [history EXCEPT !.redeemedSinceArmed = 0]
    /\ UNCHANGED <<due, attempts, graph, browser>>
=============================================================================
