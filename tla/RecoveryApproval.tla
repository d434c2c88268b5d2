---------------------------- MODULE RecoveryApproval ----------------------------
(***************************************************************************)
(* How a recovery request is approved: the tail of the intake in            *)
(* v2-recovery.js, and the approval, escalation and admin routes that       *)
(* v2-manager.js shares between onboarding and recovery.                    *)
(***************************************************************************)
EXTENDS RecoveryState

-----------------------------------------------------------------------------
(* POST /api/v2/recovery/requests, after createRecoveryRequest *)

Mailed == [browser EXCEPT !.mail = TRUE]

\* The link is mailed before the row says so, and may arrive although the send
\* is reported as failed.
Notify(w) ==
    /\ At(w, "notify")
    /\ \/ /\ Step(w, Going("mark-notified"))
          /\ browser' = Mailed
       \/ /\ "mail-fault" \in Events
          /\ Step(w, Going("mark-failed"))
          /\ browser' \in {browser, Mailed}
    /\ UNCHANGED <<attempts, graph, history>>

\* A refused mark ends the handler before the browser is bound.
MarkNotified(w) ==
    /\ At(w, "mark-notified")
    /\ IF MarkManagerNotifiedAllowed(request)
       THEN Write(w, MarkManagerNotified(request), Going("bind"))
       ELSE Step(w, Idle)
    /\ UNCHANGED <<attempts, graph, browser, history>>

\* markNotificationFailed changes nothing but the failure code.
MarkFailed(w) ==
    /\ At(w, "mark-failed")
    /\ Step(w, IF request.state = "requested" THEN Going("bind") ELSE Idle)
    /\ UNCHANGED <<attempts, graph, browser, history>>

\* The session is regenerated, which may fail, and holds the request from then on.
BindEmployee(w) ==
    /\ At(w, "bind")
    /\ Step(w, Idle)
    /\ \/ browser' = [browser EXCEPT !.bound = TRUE]
       \/ "session-fault" \in Events /\ UNCHANGED browser
    /\ UNCHANGED <<attempts, graph, history>>

-----------------------------------------------------------------------------
(* The direct manager: activation, sign-in and decision *)

\* The link is opened and the sign-in begun.
SignIn(w) ==
    /\ At(w, "idle")
    /\ browser.mail
    /\ ActivateManagerTokenAllowed(request, "request" \in due)
    /\ BeginManagerSignInAllowed(request)
    /\ Write(w, BeginManagerSignIn(request), Idle)
    /\ UNCHANGED <<attempts, graph, browser, history>>

\* The flow is loaded, the code exchanged and the live relationship checked.  What
\* fails is recorded as a failed authentication, which changes the audit fields.
SignInCallback(w) ==
    /\ At(w, "idle")
    /\ LoadManagerAuthFlowAllowed(request)
    /\ Step(w, Going("redeem"))
    /\ UNCHANGED <<attempts, graph, browser, history>>

Redeem(w) ==
    /\ At(w, "redeem")
    /\ IF RedeemManagerTokenAllowed(request, "request" \in due)
       THEN Write(w, RedeemManagerToken(request), Going("save-session"))
       ELSE Step(w, Idle)
    /\ UNCHANGED <<attempts, graph, browser, history>>

\* The token is spent whether or not the session can be saved.
SaveManagerSession(w) ==
    /\ At(w, "save-session")
    /\ Step(w, Idle)
    /\ \/ browser' = [browser EXCEPT !.signedIn = TRUE]
       \/ "session-fault" \in Events /\ UNCHANGED browser
    /\ UNCHANGED <<attempts, graph, history>>

OpenDecision(w) ==
    /\ At(w, "idle")
    /\ browser.signedIn
    /\ Live
    /\ Step(w, Going("decide"))
    /\ UNCHANGED <<attempts, graph, browser, history>>

RecordDecision(w, decision) ==
    /\ At(w, "decide")
    /\ IF DecideAllowed(request)
       THEN /\ Write(w, Decide(request, decision), Idle)
            /\ history' = [history EXCEPT !.approved = decision = "approve"]
       ELSE Step(w, Idle) /\ UNCHANGED history
    /\ UNCHANGED <<attempts, graph, browser>>

-----------------------------------------------------------------------------
(* Escalation and the administrator's reset *)

OpenEscalation(w) ==
    /\ "escalation" \in Events
    /\ At(w, "idle")
    /\ browser.bound
    /\ Live
    /\ Step(w, Going("escalate"))
    /\ UNCHANGED <<attempts, graph, browser, history>>

\* What is mailed to the skip manager afterwards opens nothing.
Escalate(w) ==
    /\ At(w, "escalate")
    /\ IF EscalateAllowed(request)
       THEN Write(w, EscalateToSkipManager(request), Idle)
       ELSE Step(w, Idle)
    /\ UNCHANGED <<attempts, graph, browser, history>>

\* A restart ends the approval.  It overtakes the handlers that go on to change
\* Graph, or to confirm a passkey, with what they read before.
AdminReset(w, action) ==
    /\ "admin" \in Events
    /\ At(w, "idle")
    /\ AdminResetAllowed(request)
    /\ LET row == AdminResetRequest(request, action)
       IN  Write(w, row, IF LapsedOnLoad(row, "request" \in due)
                         THEN Going("expire") ELSE Idle)
    /\ history' = [approved |-> FALSE, methodsAtProof |-> {}, abandoned |-> FALSE,
                   overtaken |-> \/ history.overtaken
                                 \/ \E v \in Worker : Revoking(v) \/ At(v, "confirm")]
    /\ UNCHANGED <<attempts, graph, browser>>
=============================================================================
