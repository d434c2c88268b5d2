---------------------------- MODULE RecoveryHandlers ----------------------------
(***************************************************************************)
(* The employee's routes and the Verified ID callback of v2-recovery.js:    *)
(* from the approved request through the presentation and the revocation    *)
(* of every passkey to the replacement.                                     *)
(***************************************************************************)
EXTENDS RecoveryState, FiniteSets

Named(n) == attempts[n] # {}

Happens(n, event) == attempts' = [attempts EXCEPT ![n] = @ \cup {event}]

\* loadBoundRecoveryRequest, then the route's own test of the state it loaded.
OpenRoute(w, states, place) ==
    /\ At(w, "idle")
    /\ browser.bound
    /\ Live
    /\ request.state \in states
    /\ Step(w, Going(place))
    /\ UNCHANGED <<attempts, graph, browser, history>>

-----------------------------------------------------------------------------
(* POST .../presentation/requests *)

OpenPresentation(w) ==
    OpenRoute(w, {"manager-approved", "credential-presented"}, "begin")

\* A fresh callback state is drawn for every attempt; a new window opens.
Begin(w) ==
    /\ At(w, "begin")
    /\ IF BeginPresentationAllowed(request, "presentation" \in due)
       THEN \E n \in Attempt :
                /\ ~Named(n)
                /\ \A m \in 1 .. n - 1 : Named(m)
                /\ WriteAnew(w, BeginPresentation(request, n),
                             [Going("create") EXCEPT !.n = n])
                /\ Happens(n, "named")
       ELSE Step(w, Idle) /\ UNCHANGED attempts
    /\ UNCHANGED <<graph, browser, history>>

\* The employee is looked up in Graph first; a failed call of the service may still
\* have created the request.  An update of Begin that throws after it was stored
\* leads to the same place, without the calls.
Create(w) ==
    LET local == handler[w]
    IN  /\ At(w, "create")
        /\ \/ /\ Step(w, [local EXCEPT !.at = "attach"])
              /\ Happens(local.n, "created")
           \/ /\ Events \cap {"graph-fault", "service-fault", "storage-fault"} # {}
              /\ Step(w, [local EXCEPT !.at = "fail"])
              /\ \/ UNCHANGED attempts
                 \/ "service-fault" \in Events /\ Happens(local.n, "created")
        /\ UNCHANGED <<graph, browser, history>>

\* The service's own expiry replaces the portal's.  A handler whose update throws
\* goes on to fail the presentation, which may be active by then.
Attach(w) ==
    LET n      == handler[w].n
        failed == [handler[w] EXCEPT !.at = "fail"]
    IN  /\ At(w, "attach")
        /\ \/ /\ AttachPresentationAllowed(request, n)
              /\ \/ WriteAnew(w, AttachPresentation(request, n), Idle)
                 \/ StorageFault /\ WriteAnew(w, AttachPresentation(request, n), failed)
           \/ /\ ~AttachPresentationAllowed(request, n) \/ StorageFault
              /\ Step(w, failed)
        /\ UNCHANGED <<attempts, graph, browser, history>>

\* An error of this update is swallowed.
Fail(w) ==
    /\ At(w, "fail")
    /\ \/ /\ FailPresentationAllowed(request, handler[w].n)
          /\ Write(w, FailPresentation(request), Idle)
       \/ /\ ~FailPresentationAllowed(request, handler[w].n) \/ StorageFault
          /\ Step(w, Idle)
    /\ UNCHANGED <<attempts, graph, browser, history>>

\* The code is scanned; then the presentation succeeds, fails or delivers a
\* credential that the portal will reject ("bad").
Wallet(n, event) ==
    /\ "created" \in attempts[n]
    /\ attempts[n] \cap {"success", "bad", "error"} = {}
    /\ \/ event = "retrieved" /\ event \notin attempts[n]
       \/ event = "error" /\ "service-fault" \in Events
       \/ event \in {"success", "bad"} /\ "retrieved" \in attempts[n]
    /\ Happens(n, event)
    /\ UNCHANGED <<request, handler, due, graph, browser, history>>

-----------------------------------------------------------------------------
(* POST .../presentation/callback *)

\* What the handler does next, from the state of the row it looked up.
AfterLookup(state, event) ==
    CASE event = "retrieved" /\ state \notin
             {"credential-presented", "verified", "passkeys-revoked", "tap-issued"}
             -> "callback"
      [] event = "error" /\ state \notin {"verified", "passkeys-revoked", "tap-issued"}
             -> "callback"
      [] event = "bad" -> "callback"
      [] event = "success" /\ state = "credential-presented" -> "callback"
      [] event = "success" /\ state = "verified" -> "claim"
      [] OTHER -> "idle"

\* The service repeats its callbacks and delivers them late and in any order.
CallbackArrives(w, n, event) ==
    LET next == AfterLookup(request.state, event)
    IN  /\ At(w, "idle")
        /\ event \in attempts[n] \ {"named", "created"}
        /\ Correlated(request, n)
        /\ next # "idle"
        /\ Step(w, [Going(next) EXCEPT !.status = event])
        /\ UNCHANGED <<attempts, graph, browser, history>>

ReportAllowed(event) ==
    CASE event = "retrieved" -> HandlePresentationRetrievedAllowed(request)
      [] event = "error"     -> HandlePresentationErrorAllowed(request)
      [] event = "bad"       -> RecordVerificationFailureAllowed(request)

ReportRow(event) ==
    CASE event = "retrieved" -> HandlePresentationRetrieved(request)
      [] event = "error"     -> HandlePresentationError(request)
      [] event = "bad"       -> RecordVerificationFailure(request)

ApplyReport(w) ==
    /\ At(w, "callback")
    /\ handler[w].status # "success"
    /\ IF ReportAllowed(handler[w].status)
       THEN Write(w, ReportRow(handler[w].status), Idle)
       ELSE Step(w, Idle)
    /\ UNCHANGED <<attempts, graph, browser, history>>

\* The same handler goes on to revoke.
ApplySuccess(w) ==
    /\ At(w, "callback")
    /\ handler[w].status = "success"
    /\ IF MarkVerifiedAllowed(request)
       THEN /\ Write(w, MarkVerified(request), Going("claim"))
            /\ history' = [history EXCEPT !.methodsAtProof = graph.methods]
       ELSE Step(w, Idle) /\ UNCHANGED history
    /\ UNCHANGED <<attempts, graph, browser>>

-----------------------------------------------------------------------------
(* revokePasskeysAndIssueTap *)

Abandon(flag) == history' = [history EXCEPT !.abandoned = flag]

\* MaxTaps bounds the claims, so that every operation has a pass to create.  An update
\* that throws ends the handler.  So does a stored claim whose answer was lost and
\* which is sent again: its own write has left "verified", the only state allowed.
Claim(w) ==
    /\ At(w, "claim")
    /\ graph.taps + Cardinality({v \in Worker : Revoking(v)}) < MaxTaps
    /\ \/ /\ ClaimRevocationAllowed(request)
          /\ \/ Write(w, ClaimRevocation(request, w), Going("check")) /\ Abandon(FALSE)
             \/ /\ StorageFault
                /\ Write(w, ClaimRevocation(request, w), Idle)
                /\ Abandon(TRUE)
       \/ /\ ~ClaimRevocationAllowed(request) \/ StorageFault
          /\ Step(w, Idle)
          /\ UNCHANGED history
    /\ UNCHANGED <<attempts, graph, browser>>

GoFail(w) == Step(w, Going("fail-tap"))

\* getEligiblePilotUser (see CheckEligibility of TapHandlers), then the list of
\* revokeAllFido2Methods.
CheckAndList(w) ==
    /\ At(w, "check")
    /\ \/ /\ GroupCheckDefined
          /\ Step(w, [Going("revoke") EXCEPT !.methods = graph.methods,
                                             !.left = graph.methods])
       \/ (~GroupCheckDefined \/ "graph-fault" \in Events) /\ GoFail(w)
    /\ UNCHANGED <<attempts, graph, browser, history>>

\* Methods are deleted one after the other.  A failed call may have deleted the
\* method; deleting one that has gone is an error.
Revoke(w) ==
    /\ At(w, "revoke")
    /\ handler[w].left # {}
    /\ \E key \in handler[w].left :
          LET deleted == graph' = [graph EXCEPT !.methods = @ \ {key}]
          IN  \/ /\ key \in graph.methods
                 /\ Step(w, [handler[w] EXCEPT !.left = @ \ {key}])
                 /\ deleted
              \/ /\ key \notin graph.methods \/ "graph-fault" \in Events
                 /\ GoFail(w)
                 /\ deleted \/ UNCHANGED graph
    /\ UNCHANGED <<attempts, browser, history>>

\* Faulty: the pass is made while methods are left.
AllRevokedIgnored(w) == TRUE

AllRevoked(w) == handler[w].left = {}

\* A failed call may still have created the pass.
CreateTap(w) ==
    LET tap == graph.taps + 1
    IN  /\ At(w, "revoke")
        /\ AllRevoked(w)
        /\ tap <= MaxTaps
        /\ \/ /\ Step(w, [handler[w] EXCEPT !.at = "record-tap", !.tap = tap])
              /\ graph' = [graph EXCEPT !.taps = tap]
           \/ /\ "graph-fault" \in Events
              /\ GoFail(w)
              /\ graph' = [graph EXCEPT !.taps = tap] \/ UNCHANGED graph
        /\ UNCHANGED <<attempts, browser, history>>

\* If the update throws although it was stored, the row's new state refuses the
\* record of the failure, so that the handler ends as after a success.
RecordTapStep(w) ==
    /\ At(w, "record-tap")
    /\ \/ /\ RecordTapAllowed(request, w)
          /\ Write(w, RecordTap(request, handler[w].tap, handler[w].methods), Idle)
       \/ (~RecordTapAllowed(request, w) \/ StorageFault) /\ GoFail(w)
    /\ UNCHANGED <<attempts, graph, browser, history>>

\* An error of this update is swallowed (.catch(() => {})), and the row goes on
\* saying that an operation is under way.
FailTapStep(w) ==
    /\ At(w, "fail-tap")
    /\ \/ /\ FailTapAllowed(request, w)
          /\ \/ Write(w, FailTap(request), Idle) /\ UNCHANGED history
             \/ StorageFault /\ Step(w, Idle) /\ Abandon(TRUE)
       \/ /\ ~FailTapAllowed(request, w)
          /\ Step(w, Idle)
          /\ UNCHANGED history
    /\ UNCHANGED <<attempts, graph, browser>>

-----------------------------------------------------------------------------
(* The replacement passkey *)

OpenDisplay(w) == OpenRoute(w, {"tap-issued"}, "take")

OpenConfirm(w) == OpenRoute(w, {"tap-issued"}, "list-methods")

\* A completed request is only shown again, which ends the employee's session.
OpenComplete(w) ==
    \/ OpenRoute(w, {"passkey-registered"}, "complete")
    \/ /\ At(w, "idle")
       /\ browser.bound
       /\ request.state = "complete"
       /\ Step(w, Idle)
       /\ browser' = [browser EXCEPT !.bound = FALSE]
       /\ UNCHANGED <<attempts, graph, history>>

\* takeTapForDisplay: the page that shows the pass is rendered from its result.
DisplayTap(w) ==
    /\ At(w, "take")
    /\ IF TakeTapAllowed(request)
       THEN Write(w, TakeTapForDisplay(request), Idle)
       ELSE Step(w, Idle)
    /\ UNCHANGED <<attempts, graph, browser, history>>

ListMethods(w) ==
    /\ At(w, "list-methods")
    /\ Step(w, [Going("confirm") EXCEPT !.methods = graph.methods])
    /\ UNCHANGED <<attempts, graph, browser, history>>

Confirm(w) ==
    /\ At(w, "confirm")
    /\ IF ConfirmPasskeyAllowed(request, handler[w].methods)
       THEN \E key \in NewMethods(request, handler[w].methods) :
                Write(w, ConfirmPasskey(request, key), Idle)
       ELSE Step(w, Idle)
    /\ UNCHANGED <<attempts, graph, browser, history>>

\* The employee's session is destroyed, which may fail, before the page is rendered.
CompleteStep(w) ==
    /\ At(w, "complete")
    /\ IF CompleteAllowed(request)
       THEN /\ Write(w, Complete(request), Idle)
            /\ \/ browser' = [browser EXCEPT !.bound = FALSE]
               \/ ("session-fault" \in Events \/ StorageFault) /\ UNCHANGED browser
       ELSE Step(w, Idle) /\ UNCHANGED browser
    /\ UNCHANGED <<attempts, graph, history>>
=============================================================================
