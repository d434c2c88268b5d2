------------------------------ MODULE TapHandlers ------------------------------
(***************************************************************************)
(* issueTapOnce as the presentation callback runs it, and the employee's    *)
(* routes in v2-passkey.js: display the pass, confirm the passkey, finish.  *)
(***************************************************************************)
EXTENDS PortalState

-----------------------------------------------------------------------------
(* issueTapOnce *)

Abandon(flag) == history' = [history EXCEPT !.abandoned = flag]

\* The handler owns the operation exactly when its own update was applied.  MaxTaps
\* bounds the claims, so that no operation is left without a pass to create.  An
\* update that throws ends the handler before its try block: nobody works on a claim
\* that was stored all the same.
ClaimTapStep(w) ==
    /\ At(w, "claim-tap")
    /\ graph.taps < MaxTaps
    /\ \/ /\ ClaimTapAllowed(request)
          /\ \/ /\ Write(w, ClaimTap(request, w), [handler[w] EXCEPT !.at = "check-tap"])
                /\ Abandon(FALSE)
             \/ /\ StorageFault
                /\ Write(w, ClaimTap(request, w), Idle) \/ Step(w, Idle)
                /\ Abandon(TRUE)
       \/ /\ ~ClaimTapAllowed(request)
          /\ Step(w, Idle)
          /\ UNCHANGED history
    /\ UNCHANGED <<due, attempts, graph, browser>>

\* getEligiblePilotUser, then listFido2Methods.  Called without dependencies, the
\* first evaluates the identifier isUserInGroup, which graph-service.js does not
\* define; GroupCheckDefined says that a caller supplied one, as the tests do.
CheckEligibility(w) ==
    /\ At(w, "check-tap")
    /\ \/ /\ GroupCheckDefined
          /\ Step(w, [handler[w] EXCEPT !.at = "create-tap", !.methods = graph.methods])
       \/ /\ ~GroupCheckDefined \/ "graph-fault" \in Events
          /\ Step(w, [handler[w] EXCEPT !.at = "fail-tap"])
    /\ UNCHANGED <<due, attempts, graph, browser, history>>

\* A failed call may still have created the pass.
CreateTap(w) ==
    LET tap == graph.taps + 1
    IN  /\ At(w, "create-tap")
        /\ tap <= MaxTaps
        /\ \/ /\ Step(w, [handler[w] EXCEPT !.at = "record-tap", !.tap = tap])
              /\ graph' = [graph EXCEPT !.taps = tap]
           \/ /\ "graph-fault" \in Events
              /\ Step(w, [handler[w] EXCEPT !.at = "fail-tap"])
              /\ graph' = [graph EXCEPT !.taps = tap] \/ UNCHANGED graph
        /\ UNCHANGED <<due, attempts, browser, history>>

\* If the update throws although it was stored, the row's new state refuses the
\* record of the failure, so that the handler ends as after a success.
RecordTapStep(w) ==
    /\ At(w, "record-tap")
    /\ \/ /\ RecordTapAllowed(request, w)
          /\ Write(w, RecordTap(request, handler[w].tap, handler[w].methods), Idle)
       \/ /\ ~RecordTapAllowed(request, w) \/ StorageFault
          /\ Step(w, [handler[w] EXCEPT !.at = "fail-tap"])
    /\ UNCHANGED <<due, attempts, graph, browser, history>>

\* An error of this update is swallowed (.catch(() => {})), and the row goes on
\* saying that a pass is being created.
FailTapStep(w) ==
    /\ At(w, "fail-tap")
    /\ \/ /\ FailTapAllowed(request, w)
          /\ \/ Write(w, FailTap(request), Idle) /\ UNCHANGED history
             \/ StorageFault /\ Step(w, Idle) /\ Abandon(TRUE)
       \/ /\ ~FailTapAllowed(request, w)
          /\ Step(w, Idle)
          /\ UNCHANGED history
    /\ UNCHANGED <<due, attempts, graph, browser>>

-----------------------------------------------------------------------------
(* The employee's routes *)

\* loadBoundRequest, then the route's own test of the state it loaded.
OpenRoute(w, place) ==
    /\ At(w, "idle")
    /\ browser.bound
    /\ Live
    /\ request.state = "tap-issued"
    /\ Step(w, Going(place))
    /\ UNCHANGED <<due, attempts, graph, browser, history>>

OpenDisplay(w) == OpenRoute(w, "take")

OpenConfirm(w) == OpenRoute(w, "list-methods")

\* A completed request is only shown again, which ends the employee's session.
\* In any other state complete() refuses: opening the page then is left out.
OpenComplete(w) ==
    /\ At(w, "idle")
    /\ browser.bound
    /\ Live
    /\ request.state \in {"passkey-registered", "complete"}
    /\ IF request.state = "complete"
       THEN /\ Step(w, Idle)
            /\ browser' = [browser EXCEPT !.bound = FALSE]
       ELSE Step(w, Going("complete")) /\ UNCHANGED browser
    /\ UNCHANGED <<due, attempts, graph, history>>

\* takeTapForDisplay: the page that shows the pass is rendered from its result, and
\* not at all if the update throws after it was stored.
DisplayTap(w) ==
    /\ At(w, "take")
    /\ IF TakeTapAllowed(request)
       THEN /\ Write(w, TakeTapForDisplay(request), Idle)
            /\ \/ history' = [history EXCEPT !.shown = @ \cup {request.tapProtected}]
               \/ StorageFault /\ UNCHANGED history
       ELSE Step(w, Idle) /\ UNCHANGED history
    /\ UNCHANGED <<due, attempts, graph, browser>>

ListMethods(w) ==
    /\ At(w, "list-methods")
    /\ Step(w, [handler[w] EXCEPT !.at = "confirm", !.methods = graph.methods])
    /\ UNCHANGED <<due, attempts, graph, browser, history>>

Confirm(w) ==
    /\ At(w, "confirm")
    /\ IF ConfirmPasskeyAllowed(request, handler[w].methods)
       THEN \E key \in NewMethods(request, handler[w].methods) :
                Write(w, ConfirmPasskey(request, key), Idle)
       ELSE Step(w, Idle)
    /\ UNCHANGED <<due, attempts, graph, browser, history>>

\* The employee's session is destroyed, unless the update throws after it was stored,
\* and the page is rendered.
CompleteStep(w) ==
    /\ At(w, "complete")
    /\ IF CompleteAllowed(request)
       THEN /\ Write(w, Complete(request), Idle)
            /\ \/ browser' = [browser EXCEPT !.bound = FALSE]
               \/ StorageFault /\ UNCHANGED browser
       ELSE Step(w, Idle) /\ UNCHANGED browser
    /\ UNCHANGED <<due, attempts, graph, history>>
=============================================================================
