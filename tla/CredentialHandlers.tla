-------------------------- MODULE CredentialHandlers --------------------------
(***************************************************************************)
(* The four handlers of v2-verified-id.js that carry an approved request to *)
(* verified, and the Verified ID service they talk to.  The service calls   *)
(* back at least once for each event, at any later time and in any order.   *)
(***************************************************************************)
EXTENDS PortalState

ExchangeOf(r, kind) == IF kind = "issuance" THEN r.issuance ELSE r.presentation

Named(kind, n) == attempts[kind][n] # {}

Happens(kind, n, event) ==
    attempts' = [attempts EXCEPT ![kind][n] = @ \cup {event}]

-----------------------------------------------------------------------------
(* POST .../issuance/requests and POST .../presentation/requests *)

Startable(kind) ==
    IF kind = "issuance" THEN {"manager-approved"}
    ELSE {"credential-issued", "credential-presented"}

OpenExchange(w, kind) ==
    /\ At(w, "idle")
    /\ browser.bound
    /\ Live
    /\ request.state \in Startable(kind)
    /\ Step(w, [Going("begin") EXCEPT !.kind = kind])
    /\ UNCHANGED <<due, attempts, graph, browser, history>>

BeginAllowed(kind) ==
    IF kind = "issuance"
    THEN BeginIssuanceAllowed(request, kind \in due)
    ELSE BeginPresentationAllowed(request, kind \in due)

BeginRow(kind, n) ==
    IF kind = "issuance" THEN BeginIssuance(request, n)
    ELSE BeginPresentation(request, n)

\* A fresh callback state is drawn for every attempt; a new window opens.
Begin(w) ==
    LET kind == handler[w].kind
    IN  /\ At(w, "begin")
        /\ \/ /\ BeginAllowed(kind)
              /\ \E n \in Attempt :
                    /\ ~Named(kind, n)
                    /\ \A m \in 1 .. n - 1 : Named(kind, m)
                    /\ Write(w, BeginRow(kind, n),
                             [handler[w] EXCEPT !.at = "create", !.n = n])
                    /\ Happens(kind, n, "named")
              /\ due' = due \ {kind}
           \/ /\ ~BeginAllowed(kind) \/ "graph-fault" \in Events
              /\ Step(w, Idle)
              /\ UNCHANGED <<due, attempts>>
        /\ UNCHANGED <<graph, browser, history>>

\* A failed call may still have created the request at the service.  An update of
\* Begin that throws after it was stored leads to the same place, without the call.
Create(w) ==
    LET local == handler[w]
    IN  /\ At(w, "create")
        /\ \/ /\ Step(w, [local EXCEPT !.at = "attach"])
              /\ Happens(local.kind, local.n, "created")
           \/ /\ "service-fault" \in Events \/ StorageFault
              /\ Step(w, [local EXCEPT !.at = "fail"])
              /\ \/ UNCHANGED attempts
                 \/ "service-fault" \in Events /\ Happens(local.kind, local.n, "created")
        /\ UNCHANGED <<due, graph, browser, history>>

AttachAllowed(kind, n) ==
    IF kind = "issuance" THEN AttachIssuanceAllowed(request, n)
    ELSE AttachPresentationAllowed(request, n)

AttachRow(kind, n) ==
    IF kind = "issuance" THEN AttachIssuance(request, n)
    ELSE AttachPresentation(request, n)

\* The service's own expiry replaces the portal's.  A handler whose update throws
\* goes on to fail the exchange, which may be active by then.
Attach(w) ==
    LET local  == handler[w]
        failed == [local EXCEPT !.at = "fail"]
    IN  /\ At(w, "attach")
        /\ \/ /\ AttachAllowed(local.kind, local.n)
              /\ \/ Write(w, AttachRow(local.kind, local.n), Idle)
                 \/ StorageFault /\ Write(w, AttachRow(local.kind, local.n), failed)
              /\ due' = due \ {local.kind}
           \/ /\ ~AttachAllowed(local.kind, local.n) \/ StorageFault
              /\ Step(w, failed)
              /\ UNCHANGED due
        /\ UNCHANGED <<attempts, graph, browser, history>>

FailAllowed(kind, n) ==
    IF kind = "issuance" THEN FailIssuanceAllowed(request, n)
    ELSE FailPresentationAllowed(request, n)

FailRow(kind) ==
    IF kind = "issuance" THEN FailIssuance(request) ELSE FailPresentation(request)

\* An error of this update is swallowed.
Fail(w) ==
    LET local == handler[w]
    IN  /\ At(w, "fail")
        /\ \/ /\ FailAllowed(local.kind, local.n)
              /\ Write(w, FailRow(local.kind), Idle)
           \/ /\ ~FailAllowed(local.kind, local.n) \/ StorageFault
              /\ Step(w, Idle)
        /\ UNCHANGED <<due, attempts, graph, browser, history>>

-----------------------------------------------------------------------------
(* The wallet, at the Verified ID service *)

Final(kind) ==
    IF kind = "issuance" THEN {"success", "error"} ELSE {"success", "bad", "error"}

\* The code is scanned; the exchange then succeeds, fails or, for a presentation,
\* delivers a credential that the portal will reject ("bad").
Wallet(kind, n, event) ==
    /\ "created" \in attempts[kind][n]
    /\ attempts[kind][n] \cap Final(kind) = {}
    /\ \/ event = "retrieved" /\ event \notin attempts[kind][n]
       \/ event = "error" /\ "service-fault" \in Events
       \/ /\ event \in Final(kind) \ {"error"}
          /\ "retrieved" \in attempts[kind][n]
    /\ Happens(kind, n, event)
    /\ UNCHANGED <<request, handler, due, graph, browser, admin, history>>

-----------------------------------------------------------------------------
(* POST .../issuance/callback *)

IssuanceCallbackArrives(w, n, event) ==
    /\ At(w, "idle")
    /\ event \in attempts["issuance"][n] \cap {"retrieved", "error", "success"}
    /\ IssuanceCallbackAccepted(request, n)
    /\ Step(w, [Going("callback") EXCEPT !.kind = "issuance", !.status = event])
    /\ UNCHANGED <<due, attempts, graph, browser, history>>

ApplyIssuanceCallback(w) ==
    /\ At(w, "callback")
    /\ handler[w].kind = "issuance"
    /\ IF IssuanceCallbackAllowed(request)
       THEN Write(w, IssuanceCallback(request, handler[w].status), Idle)
       ELSE Step(w, Idle)
    /\ UNCHANGED <<due, attempts, graph, browser, history>>

-----------------------------------------------------------------------------
(* POST .../presentation/callback *)

\* What the handler does next, from the state of the row it looked up.
AfterLookup(state, event) ==
    CASE event = "retrieved" /\ state \notin
             {"credential-presented", "verified", "tap-issued"} -> "callback"
      [] event = "error" /\ state \notin {"verified", "tap-issued"} -> "callback"
      [] event = "bad" -> "callback"
      [] event = "success" /\ state = "credential-presented" -> "callback"
      [] event = "success" /\ state \in {"verified", "tap-issued"} -> "claim-tap"
      [] OTHER -> "idle"

PresentationCallbackArrives(w, n, event) ==
    LET next == AfterLookup(request.state, event)
    IN  /\ At(w, "idle")
        /\ event \in attempts["presentation"][n] \ {"named", "created"}
        /\ Correlated(request.presentation, n)
        /\ next # "idle"
        /\ Step(w, [Going(next) EXCEPT !.kind = "presentation", !.status = event])
        /\ UNCHANGED <<due, attempts, graph, browser, history>>

ReportAllowed(event) ==
    CASE event = "retrieved" -> HandlePresentationRetrievedAllowed(request)
      [] event = "error"     -> HandlePresentationErrorAllowed(request)
      [] event = "bad"       -> RecordVerificationFailureAllowed(request)

ReportRow(event) ==
    CASE event = "retrieved" -> HandlePresentationRetrieved(request)
      [] event = "error"     -> HandlePresentationError(request)
      [] event = "bad"       -> RecordVerificationFailure(request)

\* handlePresentationRetrieved, handlePresentationError, recordVerificationFailure.
ApplyPresentationReport(w) ==
    /\ At(w, "callback")
    /\ handler[w].kind = "presentation"
    /\ handler[w].status # "success"
    /\ IF ReportAllowed(handler[w].status)
       THEN Write(w, ReportRow(handler[w].status), Idle)
       ELSE Step(w, Idle)
    /\ UNCHANGED <<due, attempts, graph, browser, history>>

\* markVerified; the same handler then asks for the Temporary Access Pass.
ApplyPresentationSuccess(w) ==
    /\ At(w, "callback")
    /\ handler[w].kind = "presentation"
    /\ handler[w].status = "success"
    /\ IF MarkVerifiedAllowed(request)
       THEN /\ Write(w, MarkVerified(request), [handler[w] EXCEPT !.at = "claim-tap"])
            /\ history' = [history EXCEPT !.methodsAtProof = graph.methods,
                                          !.abandoned = FALSE]
       ELSE /\ Step(w, Idle)
            /\ UNCHANGED history
    /\ UNCHANGED <<due, attempts, graph, browser>>
=============================================================================
