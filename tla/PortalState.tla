------------------------------ MODULE PortalState ------------------------------
(***************************************************************************)
(* The state the portal's request handlers share, for one onboarding        *)
(* request, and the steps every handler has in common.                      *)
(*                                                                         *)
(* A handler is a chain of awaits, so between any two of its storage, Graph *)
(* and Verified ID calls other handlers run.  Worker is a bound on how many *)
(* handlers are under way at once; handler[w].at is the call worker w makes *)
(* next and the other fields are what it keeps from the calls before.       *)
(***************************************************************************)
EXTENDS OnboardingService

CONSTANTS
    Events,           \* which events outside the portal's control happen
    GroupCheckDefined \* graph-service's group check is a function (see TapHandlers)

ASSUME EventsAssumption == Events \subseteq
    {"crash", "graph-fault", "service-fault", "mail-fault", "session-fault",
     "storage-fault", "admin", "escalation", "invitation", "request-deadline", "token-deadline",
     "exchange-deadline", "forwarded-link", "new-passkey"}

ASSUME GroupCheckAssumption == GroupCheckDefined \in BOOLEAN

VARIABLES
    request,   \* the stored row
    handler,   \* what each worker is doing
    due,       \* the deadlines that have passed
    attempts,  \* what happened to each exchange with the Verified ID service
    graph,     \* Microsoft Graph: passes created, FIDO2 methods registered
    browser,   \* mailboxes and browser sessions
    admin,     \* the row version an administrator is looking at
    history    \* what the properties remember; no handler reads it

vars == <<request, handler, due, attempts, graph, browser, admin, history>>

Kind == {"issuance", "presentation"}

\* "named": the portal chose its callback state; "created": the service accepted
\* it; the others are the callbacks the service sends.
Event == {"named", "created", "retrieved", "error", "success", "bad"}

Deadline == {"request", "token"} \cup Kind

Place == {"idle", "expire",
          "notify", "mark-notified", "mark-failed", "bind",
          "confirm-invite", "invite-failed",
          "redeem", "save-session", "decide", "escalate", "mail-skip",
          "begin", "create", "attach", "fail", "callback",
          "claim-tap", "check-tap", "create-tap", "record-tap", "fail-tap",
          "take", "list-methods", "confirm", "complete"}

Local == [at : Place,
          kind : Kind \cup {None},
          n : 0 .. MaxAttempts,               \* the attempt it works for
          approver : Approver \cup {None},
          status : Event \cup {None},         \* of the callback it handles
          tap : 0 .. MaxTaps,
          methods : SUBSET Key]

Idle == [at |-> "idle", kind |-> None, n |-> 0, approver |-> None,
         status |-> None, tap |-> 0, methods |-> {}]

At(w, place) == handler[w].at = place

Going(place) == [Idle EXCEPT !.at = place]

\* Worker w goes on with what it knows; the row stays as it is.
Step(w, local) ==
    /\ handler' = [handler EXCEPT ![w] = local]
    /\ UNCHANGED <<request, admin>>

\* updateRequest: worker w replaces the row, and every etag read before is stale.
Write(w, row, local) ==
    /\ request' = row
    /\ handler' = [handler EXCEPT ![w] = local]
    /\ admin' = [admin EXCEPT !.fresh = FALSE]

\* An update of the row may throw, and then may or may not have been stored: the
\* table refuses it, its answer is lost, or it loses five races.  An error that
\* nothing catches ends the handler, as Crash does; where the code goes on, the
\* step that calls the update says how.
StorageFault == "storage-fault" \in Events

-----------------------------------------------------------------------------
(* loadRequest: a request past its lifetime is expired by whoever reads it. *)

Live == ~LapsedOnLoad(request, "request" \in due)

\* loadRequest read a lapsed row: next it will write "expired".
LoadLapsed(w) ==
    /\ At(w, "idle")
    /\ browser.bound \/ browser.signedIn # {}
    /\ ~Live
    /\ Step(w, Going("expire"))
    /\ UNCHANGED <<due, attempts, graph, browser, history>>

\* ... whatever state the row has reached in between.
ExpireLapsed(w) ==
    /\ At(w, "expire")
    /\ Write(w, Expire(request), Idle)
    /\ UNCHANGED <<due, attempts, graph, browser, history>>

-----------------------------------------------------------------------------
(* Time, crashes and the employee's security keys *)

\* The token's deadline is never later than the request's.
DeadlinePasses(d) ==
    /\ d \notin due
    /\ \/ d = "request" /\ "request-deadline" \in Events
       \/ d = "token" /\ "token-deadline" \in Events
       \/ d = "issuance" /\ "exchange-deadline" \in Events
          /\ request.issuance.status \in {"creating", "active", "retrieved"}
       \/ d = "presentation" /\ "exchange-deadline" \in Events
          /\ request.presentation.status \in {"creating", "active", "retrieved"}
    /\ due' = due \cup {d} \cup (IF d = "request" THEN {"token"} ELSE {})
    /\ UNCHANGED <<request, handler, attempts, graph, browser, admin, history>>

TapPlaces == {"check-tap", "create-tap", "record-tap", "fail-tap"}

\* A proved request waits for what worker w does next.
Owing(w) ==
    \/ At(w, "claim-tap") /\ ClaimTapAllowed(request)
    \/ handler[w].at \in TapPlaces /\ FailTapAllowed(request, w)

\* The process dies, an awaited call never answers, or an error that the handler
\* does not catch ends it: the rest is not run, and the request's operation may be
\* left without anyone to start or to finish it.
Crash(w) ==
    /\ "crash" \in Events
    /\ ~At(w, "idle")
    /\ Step(w, Idle)
    /\ history' = [history EXCEPT !.abandoned = @ \/ Owing(w)]
    /\ UNCHANGED <<due, attempts, graph, browser>>

\* The employee registers a passkey, with the pass or by other means.
RegisterPasskey(key) ==
    /\ "new-passkey" \in Events
    /\ key \notin graph.methods
    /\ graph' = [graph EXCEPT !.methods = @ \cup {key}]
    /\ UNCHANGED <<request, handler, due, attempts, browser, admin, history>>
=============================================================================
