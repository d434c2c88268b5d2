----------------------------- MODULE RecoveryState -----------------------------
(***************************************************************************)
(* The state that the handlers of one recovery request share, in the form   *)
(* of PortalState: handler[w].at is the call that worker w makes next, and  *)
(* between any two calls the other workers run.                             *)
(***************************************************************************)
EXTENDS RecoveryService

CONSTANTS
    Events,           \* which events outside the portal's control happen
    GroupCheckDefined \* graph-service's group check is a function (see TapHandlers)

ASSUME RecoveryEventsAssumption == Events \subseteq
    {"crash", "graph-fault", "service-fault", "mail-fault", "session-fault",
     "storage-fault", "admin", "escalation", "request-deadline", "exchange-deadline", "new-passkey"}

ASSUME RecoveryGroupCheckAssumption == GroupCheckDefined \in BOOLEAN

VARIABLES
    request,   \* the stored row
    handler,   \* what each worker is doing
    due,       \* the deadlines that have passed
    attempts,  \* what happened to each presentation at the Verified ID service
    graph,     \* passes created, FIDO2 methods registered now and ever
    browser,   \* the manager's mailbox, the employee's and the manager's sessions
    history    \* what the properties remember; no handler reads it

vars == <<request, handler, due, attempts, graph, browser, history>>

\* "named": the portal chose its callback state; "created": the service accepted
\* it; the others are the callbacks the service sends.
Event == {"named", "created", "retrieved", "error", "success", "bad"}

\* The token's deadline is the request's.
Deadline == {"request", "presentation"}

\* The calls of revokePasskeysAndIssueTap.
RevocationPlace == {"check", "revoke", "create-tap", "record-tap", "fail-tap"}

Place == RevocationPlace \cup
    {"idle", "expire", "notify", "mark-notified", "mark-failed", "bind",
     "redeem", "save-session", "decide", "escalate",
     "begin", "create", "attach", "fail", "callback", "claim",
     "take", "list-methods", "confirm", "complete"}

Local == [at : Place,
          n : 0 .. MaxAttempts,          \* the presentation it works for
          status : Event \cup {None},    \* of the callback it handles
          tap : 0 .. MaxTaps,
          methods : SUBSET Key,          \* listed
          left : SUBSET Key]             \* listed and not deleted yet

Idle == [at |-> "idle", n |-> 0, status |-> None, tap |-> 0,
         methods |-> {}, left |-> {}]

At(w, place) == handler[w].at = place

Going(place) == [Idle EXCEPT !.at = place]

Revoking(w) == handler[w].at \in RevocationPlace

\* Worker w goes on with what it knows; the row stays as it is.
Step(w, local) ==
    /\ handler' = [handler EXCEPT ![w] = local]
    /\ UNCHANGED <<request, due>>

\* updateRequest: worker w replaces the row, which leaves these deadlines in the past.
Replace(w, row, local, past) ==
    /\ request' = row
    /\ handler' = [handler EXCEPT ![w] = local]
    /\ due' = past

WindowOpen(r) == r.presentationStatus \in {"creating", "active", "retrieved"}

\* The window of a presentation that has ended is of no interest.
Write(w, row, local) ==
    Replace(w, row, local, IF WindowOpen(row) THEN due ELSE due \ {"presentation"})

\* The update opens a new window for the presentation.
WriteAnew(w, row, local) == Replace(w, row, local, due \ {"presentation"})

\* An update of the row may throw, stored or not (see StorageFault of PortalState).
StorageFault == "storage-fault" \in Events

-----------------------------------------------------------------------------

Live == ~LapsedOnLoad(request, "request" \in due)

\* loadRequest read a lapsed row: next it will write "expired" ...
LoadLapsed(w) ==
    /\ At(w, "idle")
    /\ browser.bound \/ browser.signedIn
    /\ ~Live
    /\ Step(w, Going("expire"))
    /\ UNCHANGED <<attempts, graph, browser, history>>

\* ... whatever state the row has reached in between.
ExpireLapsed(w) ==
    /\ At(w, "expire")
    /\ Write(w, Expire(request), Idle)
    /\ UNCHANGED <<attempts, graph, browser, history>>

DeadlinePasses(d) ==
    /\ d \notin due
    /\ \/ d = "request" /\ "request-deadline" \in Events
       \/ d = "presentation" /\ "exchange-deadline" \in Events
          /\ WindowOpen(request)
    /\ due' = due \cup {d}
    /\ UNCHANGED <<request, handler, attempts, graph, browser, history>>

\* The process dies, an awaited call never answers, or an error that the handler
\* does not catch ends it: the rest is not run, and an operation that the row names
\* may be left without anyone to finish it.
Crash(w) ==
    /\ "crash" \in Events
    /\ ~At(w, "idle")
    /\ Step(w, Idle)
    /\ history' = [history EXCEPT
          !.abandoned = @ \/ (Revoking(w) /\ request.tapOperationId = w)]
    /\ UNCHANGED <<attempts, graph, browser>>

\* The employee registers a passkey, with the pass or by other means.  Every
\* registration has an id of its own, so a deleted one does not come back.
RegisterPasskey(key) ==
    /\ "new-passkey" \in Events
    /\ key \notin graph.used
    /\ graph' = [graph EXCEPT !.methods = @ \cup {key}, !.used = @ \cup {key}]
    /\ UNCHANGED <<request, handler, due, attempts, browser, history>>
=============================================================================
