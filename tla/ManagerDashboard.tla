---------------------------- MODULE ManagerDashboard ----------------------------
(***************************************************************************)
(* The dashboard and administrator routes of v2-manager.js over the         *)
(* portal's sessions: sign-in and its callback, the pages that test the     *)
(* authority, and invitations under the daily limit.                        *)
(***************************************************************************)
EXTENDS PortalSessions

\* GET /auth/manager/dashboard/signin and /auth/admin/signin: a transaction is
\* stored under a fresh state.  A failure is answered with a page (ServePage).
BeginSignIn(w) ==
    /\ Loads(w)
    /\ \E t \in SignIn, purpose \in Role :
          /\ signin[t].purpose = None
          /\ signin' = [signin EXCEPT ![t].purpose = purpose, ![t].open = TRUE]
    /\ Serve(w, "end", Session(w).marks)
    /\ UNCHANGED <<sessionVars, rateVars, history>>

SignInLapses(t) ==
    /\ "sign-in-expiry" \in Events
    /\ signin[t].open
    /\ signin' = [signin EXCEPT ![t].open = FALSE]
    /\ UNCHANGED <<sessionVars, rateVars, handler, history>>

-----------------------------------------------------------------------------
(* POST /auth/manager/callback *)

\* Mutant: a transaction serves any purpose.
FindsAnyPurpose(t, purpose) == signin[t].open

\* loadDashboardAuthTransaction
Finds(t, purpose) ==
    signin[t].open /\ signin[t].purpose = purpose

\* The browser withholds its cookie from the form post of the identity provider,
\* so the request's session is new.  It may come again with the same state.
CallbackArrives(w) ==
    /\ At(w, "idle")
    /\ \E t \in SignIn :
          /\ signin[t].purpose # None
          /\ \E found \in {Finds(t, "admin")} \cup {f \in {FALSE} : Fault} :
                handler' = [handler EXCEPT ![w] = [IdleHandler EXCEPT
                    !.txn = t,
                    !.at = IF found THEN "authenticate" ELSE "look-up-dashboard",
                    !.purpose = IF found THEN "admin" ELSE None]]
    /\ UNCHANGED <<sessionVars, rateVars, signin, history>>

\* The handler answers with its session as held.
Answer(w, answer, held, faulty) ==
    handler' = [handler EXCEPT ![w] = [IdleHandler EXCEPT
        !.at = "end", !.held = held, !.answer = answer, !.faulty = faulty]]

\* What is no transaction of either kind is taken for a request's sign-in, and
\* rejected when it is not.
LookUpDashboard(w) ==
    /\ At(w, "look-up-dashboard")
    /\ \/ /\ Finds(handler[w].txn, "dashboard")
          /\ handler' = [handler EXCEPT ![w].at = "authenticate",
                                        ![w].purpose = "dashboard"]
       \/ /\ ~Finds(handler[w].txn, "dashboard") \/ Fault
          /\ Answer(w, "rejected", NewSession({"csrf"}), FALSE)
    /\ UNCHANGED <<sessionVars, rateVars, signin, history>>

\* Mutant: the session gets its authority before the role and profile are looked up.
AuthenticateTooEarly(w) ==
    /\ At(w, "authenticate")
    /\ \E place \in {"delete-transaction", "reject"} :
          handler' = [handler EXCEPT
             ![w].at = place, ![w].purpose = None,
             ![w].held = NewSession({"csrf", handler[w].purpose})]
    /\ UNCHANGED <<sessionVars, rateVars, signin, history>>

\* The code is exchanged, the role required, the profile fetched and the session
\* regenerated, which has no row.  Any of them may fail.
Authenticate(w) ==
    /\ At(w, "authenticate")
    /\ \/ handler' = [handler EXCEPT
             ![w].at = "delete-transaction", ![w].purpose = None,
             ![w].held = NewSession({"csrf", handler[w].purpose})]
       \/ handler' = [handler EXCEPT ![w].at = "reject", ![w].purpose = None]
    /\ UNCHANGED <<sessionVars, rateVars, signin, history>>

FailFor(w, place) == handler' = [handler EXCEPT ![w].at = place, ![w].faulty = TRUE]

Deleted(t) == [signin EXCEPT ![t].open = FALSE]

DeleteTransaction(w) ==
    /\ At(w, "delete-transaction")
    /\ \/ signin' = Deleted(handler[w].txn) /\ Go(w, "save")
       \/ /\ Fault
          /\ signin' \in {signin, Deleted(handler[w].txn)}
          /\ FailFor(w, "reject")
    /\ UNCHANGED <<sessionVars, rateVars, history>>

\* req.session.save, before the page says that the sign-in is complete.
SaveSignIn(w) ==
    /\ At(w, "save")
    /\ \E s \in SaveIds(handler[w].held) :
          \/ /\ store' = SetRow(s, Marks(w))
             /\ used' = used \cup {s}
             /\ Answer(w, "complete", [handler[w].held EXCEPT !.sid = s], FALSE)
          \/ /\ Fault
             /\ used' = used \cup {s}
             /\ store' \in {store, SetRow(s, Marks(w))}
             /\ handler' = [handler EXCEPT ![w].at = "reject", ![w].held.sid = s,
                                           ![w].faulty = TRUE]
    /\ UNCHANGED <<cookie, rateVars, signin, history>>

\* The catch: the transaction is deleted, an error of which is ignored, and the
\* rejection page adds its token to whatever session the request has by now.
Reject(w) ==
    /\ At(w, "reject")
    /\ signin' = Deleted(handler[w].txn) \/ (Fault /\ UNCHANGED signin)
    /\ Answer(w, "rejected", [handler[w].held EXCEPT !.marks = @ \cup {"csrf"}],
              handler[w].faulty)
    /\ UNCHANGED <<sessionVars, rateVars, history>>

-----------------------------------------------------------------------------
(* The pages and routes that need authority *)

\* The hour of the session's authority ends.
AuthorityLapses(s) ==
    /\ "authority-expiry" \in Events
    /\ Present(s) /\ store[s] \cap Role # {} /\ s \notin history.lapsed
    /\ history' = [history EXCEPT !.lapsed = @ \cup {s}]
    /\ UNCHANGED <<sessionVars, rateVars, signin, handler>>

\* Authority that is not active is taken out of the session.
TurnAway(w, role, added) ==
    /\ ~IsActive(Session(w), role)
    /\ Serve(w, "end", (Session(w).marks \ {role}) \cup added)

\* GET /v2/manager/dashboard, which adds one more token when it cannot be filled.
ServeDashboard(w) ==
    /\ Loads(w)
    /\ \/ TurnAway(w, "dashboard", {"csrf"})
       \/ /\ IsActive(Session(w), "dashboard")
          /\ \E marks \in {Session(w).marks, WithToken(Session(w).marks)} :
                Serve(w, "end", marks)
    /\ UNCHANGED <<sessionVars, rateVars, signin, history>>

\* GET /v2/admin, and the lookup and reset behind it.
ServeAdmin(w) ==
    /\ Loads(w)
    /\ \/ TurnAway(w, "admin", {})
       \/ IsActive(Session(w), "admin") /\ Serve(w, "end", Session(w).marks)
    /\ UNCHANGED <<sessionVars, rateVars, signin, history>>

\* POST /api/v2/manager/invitations.  The employee is sought among the manager's
\* reports before the limit is spent.
OpenInvitation(w) ==
    /\ Loads(w)
    /\ "csrf" \in Session(w).marks
    /\ \/ TurnAway(w, "dashboard", {}) /\ UNCHANGED rateVars
       \/ /\ IsActive(Session(w), "dashboard")
          /\ \/ Serve(w, "limited", Session(w).marks) /\ BeginCall(w)
             \/ Serve(w, "end", Session(w).marks) /\ UNCHANGED rateVars
    /\ UNCHANGED <<sessionVars, signin, history>>

CountInvitation(w) ==
    /\ At(w, "limited")
    /\ RateStep(w)
    /\ UNCHANGED <<sessionVars, signin, handler, history>>

\* An admitted handler creates the request and answers; nothing is counted back.
AnswerInvitation(w) ==
    /\ At(w, "limited")
    /\ call[w].at \in {"admitted", "refused", "failed"}
    /\ EndCall(w)
    /\ Go(w, "end")
    /\ UNCHANGED <<sessionVars, signin, history>>

-----------------------------------------------------------------------------
SessionStep(w) ==
    \/ OpenExpired(w)
    \/ Purge(w)
    \/ ServePage(w)
    \/ Intake(w)
    \/ Bind(w)
    \/ Complete(w)
    \/ Finish(w)
    \/ End(w)
    \/ Crash(w)

DashboardStep(w) ==
    \/ BeginSignIn(w)
    \/ CallbackArrives(w)
    \/ LookUpDashboard(w)
    \/ Authenticate(w)
    \/ DeleteTransaction(w)
    \/ SaveSignIn(w)
    \/ Reject(w)
    \/ ServeDashboard(w)
    \/ ServeAdmin(w)
    \/ OpenInvitation(w)
    \/ CountInvitation(w)
    \/ AnswerInvitation(w)

Next ==
    \/ \E w \in Worker : SessionStep(w) \/ DashboardStep(w)
    \/ \E s \in Sid : AuthorityLapses(s)
    \/ \E t \in SignIn : SignInLapses(t)

Spec == Init /\ [][Next]_vars

-----------------------------------------------------------------------------
TypeOK ==
    /\ store \in [Sid -> {None} \cup SUBSET Mark]
    /\ cookie \in Sid \cup {None}
    /\ used \subseteq Sid
    /\ limiter \in [count : Nat, admitted : Nat, refused : Nat, wasted : Nat]
    /\ call \in [Worker -> [at : {"none", "read", "write", "admitted", "refused", "failed"},
                            seen : Nat, lost : 0 .. RateAttempts - 1]]
    /\ signin \in [SignIn -> [purpose : Role \cup {None}, open : BOOLEAN]]
    /\ handler \in [Worker -> [at : Place, held : Held, txn : SignIn \cup {None},
                               purpose : Role \cup {None},
                               answer : {None, "complete", "rejected"}, faulty : BOOLEAN]]
    /\ history \in [destroyed : SUBSET Sid, overtaken : SUBSET Sid, lapsed : SUBSET Sid]

\* A session that was destroyed when its request completed, or when another was
\* bound in its place, exists again only if a request that had loaded it, and changes
\* what it loaded, was still under way (set and touch, table-session-store.js:55
\* and :79).
DestroyedStaysDestroyed ==
    \A s \in history.destroyed \ history.overtaken : store[s] = None

\* A session holds one of an employee's binding, a manager's authority and an
\* administrator's: whatever gives it one starts it anew, and no late save mixes
\* two (regenerateSession, v2-security.js:40).
OneStandingPerSession ==
    \A s \in Sid : store[s] # None => \A x, y \in store[s] \cap Standing : x = y

\* A session has the authority of a manager or an administrator only when a
\* sign-in was begun for that very purpose (loadDashboardAuthTransaction,
\* onboarding-v2-service.js:804).
AuthorityFromItsSignIn ==
    \A s \in Sid : store[s] # None =>
        \A role \in store[s] \cap Role : \E t \in SignIn : signin[t].purpose = role

\* Who is told that the sign-in is complete has a stored session with authority,
\* and who is told that it was rejected has none, unless storage failed after the
\* authority was put into the session (v2-manager.js:475).
SignInAnswerIsTrue ==
    \A w \in Worker : At(w, "end") =>
        /\ handler[w].answer = "complete" =>
              /\ handler[w].held.sid # None
              /\ store[handler[w].held.sid] # None
              /\ store[handler[w].held.sid] \cap Role # {}
        /\ handler[w].answer = "rejected" /\ ~handler[w].faulty =>
              Marks(w) \cap Role = {}
=============================================================================
