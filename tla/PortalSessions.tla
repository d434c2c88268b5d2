----------------------------- MODULE PortalSessions -----------------------------
(***************************************************************************)
(* The sessions of the portal: the requests of one browser interleave, each *)
(* between the load of its session and the save at its end.  Pages add to   *)
(* the session, an intake binds it to a request, completion destroys it, a  *)
(* dashboard or administrator sign-in gives it authority for an hour, and   *)
(* an invitation spends the daily limit under that authority.               *)
(***************************************************************************)
EXTENDS SessionStore, RateLimit

CONSTANT SignIn  \* sign-in transactions that may be created

\* None stands for a missing value, and is none of the values it can stand in for.
ASSUME NoneAssumption == None \notin Sid \cup SignIn \cup Role
ASSUME NoneIsNoAnswer == None \notin {"complete", "rejected"}
ASSUME NoneIsNoContent == \A marks \in SUBSET Mark : None # marks

VARIABLES
    signin,   \* the transactions: purpose, and whether stored and in their ten minutes
    handler,  \* for each handler, where it is and what it holds
    history   \* ids of sessions: destroyed, overtaken, with lapsed authority

vars == <<sessionVars, rateVars, signin, handler, history>>

Place == {"idle", "purge", "start", "bind", "finish", "limited", "look-up-dashboard",
          "authenticate", "delete-transaction", "save", "reject", "end"}

\* answer: what the callback's page says; faulty: storage failed it on the way.
IdleHandler == [at |-> "idle", held |-> NewSession({}), txn |-> None,
                purpose |-> None, answer |-> None, faulty |-> FALSE]

Init ==
    /\ SessionInit
    /\ RateInit
    /\ signin = [t \in SignIn |-> [purpose |-> None, open |-> FALSE]]
    /\ handler = [w \in Worker |-> IdleHandler]
    /\ history = [destroyed |-> {}, overtaken |-> {}, lapsed |-> {}]

-----------------------------------------------------------------------------
At(w, place) == handler[w].at = place

Go(w, place) == handler' = [handler EXCEPT ![w].at = place]

Marks(w) == handler[w].held.marks

\* The request's session is loaded: found, or new after an expired one was deleted.
Loads(w) == handler[w].at \in {"idle", "start"}

Session(w) == IF At(w, "start") THEN NewSession({}) ELSE Retrieved

\* The route goes to place, and is to change its session to marks.  No other request
\* sees a change before it is saved, so it is made as the session is loaded.
Serve(w, place, marks) ==
    handler' = [handler EXCEPT ![w] =
        [IdleHandler EXCEPT !.at = place, !.held = [Session(w) EXCEPT !.marks = marks]]]

\* dashboardSessionIsActive, adminSessionIsActive: an hour from the sign-in.
IsActive(held, role) == role \in held.marks /\ held.sid \notin history.lapsed

Fault == "storage-fault" \in Events

-----------------------------------------------------------------------------
(* The session middleware *)

\* get finds the row expired, and deletes it whatever becomes of it meanwhile.
OpenExpired(w) ==
    /\ "session-expiry" \in Events
    /\ At(w, "idle")
    /\ Present(cookie)
    /\ handler' = [handler EXCEPT ![w].at = "purge", ![w].held.sid = cookie]
    /\ UNCHANGED <<sessionVars, rateVars, signin, history>>

Purge(w) ==
    /\ At(w, "purge")
    /\ \/ /\ store' = DestroyRow(handler[w].held.sid)
          /\ handler' = [handler EXCEPT ![w] = [IdleHandler EXCEPT !.at = "start"]]
       \/ /\ Fault
          /\ handler' = [handler EXCEPT ![w] = IdleHandler]
          /\ UNCHANGED store
    /\ UNCHANGED <<cookie, used, rateVars, signin, history>>

\* The session the handler holds is destroyed.  Requests that loaded it and change
\* it are still to save it.
Destroy(w) ==
    LET s == handler[w].held.sid
    IN  /\ store' = DestroyRow(s)
        /\ history' = IF s = None THEN history ELSE [history EXCEPT
              !.destroyed = @ \cup {s},
              !.overtaken = @ \cup {o \in {s} :
                  \E v \in Worker \ {w} : /\ handler[v].held.sid = s
                                          /\ IsSaved(handler[v].held)}]

\* The response: a session that is new or changed is saved, one that was sent and
\* is unchanged is touched.  A failed save does not keep the cookie back.
End(w) ==
    LET held == handler[w].held
    IN  /\ At(w, "end")
        /\ handler' = [handler EXCEPT ![w] = IdleHandler]
        /\ IF IsSaved(held)
           THEN \E s \in SaveIds(held) :
                  /\ used' = used \cup {s}
                  /\ \/ store' = SetRow(s, held.marks)
                     \/ Fault /\ UNCHANGED store
                  /\ cookie' = s
           ELSE /\ \/ held.sent /\ store' = TouchRow(held.sid, held.marks)
                   \/ (Fault \/ ~held.sent) /\ UNCHANGED store
                /\ UNCHANGED <<cookie, used>>
        /\ UNCHANGED <<rateVars, signin, history>>

Crash(w) ==
    /\ "crash" \in Events
    /\ ~At(w, "idle")
    /\ handler' = [handler EXCEPT ![w] = IdleHandler]
    /\ EndCall(w)
    /\ UNCHANGED <<sessionVars, signin, history>>

-----------------------------------------------------------------------------
(* Pages, intake and completion *)

WithToken(marks) == marks \cup (IF "csrf" \in marks THEN {"more"} ELSE {"csrf"})

\* A page adds its CSRF token; a status request adds nothing.
ServePage(w) ==
    /\ Loads(w)
    /\ \E marks \in {Session(w).marks, WithToken(Session(w).marks)} : Serve(w, "end", marks)
    /\ UNCHANGED <<sessionVars, rateVars, signin, history>>

\* POST .../requests: the page's token is required.  An applicant who is not
\* eligible gets the same answer and no binding.
Intake(w) ==
    /\ Loads(w)
    /\ "csrf" \in Session(w).marks
    /\ \E place \in {"bind", "end"} : Serve(w, place, WithToken(Session(w).marks))
    /\ UNCHANGED <<sessionVars, rateVars, signin, history>>

\* Mutant: the request is bound to the session as it is.
RegeneratedInPlace(w, marks) == [handler[w].held EXCEPT !.marks = @ \cup marks]

Regenerated(w, marks) == NewSession(marks)

\* regenerateSession, then the binding.  When it fails the session is new all the
\* same and gets the token of the generic answer.
Bind(w) ==
    /\ At(w, "bind")
    /\ \/ /\ Destroy(w)
          /\ handler' = [handler EXCEPT ![w].at = "end",
                ![w].held = Regenerated(w, {"csrf", "employee"})]
       \/ /\ Fault
          /\ handler' = [handler EXCEPT ![w].at = "end", ![w].held = NewSession({"csrf"})]
          /\ UNCHANGED <<store, history>>
    /\ UNCHANGED <<cookie, used, rateVars, signin>>

\* GET .../complete, of who is bound to a request that is ready.
Complete(w) ==
    /\ Loads(w)
    /\ "employee" \in Session(w).marks
    /\ Serve(w, "finish", Session(w).marks)
    /\ UNCHANGED <<sessionVars, rateVars, signin, history>>

\* destroySession takes the session off the request, so nothing is saved after it.
Finish(w) ==
    /\ At(w, "finish")
    /\ handler' = [handler EXCEPT ![w] = IdleHandler]
    /\ Destroy(w) \/ (Fault /\ UNCHANGED <<store, history>>)
    /\ UNCHANGED <<cookie, used, rateVars, signin>>
=============================================================================
