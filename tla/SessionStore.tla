------------------------------ MODULE SessionStore ------------------------------
(***************************************************************************)
(* table-session-store.js and the session middleware above it: the rows of  *)
(* the session table, and what a request holds of a session between the     *)
(* load at its start and the save or touch at its end.                      *)
(*                                                                          *)
(* Of a session's content the model keeps which values are present.  A new  *)
(* session gets its id when it is first saved.  The time of expiry is not   *)
(* kept: any reader may find it passed.                                     *)
(***************************************************************************)
CONSTANTS
    Sid,   \* bound: ids of the sessions ever saved
    None

\* A first CSRF token, any further token or correlation id, v2Employee (or v2Recovery),
\* v2ManagerDashboard and v2PortalAdmin.
Role == {"dashboard", "admin"}
Standing == {"employee"} \cup Role
Mark == {"csrf", "more"} \cup Standing

VARIABLES
    store,   \* the rows of the table: their content
    cookie,  \* the id the browser sends
    used     \* the ids given out

sessionVars == <<store, cookie, used>>

SessionInit ==
    /\ store = [s \in Sid |-> None]
    /\ cookie = None
    /\ used = {}

-----------------------------------------------------------------------------
(* The store: each operator is the table after the call *)

Present(s) == s # None /\ store[s] # None

\* set: upsertEntity replaces the row whatever became of it.
SetRow(s, marks) == [store EXCEPT ![s] = marks]

\* Mutant: destroy leaves the row to its expiry.
DestroyRowLater(s) == store

DestroyRow(s) == IF s = None THEN store ELSE [store EXCEPT ![s] = None]

\* Mutant: touch writes the session it was given.
TouchRowAnyway(s, marks) == SetRow(s, marks)

\* touch: a merge of expiresAt into the row; that it is gone is no error.
TouchRow(s, marks) == store

-----------------------------------------------------------------------------
(* What a request holds of its session *)

\* sid is None for a session not saved yet, sent tells that the browser sent that
\* id, loaded is the content at the start and marks the content now.
Held == [sid : Sid \cup {None}, sent : BOOLEAN,
         loaded : SUBSET Mark, marks : SUBSET Mark]

\* generate: the id is new, or was not found in the store.
NewSession(marks) == [sid |-> None, sent |-> FALSE, loaded |-> {}, marks |-> marks]

\* inflate: the session the store returned.
LoadedSession(s) ==
    [sid |-> s, sent |-> TRUE, loaded |-> store[s], marks |-> store[s]]

Retrieved == IF Present(cookie) THEN LoadedSession(cookie) ELSE NewSession({})

\* A session the request got or regenerated anew is saved when it has content, one
\* it loaded when it changed it.
IsSaved(held) == IF held.sent THEN held.marks # held.loaded ELSE held.marks # {}

\* The ids under which a session can be saved.
SaveIds(held) == IF held.sid = None THEN Sid \ used ELSE {held.sid}
=============================================================================
