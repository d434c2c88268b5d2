------------------------------ MODULE EmployeeLock ------------------------------
(***************************************************************************)
(* How the table repository keeps an employee to one request: the lock      *)
(* entity that createRequest takes before it stores the request, that a     *)
(* terminal update gives back, that a later request takes over after the    *)
(* deadline, and that the stuck-request script removes when it looks        *)
(* orphaned. One employee; every call to the table is a step of its own.    *)
(*                                                                          *)
(* A lock is written once for each request, so its owner also stands for    *)
(* its etag. The repositories of both services contain this code.           *)
(***************************************************************************)
EXTENDS FiniteSets

CONSTANTS
    Request,  \* request identifiers; each is created by one call of createRequest
    Closer,   \* handlers that bring a request to a terminal state
    None,     \* no lock, no request
    Events    \* what may go wrong, a subset of EventNames

\* "crash": a process dies between two calls.
\* "refused-write": a call fails and has changed nothing.
\* "lost-answer": a write takes effect and its caller sees an error.
\* "slow-create": a createRequest is still under way at its own deadline.
\* "script": an administrator runs clear-v2-stuck-request.js --delete-orphan-lock.
EventNames == {"crash", "refused-write", "lost-answer", "slow-create", "script"}

ASSUME NoneAssumption == None \notin Request
ASSUME EventsAssumption == Events \subseteq EventNames

VARIABLES
    lock,     \* the request named by the employee's lock entity, or None
    row,      \* for each request: no row, an open one or one in a terminal state
    lapsed,   \* requests past expiresAt, which the lock shares with the row
    creator,  \* for each request, its createRequest
    closer,   \* for each closing handler, what it does and to which request
    script,   \* the script: the rows it listed and the lock it then read
    disturbed \* history: the lock's protocol was broken from outside (see below)

vars == <<lock, row, lapsed, creator, closer, script, disturbed>>

Lock == Request \cup {None}

CreatorAt(pc) == [pc |-> pc, seen |-> None]

CloserAt(pc, r) == [pc |-> pc, request |-> r]

ScriptIdle == [pc |-> "idle", listed |-> {}, seen |-> None]

Live(r) == row[r] = "open" /\ r \notin lapsed

Init ==
    /\ lock = None
    /\ row = [r \in Request |-> "absent"]
    /\ lapsed = {}
    /\ creator = [r \in Request |-> CreatorAt("idle")]
    /\ closer = [c \in Closer |-> CloserAt("idle", None)]
    /\ script = ScriptIdle
    /\ disturbed = FALSE

-----------------------------------------------------------------------------
(* createRequest *)

Creating(r) == creator[r].pc \in {"lock", "read", "replace", "insert", "undo"}

Go(r, pc) == creator' = [creator EXCEPT ![r].pc = pc]

Start(r) ==
    /\ creator[r].pc = "idle"
    /\ Go(r, "lock")
    /\ UNCHANGED <<lock, row, lapsed, closer, script, disturbed>>

\* createEntity(lock): a conflict when any lock is there.
TakeLock(r) ==
    /\ creator[r].pc = "lock"
    /\ \/ lock = None /\ lock' = r /\ Go(r, "insert")
       \/ lock # None /\ UNCHANGED lock /\ Go(r, "read")
    /\ UNCHANGED <<row, lapsed, closer, script, disturbed>>

\* getEntity after the conflict. A lock that has gone is an error of the call.
ReadLock(r) ==
    /\ creator[r].pc = "read"
    /\ creator' = [creator EXCEPT ![r] =
          IF lock \in lapsed THEN [pc |-> "replace", seen |-> lock]
                             ELSE CreatorAt("ended")]
    /\ UNCHANGED <<lock, row, lapsed, closer, script, disturbed>>

\* Mutant: the takeover ignores the etag.
MayReplaceAny(r) == TRUE

\* The condition of updateEntity: the etag that was read is still the lock's.
MayReplace(r) == lock = creator[r].seen

\* updateEntity(lock, 'Replace', { etag }).
ReplaceLock(r) ==
    /\ creator[r].pc = "replace"
    /\ \/ MayReplace(r) /\ lock' = r /\ Go(r, "insert")
       \/ ~MayReplace(r) /\ UNCHANGED lock /\ Go(r, "ended")
    /\ UNCHANGED <<row, lapsed, closer, script, disturbed>>

\* createEntity(request).
InsertRow(r) ==
    /\ creator[r].pc = "insert"
    /\ row' = [row EXCEPT ![r] = "open"]
    /\ Go(r, "ended")
    /\ UNCHANGED <<lock, lapsed, closer, script, disturbed>>

\* The clean-up after a failed insert: deleteEntity with etag '*', whoever owns it.
UndoLock(r) ==
    /\ creator[r].pc = "undo"
    /\ lock' = None
    /\ Go(r, "ended")
    /\ UNCHANGED <<row, lapsed, closer, script, disturbed>>

\* A call of createRequest fails without effect. Only a failed insert is cleaned up.
CreateCallRefused(r) ==
    /\ "refused-write" \in Events
    /\ Creating(r)
    /\ Go(r, IF creator[r].pc = "insert" THEN "undo" ELSE "ended")
    /\ UNCHANGED <<lock, row, lapsed, closer, script, disturbed>>

\* A write of createRequest takes effect and is reported as failed.
CreateAnswerLost(r) ==
    /\ "lost-answer" \in Events
    /\ \/ /\ \/ creator[r].pc = "lock" /\ lock = None
             \/ creator[r].pc = "replace" /\ MayReplace(r)
          /\ lock' = r
          /\ Go(r, "ended")
          /\ UNCHANGED <<row, disturbed>>
       \/ /\ creator[r].pc = "insert"
          /\ row' = [row EXCEPT ![r] = "open"]
          /\ Go(r, "undo")
          /\ disturbed' = TRUE
          /\ UNCHANGED lock
    /\ UNCHANGED <<lapsed, closer, script>>

CreatorCrash(r) ==
    /\ "crash" \in Events
    /\ Creating(r)
    /\ Go(r, "ended")
    /\ UNCHANGED <<lock, row, lapsed, closer, script, disturbed>>

-----------------------------------------------------------------------------
(* replaceRequest with a terminal state *)

ToCloser(c, pc) == closer' = [closer EXCEPT ![c].pc = pc]

\* A handler reads an open request that it is going to close.
BeginClose(c, r) ==
    /\ closer[c].pc = "idle"
    /\ row[r] = "open"
    /\ closer' = [closer EXCEPT ![c] = CloserAt("write", r)]
    /\ UNCHANGED <<lock, row, lapsed, creator, script, disturbed>>

\* The conditional update of the row, retried until it fits.
WriteTerminal(c) ==
    /\ closer[c].pc = "write"
    /\ row' = [row EXCEPT ![closer[c].request] = "terminal"]
    /\ ToCloser(c, "get")
    /\ UNCHANGED <<lock, lapsed, creator, script, disturbed>>

\* On the retry the state is no longer one that the update allows.
CloseRefused(c) ==
    /\ closer[c].pc = "write"
    /\ row[closer[c].request] = "terminal"
    /\ ToCloser(c, "ended")
    /\ UNCHANGED <<lock, row, lapsed, creator, script, disturbed>>

\* Mutant: a closed request keeps its lock.
OwnLockNever(c) == FALSE

OwnLock(c) == lock = closer[c].request

\* The lock is only released when it names this request.
GetLock(c) ==
    /\ closer[c].pc = "get"
    /\ ToCloser(c, IF OwnLock(c) THEN "delete" ELSE "ended")
    /\ UNCHANGED <<lock, row, lapsed, creator, script, disturbed>>

\* deleteEntity with the etag that was read; a conflict is ignored.
DeleteLock(c) ==
    /\ closer[c].pc = "delete"
    /\ lock' = IF OwnLock(c) THEN None ELSE lock
    /\ ToCloser(c, "ended")
    /\ UNCHANGED <<row, lapsed, creator, script, disturbed>>

\* The handler dies, or the table refuses a call and the error is thrown.
CloserFails(c) ==
    /\ Events \cap {"crash", "refused-write"} # {}
    /\ closer[c].pc \in {"write", "get", "delete"}
    /\ ToCloser(c, "failed")
    /\ UNCHANGED <<lock, row, lapsed, creator, script, disturbed>>

-----------------------------------------------------------------------------
(* The clock and the script *)

\* Mutant: the deadline of whatever the lock names.
LapseOfLock(r) ==
    /\ creator[r].pc # "idle"
    /\ lapsed' = lapsed \cup {lock}
    /\ UNCHANGED <<lock, row, creator, closer, script, disturbed>>

\* Requests have one lifetime; that they lapse in any order is more than happens.
Lapse(r) ==
    /\ creator[r].pc # "idle"
    /\ r \notin lapsed
    /\ Creating(r) => "slow-create" \in Events
    /\ lapsed' = lapsed \cup {r}
    /\ disturbed' = (disturbed \/ Creating(r))
    /\ UNCHANGED <<lock, row, creator, closer, script>>

\* The employee's requests are listed first ...
ScriptListsRequests ==
    /\ "script" \in Events
    /\ script.pc = "idle"
    /\ script' = [pc |-> "get", listed |-> {r \in Request : row[r] # "absent"},
                  seen |-> None]
    /\ UNCHANGED <<lock, row, lapsed, creator, closer, disturbed>>

\* ... the lock is read after that; it is an orphan if no listed request owns it.
ScriptReadsLock ==
    /\ script.pc = "get"
    /\ script' = IF lock = None \/ lock \in script.listed
                 THEN ScriptIdle
                 ELSE [script EXCEPT !.pc = "delete", !.seen = lock]
    /\ UNCHANGED <<lock, row, lapsed, creator, closer, disturbed>>

\* What the script took for an orphan belongs to a request that is open or is
\* being created.
InUse(r) == Creating(r) \/ row[r] = "open"

ScriptDeletesLock ==
    /\ script.pc = "delete"
    /\ lock' = IF lock = script.seen THEN None ELSE lock
    /\ script' = ScriptIdle
    /\ disturbed' = (disturbed \/ (lock = script.seen /\ InUse(lock)))
    /\ UNCHANGED <<row, lapsed, creator, closer>>

-----------------------------------------------------------------------------

CreateStep(r) ==
    \/ Start(r) \/ TakeLock(r) \/ ReadLock(r) \/ ReplaceLock(r)
    \/ InsertRow(r) \/ UndoLock(r)
    \/ CreateCallRefused(r) \/ CreateAnswerLost(r) \/ CreatorCrash(r)

\* What a closing handler goes on to do if nothing stops it.
CloseStep(c) == WriteTerminal(c) \/ CloseRefused(c) \/ GetLock(c) \/ DeleteLock(c)

Next ==
    \/ \E r \in Request : CreateStep(r) \/ Lapse(r)
    \/ \E c \in Closer : CloseStep(c) \/ CloserFails(c)
    \/ \E c \in Closer, r \in Request : BeginClose(c, r)
    \/ ScriptListsRequests \/ ScriptReadsLock \/ ScriptDeletesLock

Spec == Init /\ [][Next]_vars

-----------------------------------------------------------------------------
(* Properties *)

\* The values the variables may have.
TypeOK ==
    /\ lock \in Lock
    /\ row \in [Request -> {"absent", "open", "terminal"}]
    /\ lapsed \subseteq Request
    /\ creator \in [Request -> [pc : {"idle", "lock", "read", "replace", "insert",
                                      "undo", "ended"},
                                seen : Lock]]
    /\ closer \in [Closer -> [pc : {"idle", "write", "get", "delete", "ended", "failed"},
                              request : Lock]]
    /\ script \in [pc : {"idle", "get", "delete"}, listed : SUBSET Request, seen : Lock]
    /\ disturbed \in BOOLEAN

\* An employee never has two requests that are open and before their deadline,
\* as the error message of createRequest and the tests say.
OneLiveRequest == \A r, s \in Request : Live(r) /\ Live(s) => r = s

\* What createRequest's lock, its takeover after the deadline and its release by
\* replaceRequest achieve, however they interleave, crash or are refused: there is
\* one live request, unless an insert was stored and reported as failed, a creation
\* outlasted its own request, or the script removed a lock in use.
OneLiveRequestUndisturbed == ~disturbed => OneLiveRequest

\* A closed request does not keep the employee waiting for the deadline: its lock
\* is left only while the handler that closed it is about to release it (the last
\* part of replaceRequest), or if that handler died or met an error, whatever else
\* goes wrong.
ClosedRequestFreesEmployee ==
    \A r \in Request :
        row[r] = "terminal" /\ lock = r
        => \E c \in Closer :
               closer[c].request = r /\ closer[c].pc \in {"get", "delete", "failed"}

=============================================================================
