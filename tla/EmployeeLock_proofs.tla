-------------------------- MODULE EmployeeLock_proofs --------------------------
(***************************************************************************)
(* Proofs about the employee lock for any number of requests and closing    *)
(* handlers and any events: its types, one live request as long as nothing  *)
(* disturbed the lock's protocol, and no lock left behind by a closed       *)
(* request.                                                                 *)
(***************************************************************************)
EXTENDS EmployeeLock, TLAPS

LEMMA InitType == Init => TypeOK
<1> SUFFICES ASSUME Init PROVE TypeOK
    OBVIOUS
<1>1. disturbed \in BOOLEAN
    BY Zenon DEF Init
<1> QED BY <1>1 DEF Init, TypeOK, Lock, CreatorAt, CloserAt, ScriptIdle

LEMMA CreateType ==
    ASSUME TypeOK, NEW r \in Request, CreateStep(r)
    PROVE  TypeOK'
<1> USE DEF TypeOK, Lock
<1>1. CASE Start(r)
    BY <1>1 DEF Start, Go
<1>2. CASE TakeLock(r)
    BY <1>2 DEF TakeLock, Go
<1>3. CASE ReadLock(r)
    BY <1>3 DEF ReadLock, CreatorAt
<1>4. CASE ReplaceLock(r)
    BY <1>4 DEF ReplaceLock, Go
<1>5. CASE InsertRow(r)
    BY <1>5 DEF InsertRow, Go
<1>6. CASE UndoLock(r)
    BY <1>6 DEF UndoLock, Go
<1>7. CASE CreateCallRefused(r)
    BY <1>7 DEF CreateCallRefused, Go
<1>8. CASE CreateAnswerLost(r)
    <2>1. disturbed' \in BOOLEAN
        BY <1>8, Zenon DEF CreateAnswerLost
    <2> QED BY <1>8, <2>1 DEF CreateAnswerLost, Go
<1>9. CASE CreatorCrash(r)
    BY <1>9 DEF CreatorCrash, Go
<1> QED BY <1>1, <1>2, <1>3, <1>4, <1>5, <1>6, <1>7, <1>8, <1>9 DEF CreateStep

LEMMA CloseType ==
    ASSUME TypeOK, NEW c \in Closer,
           CloseStep(c) \/ CloserFails(c) \/ \E r \in Request : BeginClose(c, r)
    PROVE  TypeOK'
<1> USE DEF TypeOK, Lock
<1>1. CASE WriteTerminal(c)
    BY <1>1 DEF WriteTerminal, ToCloser
<1>2. CASE CloseRefused(c)
    BY <1>2 DEF CloseRefused, ToCloser
<1>3. CASE GetLock(c)
    BY <1>3 DEF GetLock, ToCloser
<1>4. CASE DeleteLock(c)
    BY <1>4 DEF DeleteLock, ToCloser
<1>5. CASE CloserFails(c)
    BY <1>5 DEF CloserFails, ToCloser
<1>6. CASE \E r \in Request : BeginClose(c, r)
    BY <1>6 DEF BeginClose, CloserAt
<1> QED BY <1>1, <1>2, <1>3, <1>4, <1>5, <1>6 DEF CloseStep

LEMMA OtherType ==
    ASSUME TypeOK,
           \/ \E r \in Request : Lapse(r)
           \/ ScriptListsRequests \/ ScriptReadsLock \/ ScriptDeletesLock
    PROVE  TypeOK'
<1> USE DEF TypeOK, Lock, ScriptIdle
<1>1. CASE \E r \in Request : Lapse(r)
    BY <1>1 DEF Lapse
<1>2. CASE ScriptListsRequests
    <2>1. {r \in Request : row[r] # "absent"} \in SUBSET Request
        OBVIOUS
    <2> QED BY <1>2, <2>1 DEF ScriptListsRequests
<1>3. CASE ScriptReadsLock
    <2>1. script' = ScriptIdle \/ script' = [script EXCEPT !.pc = "delete", !.seen = lock]
        BY <1>3 DEF ScriptReadsLock
    <2> QED BY <1>3, <2>1 DEF ScriptReadsLock
<1>4. CASE ScriptDeletesLock
    BY <1>4 DEF ScriptDeletesLock
<1> QED BY <1>1, <1>2, <1>3, <1>4

LEMMA NextType == TypeOK /\ [Next]_vars => TypeOK'
<1>1. TypeOK /\ UNCHANGED vars => TypeOK'
    BY DEF TypeOK, vars
<1> QED BY <1>1, CreateType, CloseType, OtherType DEF Next

\* The table, the deadlines and the handlers have their types in every state,
\* whatever goes wrong.
THEOREM LockTypeCorrect == Spec => []TypeOK
BY InitType, NextType, PTL DEF Spec

-----------------------------------------------------------------------------

\* The lock of a request is held from the moment it is taken until its row is
\* terminal or its deadline has passed: createRequest, while it is under way, and
\* every live row are covered by it. This is what makes OneLiveRequest inductive.
CoverInv ==
    \A r \in Request :
        /\ creator[r].pc \in {"insert", "undo"} => lock = r
        /\ creator[r].pc # "ended" => r \notin lapsed /\ row[r] = "absent"
        /\ creator[r].pc = "replace" => creator[r].seen \in lapsed
        /\ Live(r) => lock = r

\* A request whose insert is still to come has no row.
CreateInv ==
    \A r \in Request :
        creator[r].pc \in {"idle", "lock", "read", "replace", "insert"}
        => row[r] = "absent"

\* A handler that releases the lock of its request has closed the request.
ReleaseInv ==
    \A c \in Closer :
        closer[c].pc \in {"get", "delete"} =>
            closer[c].request \in Request /\ row[closer[c].request] = "terminal"

\* A handler about to close a request has seen its row.
CloseInv ==
    \A c \in Closer :
        closer[c].pc = "write" =>
            closer[c].request \in Request /\ row[closer[c].request] # "absent"

TableInv == TypeOK /\ CreateInv /\ ReleaseInv /\ CloseInv

LockInv == TableInv /\ (~disturbed => CoverInv)

LEMMA InitLockInv == Init => LockInv /\ ClosedRequestFreesEmployee
BY InitType, NoneAssumption
DEF Init, LockInv, TableInv, CreateInv, CoverInv, ReleaseInv, CloseInv, CreatorAt,
    CloserAt, Live, ClosedRequestFreesEmployee

\* A step of createRequest takes the lock from nobody that relies on it.
LEMMA CreateCover ==
    ASSUME TypeOK, CoverInv, NEW r \in Request, CreateStep(r), ~disturbed'
    PROVE  CoverInv'
<1> SUFFICES ASSUME NEW s \in Request PROVE CoverInv!(s)'
    BY DEF CoverInv
<1> USE DEF TypeOK, CoverInv, Creating, Live
<1>1. CASE Start(r)
    BY <1>1 DEF Start, Go
<1>2. CASE TakeLock(r)
    BY <1>2, NoneAssumption DEF TakeLock, Go
<1>3. CASE ReadLock(r)
    BY <1>3 DEF ReadLock, CreatorAt
<1>4. CASE ReplaceLock(r)
    BY <1>4 DEF ReplaceLock, MayReplace, Go
<1>5. CASE InsertRow(r)
    BY <1>5 DEF InsertRow, Go
<1>6. CASE UndoLock(r)
    BY <1>6 DEF UndoLock, Go
<1>7. CASE CreateCallRefused(r)
    BY <1>7 DEF CreateCallRefused, Go
<1>8. CASE CreateAnswerLost(r)
    BY <1>8, NoneAssumption DEF CreateAnswerLost, MayReplace, Go
<1>9. CASE CreatorCrash(r)
    BY <1>9 DEF CreatorCrash, Go
<1> QED BY <1>1, <1>2, <1>3, <1>4, <1>5, <1>6, <1>7, <1>8, <1>9 DEF CreateStep

\* A closing handler releases only the lock of its own, closed request.
LEMMA CloseCover ==
    ASSUME TableInv, CoverInv, NEW c \in Closer,
           CloseStep(c) \/ CloserFails(c) \/ \E r \in Request : BeginClose(c, r)
    PROVE  CoverInv'
<1> SUFFICES ASSUME NEW s \in Request PROVE CoverInv!(s)'
    BY DEF CoverInv
<1> USE DEF TableInv, TypeOK, CoverInv, Live
<1>1. CASE WriteTerminal(c)
    BY <1>1 DEF WriteTerminal, CloseInv
<1>2. CASE CloseRefused(c)
    BY <1>2 DEF CloseRefused
<1>3. CASE GetLock(c)
    BY <1>3 DEF GetLock
<1>4. CASE DeleteLock(c)
    BY <1>4 DEF DeleteLock, OwnLock, ReleaseInv
<1>5. CASE CloserFails(c)
    BY <1>5 DEF CloserFails
<1>6. CASE \E r \in Request : BeginClose(c, r)
    BY <1>6 DEF BeginClose
<1> QED BY <1>1, <1>2, <1>3, <1>4, <1>5, <1>6 DEF CloseStep

\* Nothing but the script and a creation past its deadline takes the protection away.
LEMMA OtherCover ==
    ASSUME TypeOK, CoverInv, ~disturbed',
           \/ \E r \in Request : Lapse(r)
           \/ ScriptListsRequests \/ ScriptReadsLock \/ ScriptDeletesLock
    PROVE  CoverInv'
<1> SUFFICES ASSUME NEW s \in Request PROVE CoverInv!(s)'
    BY DEF CoverInv
<1> USE DEF TypeOK, CoverInv, Live
<1>1. CASE \E r \in Request : Lapse(r)
    <2> PICK r \in Request : Lapse(r)
        BY <1>1
    <2>1. ~Creating(r)
        BY Zenon DEF Lapse
    <2> QED BY <2>1 DEF Lapse, Creating
<1>2. CASE ScriptListsRequests \/ ScriptReadsLock
    BY <1>2 DEF ScriptListsRequests, ScriptReadsLock
<1>3. CASE ScriptDeletesLock
    BY <1>3 DEF ScriptDeletesLock, InUse, Creating
<1> QED BY <1>1, <1>2, <1>3

LEMMA CloseTable ==
    ASSUME TableInv, NEW c \in Closer,
           CloseStep(c) \/ CloserFails(c) \/ \E r \in Request : BeginClose(c, r)
    PROVE  CreateInv' /\ ReleaseInv' /\ CloseInv'
<1> USE DEF TableInv, TypeOK, CreateInv, ReleaseInv, CloseInv
<1>1. CASE WriteTerminal(c)
    BY <1>1 DEF WriteTerminal, ToCloser
<1>2. CASE CloseRefused(c)
    BY <1>2 DEF CloseRefused, ToCloser
<1>3. CASE GetLock(c)
    BY <1>3 DEF GetLock, ToCloser
<1>4. CASE DeleteLock(c)
    BY <1>4 DEF DeleteLock, ToCloser
<1>5. CASE CloserFails(c)
    BY <1>5 DEF CloserFails, ToCloser
<1>6. CASE \E r \in Request : BeginClose(c, r)
    BY <1>6 DEF BeginClose, CloserAt
<1> QED BY <1>1, <1>2, <1>3, <1>4, <1>5, <1>6 DEF CloseStep

\* createRequest leaves the closing handlers alone, inserts each row once and takes
\* the lock only for a request that has no row yet.
LEMMA CreateTable ==
    ASSUME TableInv, NEW r \in Request, CreateStep(r)
    PROVE  /\ CreateInv' /\ ReleaseInv' /\ CloseInv'
           /\ closer' = closer
           /\ lock' \in {lock, None} \/ (lock' = r /\ row[r] = "absent")
           /\ row' = row \/ row' = [row EXCEPT ![r] = "open"]
<1>1. closer' = closer
    BY DEF CreateStep, Start, TakeLock, ReadLock, ReplaceLock, InsertRow, UndoLock,
           CreateCallRefused, CreateAnswerLost, CreatorCrash
<1>2. /\ \/ row' = row
         \/ /\ creator[r].pc = "insert"
            /\ creator'[r].pc \in {"ended", "undo"}
            /\ row' = [row EXCEPT ![r] = "open"]
      /\ \/ lock' \in {lock, None}
         \/ lock' = r /\ creator[r].pc \in {"lock", "replace"}
      /\ creator[r].pc \in {"undo", "ended"} => creator'[r].pc \in {"undo", "ended"}
      /\ \A s \in Request \ {r} : creator'[s] = creator[s]
    BY DEF CreateStep, Start, TakeLock, ReadLock, ReplaceLock, InsertRow, UndoLock,
           CreateCallRefused, CreateAnswerLost, CreatorCrash, Go, CreatorAt, Creating,
           TableInv, TypeOK
<1>3. creator[r].pc \in {"lock", "replace", "insert"} => row[r] = "absent"
    BY DEF TableInv, CreateInv
<1> QED BY <1>1, <1>2, <1>3 DEF TableInv, TypeOK, CreateInv, ReleaseInv, CloseInv

LEMMA OtherTable ==
    ASSUME TableInv,
           \/ \E r \in Request : Lapse(r)
           \/ ScriptListsRequests \/ ScriptReadsLock \/ ScriptDeletesLock
    PROVE  CreateInv' /\ ReleaseInv' /\ CloseInv'
BY DEF TableInv, CreateInv, ReleaseInv, CloseInv, Lapse,
       ScriptListsRequests, ScriptReadsLock, ScriptDeletesLock

\* What was disturbed stays disturbed.
LEMMA Monotone == TypeOK /\ [Next]_vars => (disturbed => disturbed')
<1> SUFFICES ASSUME TypeOK, [Next]_vars PROVE disturbed => disturbed'
    OBVIOUS
<1>1. CASE UNCHANGED vars
    BY <1>1 DEF vars
<1>2. ASSUME NEW r \in Request, CreateStep(r) PROVE disturbed => disturbed'
    BY <1>2 DEF CreateStep, Start, TakeLock, ReadLock, ReplaceLock, InsertRow, UndoLock,
                CreateCallRefused, CreateAnswerLost, CreatorCrash
<1>3. ASSUME NEW c \in Closer,
             CloseStep(c) \/ CloserFails(c) \/ \E r \in Request : BeginClose(c, r)
      PROVE  disturbed => disturbed'
    BY <1>3 DEF CloseStep, WriteTerminal, CloseRefused, GetLock, DeleteLock,
                CloserFails, BeginClose
<1>4. ASSUME \/ \E r \in Request : Lapse(r)
             \/ ScriptListsRequests \/ ScriptReadsLock \/ ScriptDeletesLock
      PROVE  disturbed => disturbed'
    BY <1>4 DEF Lapse, ScriptListsRequests, ScriptReadsLock, ScriptDeletesLock
<1> QED BY <1>1, <1>2, <1>3, <1>4 DEF Next

LEMMA NextLockInv ==
    ASSUME LockInv, [Next]_vars
    PROVE  LockInv'
<1>1. TypeOK'
    BY NextType DEF LockInv, TableInv
<1>2. ~disturbed' => CoverInv
    BY Monotone DEF LockInv, TableInv
<1>3. CASE UNCHANGED vars
    BY <1>1, <1>3 DEF vars, LockInv, TableInv, CreateInv, CoverInv, ReleaseInv,
                      CloseInv, Live
<1>4. ASSUME NEW r \in Request, CreateStep(r) PROVE LockInv'
    BY <1>1, <1>2, <1>4, CreateCover, CreateTable DEF LockInv, TableInv
<1>5. ASSUME NEW c \in Closer,
             CloseStep(c) \/ CloserFails(c) \/ \E r \in Request : BeginClose(c, r)
      PROVE  LockInv'
    BY <1>1, <1>2, <1>5, CloseCover, CloseTable DEF LockInv, TableInv
<1>6. ASSUME \/ \E r \in Request : Lapse(r)
             \/ ScriptListsRequests \/ ScriptReadsLock \/ ScriptDeletesLock
      PROVE  LockInv'
    BY <1>1, <1>2, <1>6, OtherCover, OtherTable DEF LockInv, TableInv
<1> QED BY <1>3, <1>4, <1>5, <1>6 DEF Next

\* An employee never has two live requests, however createRequest, takeovers and
\* releases interleave, crash or are refused, as long as nothing disturbed the lock.
THEOREM OneRequestPerEmployee == Spec => []OneLiveRequestUndisturbed
<1>1. LockInv => OneLiveRequestUndisturbed
    BY DEF LockInv, CoverInv, OneLiveRequestUndisturbed, OneLiveRequest
<1> QED BY <1>1, NextLockInv, InitLockInv, PTL DEF Spec

-----------------------------------------------------------------------------

\* A closing handler that holds a claim on the lock of its closed request keeps it
\* until the lock has another owner, or fails.
LEMMA CloseFrees ==
    ASSUME TableInv, ClosedRequestFreesEmployee, NEW c \in Closer,
           CloseStep(c) \/ CloserFails(c) \/ \E r \in Request : BeginClose(c, r)
    PROVE  ClosedRequestFreesEmployee'
<1> SUFFICES ASSUME NEW r \in Request, row'[r] = "terminal", lock' = r
             PROVE  \E d \in Closer : /\ closer'[d].request = r
                                      /\ closer'[d].pc \in {"get", "delete", "failed"}
    BY DEF ClosedRequestFreesEmployee
<1> USE DEF TableInv, TypeOK
<1>1. \A d \in Closer \ {c} : closer'[d] = closer[d]
    BY DEF CloseStep, WriteTerminal, CloseRefused, GetLock, DeleteLock, CloserFails,
           BeginClose, ToCloser
<1>2. CASE WriteTerminal(c) /\ closer[c].request = r
    BY <1>2 DEF WriteTerminal, ToCloser
<1>3. CASE WriteTerminal(c) /\ closer[c].request # r
    <2>1. row[r] = "terminal" /\ lock = r /\ closer[c].pc = "write"
        BY <1>3 DEF WriteTerminal, CloseInv
    <2> QED BY <1>1, <2>1 DEF ClosedRequestFreesEmployee
<1>4. CASE ~WriteTerminal(c)
    <2>1. row[r] = "terminal" /\ lock = r
        BY <1>4, NoneAssumption DEF CloseStep, CloseRefused, GetLock, DeleteLock,
           CloserFails, BeginClose
    <2>2. PICK d \in Closer : closer[d].request = r /\ closer[d].pc \in {"get", "delete", "failed"}
        BY <2>1 DEF ClosedRequestFreesEmployee
    <2>3. CASE d # c
        BY <1>1, <2>2, <2>3
    <2>4. CASE d = c
        <3>1. closer'[c].request = r /\ closer'[c].pc \in {"delete", "failed"}
            BY <1>4, <2>1, <2>2, <2>4, NoneAssumption
            DEF CloseStep, CloseRefused, GetLock, DeleteLock, CloserFails, BeginClose,
                ToCloser, OwnLock
        <3> QED BY <3>1
    <2> QED BY <2>3, <2>4
<1> QED BY <1>2, <1>3, <1>4

\* Only a failure of the closing handler itself leaves the lock of a closed request
\* behind, whatever else goes wrong: lost answers, slow creations, the script.
THEOREM ClosedRequestsFreeEmployees == Spec => []ClosedRequestFreesEmployee
<1>1. ASSUME LockInv, ClosedRequestFreesEmployee, [Next]_vars
      PROVE  ClosedRequestFreesEmployee'
    <2>1. CASE UNCHANGED vars
        BY <1>1, <2>1 DEF vars, ClosedRequestFreesEmployee
    <2>2. ASSUME NEW r \in Request, CreateStep(r) PROVE ClosedRequestFreesEmployee'
        BY <1>1, <2>2, CreateTable, NoneAssumption
        DEF LockInv, TableInv, TypeOK, ClosedRequestFreesEmployee
    <2>3. ASSUME NEW c \in Closer,
                 CloseStep(c) \/ CloserFails(c) \/ \E r \in Request : BeginClose(c, r)
          PROVE  ClosedRequestFreesEmployee'
        BY <1>1, <2>3, CloseFrees DEF LockInv
    <2>4. ASSUME \/ \E r \in Request : Lapse(r)
                 \/ ScriptListsRequests \/ ScriptReadsLock \/ ScriptDeletesLock
          PROVE  ClosedRequestFreesEmployee'
        BY <1>1, <2>4, NoneAssumption
        DEF Lapse, ScriptListsRequests, ScriptReadsLock, ScriptDeletesLock,
            ClosedRequestFreesEmployee
    <2> QED BY <1>1, <2>1, <2>2, <2>3, <2>4 DEF Next
<1>2. LockInv /\ [Next]_vars => LockInv'
    BY NextLockInv
<1> QED BY <1>1, <1>2, InitLockInv, PTL DEF Spec
=============================================================================
