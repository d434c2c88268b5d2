------------------------ MODULE OptimisticUpdate_proofs ------------------------
(***************************************************************************)
(* Proofs about updateRequest for any number of calls and any limit on the  *)
(* attempts: the loop implements an atomic update.                          *)
(***************************************************************************)
EXTENDS OptimisticUpdate, TLAPS

\* A call that is about to write has a guard that was true of the row it read, and
\* if the etag has not changed, neither has the row. A row has a version for each
\* update, and a call has seen a new one for each race it lost.
ReadRowInv ==
    \A u \in Update :
        /\ caller[u].pc = "write" =>
              /\ Allowed(u, caller[u].base.updates)
              /\ caller[u].base.version <= row.version
              /\ caller[u].base.version = row.version => caller[u].base = row
              /\ caller[u].lost <= caller[u].base.version
        /\ caller[u].lost <= row.version
        /\ caller[u].pc \in {"read", "write"} => caller[u].lost < MaxAttempts
        /\ caller[u].pc = "abandoned" => caller[u].lost = MaxAttempts

VersionInv == row.version = Len(row.updates)

UpdateInv == TypeOK /\ VersionInv /\ ReadRowInv

LEMMA InitUpdateInv == Init => UpdateInv
<1> SUFFICES ASSUME Init PROVE UpdateInv
    OBVIOUS
<1> NewRow \in Row /\ Len(<<>>) = 0
    BY DEF NewRow, Row
<1> QED
    BY MaxAttemptsAssumption
    DEF Init, UpdateInv, TypeOK, VersionInv, ReadRowInv, NewRow

LEMMA ReadInv ==
    ASSUME UpdateInv, NEW u \in Update, Read(u)
    PROVE  UpdateInv'
<1> USE DEF UpdateInv
<1>1. TypeOK'
    <2> DEFINE pc == IF Allowed(u, row.updates) THEN "write" ELSE "refused"
    <2>1. pc \in {"write", "refused"}
        OBVIOUS
    <2>2. row' = row /\ caller' = [caller EXCEPT ![u] = [@ EXCEPT !.pc = pc, !.base = row]]
        BY DEF Read, TypeOK
    <2> HIDE DEF pc
    <2> QED BY <2>1, <2>2 DEF TypeOK
<1>2. VersionInv'
    BY DEF Read, VersionInv
<1>3. ReadRowInv'
    <2> SUFFICES ASSUME NEW v \in Update
                 PROVE  ReadRowInv!(v)'
        BY DEF ReadRowInv
    <2>1. row' = row /\ row.version \in Nat
        BY DEF Read, TypeOK, Row
    <2>2. CASE v # u
        <3> caller'[v] = caller[v]
            BY <2>2 DEF Read, TypeOK
        <3> QED BY <2>1 DEF ReadRowInv, Allowed
    <2>3. CASE v = u
        <3>1. /\ caller'[v].base = row
              /\ caller'[v].lost = caller[v].lost
              /\ caller'[v].pc = IF Allowed(u, row.updates) THEN "write" ELSE "refused"
              /\ caller[v].pc = "read"
            BY <2>3 DEF Read, TypeOK
        <3> QED BY <2>1, <2>3, <3>1 DEF ReadRowInv, Allowed
    <2> QED BY <2>2, <2>3
<1> QED BY <1>1, <1>2, <1>3

\* A write under the current etag: the new row, whatever the call does next.
LEMMA StoreFacts ==
    ASSUME UpdateInv, NEW u \in Update, caller[u].pc = "write", Store(u)
    PROVE  /\ row' \in Row
           /\ row'.updates = Append(row.updates, u)
           /\ row'.version = row.version + 1
           /\ row.version \in Nat
           /\ VersionInv'
<1>1. caller[u].base = row /\ row \in Row
    BY DEF UpdateInv, TypeOK, ReadRowInv, Store, Current
<1> QED BY <1>1 DEF UpdateInv, Store, Row, VersionInv

\* What the other calls keep when the row is unchanged or has a new version.
LEMMA OthersKeep ==
    ASSUME UpdateInv, NEW u \in Update, NEW v \in Update, v # u,
           \/ row' = row
           \/ row'.version = row.version + 1,
           caller'[v] = caller[v]
    PROVE  ReadRowInv!(v)'
<1>1. row.version \in Nat /\ caller[v].base.version \in Nat /\ caller[v].lost \in Nat
    BY DEF UpdateInv, TypeOK, Row
<1> QED BY <1>1 DEF UpdateInv, ReadRowInv, Allowed

LEMMA WriteInv ==
    ASSUME UpdateInv, NEW u \in Update, Write(u)
    PROVE  UpdateInv'
<1>1. PICK pc \in {"done", "error"} : caller' = [caller EXCEPT ![u].pc = pc]
    BY DEF Write, Go
<1>2. TypeOK' /\ VersionInv'
    BY <1>1, StoreFacts DEF Write, UpdateInv, TypeOK
<1>3. ReadRowInv'
    <2> SUFFICES ASSUME NEW v \in Update
                 PROVE  ReadRowInv!(v)'
        BY DEF ReadRowInv
    <2>1. row'.version = row.version + 1 /\ row.version \in Nat
        BY StoreFacts DEF Write
    <2>2. CASE v # u
        BY <1>1, <2>1, <2>2, OthersKeep DEF UpdateInv, TypeOK
    <2>3. CASE v = u
        <3> caller'[v].pc = pc /\ caller'[v].lost = caller[v].lost /\ caller[v].lost \in Nat
            BY <1>1, <2>3 DEF UpdateInv, TypeOK
        <3> QED BY <2>1 DEF UpdateInv, ReadRowInv
    <2> QED BY <2>2, <2>3
<1> QED BY <1>2, <1>3 DEF UpdateInv

\* A lost race, with a row whose version is beyond the one that was read.
LEMMA LoseRaceInv ==
    ASSUME UpdateInv, NEW u \in Update, caller[u].pc = "write", LoseRace(u),
           row' \in Row, VersionInv',
           \/ row' = row /\ ~Current(u)
           \/ row'.version = row.version + 1
    PROVE  UpdateInv'
<1>1. /\ caller[u].lost \in 0 .. MaxAttempts
      /\ caller[u].lost < MaxAttempts
      /\ caller[u].lost <= caller[u].base.version
      /\ caller[u].base.version <= row.version
      /\ caller[u].base.version \in Nat /\ row.version \in Nat
    BY DEF UpdateInv, TypeOK, ReadRowInv, Row
<1>2. /\ caller'[u].lost = caller[u].lost + 1
      /\ caller'[u].base = caller[u].base
      /\ caller'[u].pc = IF caller[u].lost + 1 = MaxAttempts THEN "abandoned" ELSE "read"
    BY DEF LoseRace, UpdateInv, TypeOK
<1>3. TypeOK'
    BY <1>1, MaxAttemptsAssumption DEF LoseRace, UpdateInv, TypeOK
<1>4. ReadRowInv'
    <2> SUFFICES ASSUME NEW v \in Update
                 PROVE  ReadRowInv!(v)'
        BY DEF ReadRowInv
    <2>1. CASE v # u
        <3> caller'[v] = caller[v]
            BY <2>1 DEF LoseRace, UpdateInv, TypeOK
        <3> QED BY <2>1, OthersKeep
    <2>2. CASE v = u
        BY <1>1, <1>2, <2>2, MaxAttemptsAssumption DEF Current
    <2> QED BY <2>1, <2>2
<1> QED BY <1>3, <1>4 DEF UpdateInv

LEMMA CallFailsInv ==
    ASSUME UpdateInv, NEW u \in Update, CallFails(u)
    PROVE  UpdateInv'
<1>1. TypeOK' /\ VersionInv'
    BY DEF CallFails, Go, UpdateInv, TypeOK, VersionInv
<1>2. ReadRowInv'
    <2> SUFFICES ASSUME NEW v \in Update
                 PROVE  ReadRowInv!(v)'
        BY DEF ReadRowInv
    <2>1. row' = row
        BY DEF CallFails
    <2>2. CASE v # u
        <3> caller'[v] = caller[v]
            BY <2>2 DEF CallFails, Go, UpdateInv, TypeOK
        <3> QED BY <2>1, <2>2, OthersKeep
    <2>3. CASE v = u
        <3> caller'[v].pc = "error" /\ caller'[v].lost = caller[v].lost
            BY <2>3 DEF CallFails, Go, UpdateInv, TypeOK
        <3> QED BY <2>1 DEF UpdateInv, ReadRowInv
    <2> QED BY <2>2, <2>3
<1> QED BY <1>1, <1>2 DEF UpdateInv

LEMMA NextUpdateInv == UpdateInv /\ [Next]_vars => UpdateInv'
<1> SUFFICES ASSUME UpdateInv, [Next]_vars PROVE UpdateInv'
    OBVIOUS
<1>1. CASE UNCHANGED vars
    BY <1>1 DEF vars, UpdateInv, TypeOK, VersionInv, ReadRowInv, Allowed
<1>2. ASSUME NEW u \in Update, WriteConflict(u) PROVE UpdateInv'
    BY <1>2, LoseRaceInv DEF WriteConflict, UpdateInv, TypeOK, VersionInv
<1>3. ASSUME NEW u \in Update, RepeatedWrite(u) PROVE UpdateInv'
    BY <1>3, LoseRaceInv, StoreFacts DEF RepeatedWrite
<1> QED
    BY <1>1, <1>2, <1>3, ReadInv, WriteInv, CallFailsInv DEF Next

-----------------------------------------------------------------------------

\* The rows and the calls of updateRequest have their types in every state.
THEOREM UpdateTypeCorrect == Spec => []TypeOK
<1>1. UpdateInv => TypeOK
    BY DEF UpdateInv
<1> QED BY <1>1, InitUpdateInv, NextUpdateInv, PTL DEF Spec

\* A call of updateRequest that gives up has lost every race to a write that took
\* effect, another call's or its own repeated one, whatever the number of calls and
\* the limit.
THEOREM AbandonedWereOvertaken == Spec => []GivesUpOnlyWhenOvertaken
<1>1. UpdateInv => GivesUpOnlyWhenOvertaken
    BY DEF UpdateInv, VersionInv, ReadRowInv, GivesUpOnlyWhenOvertaken
<1> QED BY <1>1, InitUpdateInv, NextUpdateInv, PTL DEF Spec

\* updateRequest's loop implements an update in one step (AtomicUpdate).
THEOREM LoopIsAtomic == Spec => ImplementsAtomicUpdate
<1>1. Init => Atomic!Init
    BY DEF Init, NewRow, Atomic!Init, Answer
<1>2. UpdateInv /\ [Next]_vars => [Atomic!Next]_<<row.updates, [u \in Update |-> Answer(u)]>>
    <2> SUFFICES ASSUME UpdateInv, Next
                 PROVE  [Atomic!Next]_<<row.updates, [u \in Update |-> Answer(u)]>>
        BY DEF vars, Answer
    <2> DEFINE answer == [u \in Update |-> Answer(u)]
    <2> PICK u \in Update :
          Read(u) \/ Write(u) \/ WriteConflict(u) \/ RepeatedWrite(u) \/ CallFails(u)
        BY DEF Next
    <2>1. CASE Read(u)
        <3>1. \A v \in Update \ {u} : caller'[v] = caller[v]
            BY <2>1 DEF Read, UpdateInv, TypeOK
        <3>2. row' = row /\ caller[u].pc = "read"
            BY <2>1 DEF Read
        <3>3. CASE Allowed(u, row.updates)
            <4> caller'[u].pc = "write"
                BY <2>1, <3>3 DEF Read, UpdateInv, TypeOK
            <4> answer' = answer
                BY <3>1, <3>2 DEF Answer
            <4> QED BY <3>2
        <3>4. CASE ~Allowed(u, row.updates)
            <4> caller'[u].pc = "refused"
                BY <2>1, <3>4 DEF Read, UpdateInv, TypeOK
            <4> answer' = [answer EXCEPT ![u] = "refused"] /\ answer[u] = "pending"
                BY <3>1, <3>2 DEF Answer
            <4> Atomic!Refuse(u)
                BY <3>2, <3>4 DEF Atomic!Refuse, Atomic!Settle, Atomic!Allowed, Allowed
            <4> QED BY DEF Atomic!Next
        <3> QED BY <3>3, <3>4
    <2>2. CASE Write(u)
        <3>1. PICK pc \in {"done", "error"} : caller' = [caller EXCEPT ![u].pc = pc]
            BY <2>2 DEF Write, Go
        <3>2. answer' = [answer EXCEPT ![u] = pc] /\ answer[u] = "pending"
            BY <2>2, <3>1 DEF Answer, Write, UpdateInv, TypeOK
        <3>3. row'.updates = Append(row.updates, u) /\ Allowed(u, row.updates)
            BY <2>2, StoreFacts DEF Write, UpdateInv, ReadRowInv, Store, Current
        <3> Atomic!Apply(u)
            BY <3>2, <3>3 DEF Atomic!Apply, Atomic!Settle, Atomic!Allowed, Allowed
        <3> QED BY DEF Atomic!Next
    <2>3. ASSUME LoseRace(u), caller[u].pc = "write"
          PROVE  /\ answer[u] = "pending"
                 /\ answer' = answer \/ answer' = [answer EXCEPT ![u] = "abandoned"]
        <3>1. \A v \in Update \ {u} : caller'[v] = caller[v]
            BY <2>3 DEF LoseRace, UpdateInv, TypeOK
        <3>2. caller'[u].pc \in {"read", "abandoned"}
            BY <2>3 DEF LoseRace, UpdateInv, TypeOK
        <3>3. answer[u] = "pending"
            BY <2>3 DEF Answer
        <3>4. CASE caller'[u].pc = "read"
            BY <2>3, <3>1, <3>3, <3>4 DEF Answer
        <3>5. CASE caller'[u].pc = "abandoned"
            BY <2>3, <3>1, <3>3, <3>5 DEF Answer
        <3> QED BY <3>2, <3>3, <3>4, <3>5
    <2>4. CASE WriteConflict(u)
        <3> row' = row
            BY <2>4 DEF WriteConflict
        <3> QED
            BY <2>3, <2>4 DEF WriteConflict, Atomic!Next, Atomic!Abandon, Atomic!Settle
    <2>5. CASE RepeatedWrite(u)
        <3>1. row'.updates = Append(row.updates, u) /\ Allowed(u, row.updates)
            BY <2>5, StoreFacts DEF RepeatedWrite, UpdateInv, ReadRowInv, Store, Current
        <3> Atomic!Apply(u)
            BY <2>3, <2>5, <3>1
            DEF RepeatedWrite, Atomic!Apply, Atomic!Settle, Atomic!Allowed, Allowed
        <3> QED BY DEF Atomic!Next
    <2>6. CASE CallFails(u)
        <3> answer' = [answer EXCEPT ![u] = "error"] /\ answer[u] = "pending" /\ row' = row
            BY <2>6 DEF CallFails, Go, Answer, UpdateInv, TypeOK
        <3> QED BY DEF Atomic!Next, Atomic!Abandon, Atomic!Settle
    <2> QED BY <2>1, <2>2, <2>4, <2>5, <2>6
<1> QED BY <1>1, <1>2, InitUpdateInv, NextUpdateInv, PTL
        DEF Spec, ImplementsAtomicUpdate, Atomic!Spec
=============================================================================
