---------------------------- MODULE OptimisticUpdate ----------------------------
(***************************************************************************)
(* updateRequest of both services: read the row and its etag, test the      *)
(* guard, write the new row under that etag, and begin again when another   *)
(* writer was faster, five times at most. Several updates of one request    *)
(* interleave call by call. The other modules take an update for one step;  *)
(* this one shows in which sense it is.                                     *)
(*                                                                          *)
(* The contents of the row are the updates that made it, in order.          *)
(***************************************************************************)
EXTENDS Integers, Sequences

CONSTANTS
    Update,      \* calls of updateRequest
    Claim,       \* those whose guard fails once one of them is applied
    Repeated,    \* those whose write the table client may send twice
    MaxAttempts  \* turns of the loop: five

ASSUME ClaimAssumption == Claim \subseteq Update
ASSUME RepeatedAssumption == Repeated \subseteq Update
ASSUME MaxAttemptsAssumption == MaxAttempts \in Nat \ {0}

VARIABLES
    row,    \* the stored request and its version, which is the etag
    caller  \* for each call, where it is, the row it read and the races it lost

vars == <<row, caller>>

Row == [updates : Seq(Update), version : Nat]

NewRow == [updates |-> <<>>, version |-> 0]

Init ==
    /\ row = NewRow
    /\ caller = [u \in Update |-> [pc |-> "read", base |-> NewRow, lost |-> 0]]

\* The guard: allowedStates, and the conditions the update itself tests.
Allowed(u, done) ==
    u \in Claim => \A i \in 1 .. Len(done) : done[i] \notin Claim

Go(u, pc) == caller' = [caller EXCEPT ![u].pc = pc]

\* getRequest and the guard on what it returned.
Read(u) ==
    /\ caller[u].pc = "read"
    /\ caller' = [caller EXCEPT
          ![u].pc = IF Allowed(u, row.updates) THEN "write" ELSE "refused",
          ![u].base = row]
    /\ UNCHANGED row

\* Mutant: the write is unconditional.
CurrentAlways(u) == TRUE

\* The etag that was read is still the row's.
Current(u) == caller[u].base.version = row.version

\* replaceRequest takes effect.
Store(u) ==
    /\ Current(u)
    /\ row' = [updates |-> Append(caller[u].base.updates, u),
               version |-> row.version + 1]

\* Mutant: the loop is left a turn early.
LoseRaceEarly(u) ==
    caller' = [caller EXCEPT
        ![u].pc = IF caller[u].lost + 2 >= MaxAttempts THEN "abandoned" ELSE "read",
        ![u].lost = @ + 1]

\* Mutant: the loop has no limit.
LoseRaceForever(u) ==
    caller' = [caller EXCEPT ![u].pc = "read", ![u].lost = @ + 1]

\* A conflict: the next turn of the loop, if there is one.
LoseRace(u) ==
    caller' = [caller EXCEPT
        ![u].pc = IF caller[u].lost + 1 = MaxAttempts THEN "abandoned" ELSE "read",
        ![u].lost = @ + 1]

\* The write succeeds; for a terminal state the call can still fail, when the
\* employee's lock cannot be released.
Write(u) ==
    /\ caller[u].pc = "write"
    /\ Store(u)
    /\ Go(u, "done") \/ Go(u, "error")

WriteConflict(u) ==
    /\ caller[u].pc = "write"
    /\ ~Current(u)
    /\ LoseRace(u)
    /\ UNCHANGED row

\* The write succeeds, its answer is lost, the client sends it again under the old
\* etag, and updateRequest sees a conflict with itself.
RepeatedWrite(u) ==
    /\ u \in Repeated
    /\ caller[u].pc = "write"
    /\ Store(u)
    /\ LoseRace(u)

\* The table refuses a call, or the process dies before it.
CallFails(u) ==
    /\ caller[u].pc \in {"read", "write"}
    /\ Go(u, "error")
    /\ UNCHANGED row

Next ==
    \E u \in Update :
        Read(u) \/ Write(u) \/ WriteConflict(u) \/ RepeatedWrite(u) \/ CallFails(u)

Spec == Init /\ [][Next]_vars

-----------------------------------------------------------------------------
(* Properties *)

\* The values the variables may have.
TypeOK ==
    /\ row \in Row
    /\ caller \in [Update -> [pc : {"read", "write", "done", "refused", "abandoned",
                                    "error"},
                              base : Row,
                              lost : 0 .. MaxAttempts]]

\* A call of updateRequest gives up only after as many writes took effect as it made
\* attempts: the loop never fails for want of trying.  They are writes of other calls,
\* except that a Repeated call loses races against its own repeated writes too.
GivesUpOnlyWhenOvertaken ==
    \A u \in Update :
        caller[u].pc = "abandoned" => Len(row.updates) >= MaxAttempts

Answer(u) == IF caller[u].pc \in {"read", "write"} THEN "pending" ELSE caller[u].pc

Atomic == INSTANCE AtomicUpdate
    WITH applied <- row.updates, answer <- [u \in Update |-> Answer(u)]

\* Interleaved calls of updateRequest lose no update, apply none twice unless the
\* table client repeats its write (Repeated), and never apply one to a state that its
\* guard refuses: they implement AtomicUpdate.
ImplementsAtomicUpdate == Atomic!Spec
=============================================================================
