------------------------------ MODULE AtomicUpdate ------------------------------
(***************************************************************************)
(* What updateRequest promises: an update of a request happens in one step, *)
(* on a state that its guard allows, and once; or it does not happen. The   *)
(* caller of a refused or abandoned update knows that it did not; one that  *)
(* meets an error knows nothing. A Repeated update may happen more than     *)
(* once, and its caller may be told that it was refused or gave up.         *)
(***************************************************************************)
EXTENDS Integers, Sequences

CONSTANTS
    Update,   \* the updates that are called
    Claim,    \* those that only one may win: each leaves the state it starts from
    Repeated  \* those whose write the table client may send twice

VARIABLES
    applied,  \* the updates in the order in which they took effect
    answer    \* for each update, what its caller knows

Allowed(u, done) ==
    u \in Claim => \A i \in 1 .. Len(done) : done[i] \notin Claim

Init ==
    /\ applied = <<>>
    /\ answer = [u \in Update |-> "pending"]

Settle(u, a) == answer' = [answer EXCEPT ![u] = a]

\* The update takes effect. Its caller may see an error all the same, and the
\* caller of a repeated write may see nothing and go on.
Apply(u) ==
    /\ answer[u] = "pending"
    /\ Allowed(u, applied)
    /\ applied' = Append(applied, u)
    /\ \/ Settle(u, "done") \/ Settle(u, "error")
       \/ u \in Repeated /\ (Settle(u, "abandoned") \/ UNCHANGED answer)

Refuse(u) ==
    /\ answer[u] = "pending"
    /\ ~Allowed(u, applied)
    /\ Settle(u, "refused")
    /\ UNCHANGED applied

\* Too many lost races, or an error before anything was written.
Abandon(u) ==
    /\ answer[u] = "pending"
    /\ Settle(u, "abandoned") \/ Settle(u, "error")
    /\ UNCHANGED applied

Next == \E u \in Update : Apply(u) \/ Refuse(u) \/ Abandon(u)

Spec == Init /\ [][Next]_<<applied, answer>>
=============================================================================
