------------------------------- MODULE RateLimit -------------------------------
(***************************************************************************)
(* enforceRateLimit and incrementRateLimit: a call reads the counter of its *)
(* bucket, writes it back one higher under the etag it read, and is allowed *)
(* when the number it wrote is within the limit.  Handlers interleave call  *)
(* by call; a conflict sends a call round its loop again.                   *)
(*                                                                          *)
(* One bucket is followed: the bucket is in the key, so buckets share       *)
(* nothing, and its row expires only a whole window after the last call     *)
(* that can name it.  Writes only ever raise the count, so the count read   *)
(* stands for the etag.                                                     *)
(***************************************************************************)
EXTENDS Integers

CONSTANTS
    Worker,        \* handlers
    Limit,         \* admissions per bucket
    RateAttempts,  \* turns of the loop: five
    MaxCount,      \* bound: no call begins once the counter stands here
    MaxWasted,     \* bound: increments whose caller never learns of them
    Events         \* what may go wrong

ASSUME LimitAssumption == Limit \in Nat
ASSUME RateAttemptsAssumption == RateAttempts \in Nat \ {0}

VARIABLES
    limiter,  \* the stored count (0: no row yet), and what became of each increment
    call      \* for each handler its call: where it is, the count read, the races lost

rateVars == <<limiter, call>>

NoCall == [at |-> "none", seen |-> 0, lost |-> 0]

RateInit ==
    /\ limiter = [count |-> 0, admitted |-> 0, refused |-> 0, wasted |-> 0]
    /\ call = [w \in Worker |-> NoCall]

\* Mutant: the limit itself is refused.
AllowedStrictly(count) == count < Limit

Allowed(count) == count <= Limit

BeginCall(w) ==
    /\ call[w].at = "none"
    /\ limiter.count < MaxCount
    /\ call' = [call EXCEPT ![w].at = "read"]
    /\ UNCHANGED limiter

\* getEntity; that there is no row is an answer too.
ReadCounter(w) ==
    /\ call[w].at = "read"
    /\ call' = [call EXCEPT ![w].at = "write", ![w].seen = limiter.count]
    /\ UNCHANGED limiter

\* Mutant: the counter is written whatever its etag.
UnchangedSinceAlways(w) == TRUE

\* updateEntity's etag still holds, or createEntity finds no row.
UnchangedSince(w) == call[w].seen = limiter.count

Return(w, answer) == call' = [call EXCEPT ![w] = [NoCall EXCEPT !.at = answer]]

WriteCounter(w) ==
    /\ call[w].at = "write"
    /\ UnchangedSince(w)
    /\ IF Allowed(call[w].seen + 1)
       THEN /\ limiter' = [limiter EXCEPT !.count = call[w].seen + 1, !.admitted = @ + 1]
            /\ Return(w, "admitted")
       ELSE /\ limiter' = [limiter EXCEPT !.count = call[w].seen + 1, !.refused = @ + 1]
            /\ Return(w, "refused")

\* Mutant: the loop takes a turn too many.
NextTurnTooFar(w) ==
    IF call[w].lost = RateAttempts
    THEN Return(w, "failed")
    ELSE call' = [call EXCEPT ![w] = [at |-> "read", seen |-> 0, lost |-> @.lost + 1]]

\* A conflict: the next turn of the loop, if there is one.
NextTurn(w) ==
    IF call[w].lost + 1 = RateAttempts
    THEN Return(w, "failed")
    ELSE call' = [call EXCEPT ![w] = [at |-> "read", seen |-> 0, lost |-> @.lost + 1]]

LoseRace(w) ==
    /\ call[w].at = "write"
    /\ ~UnchangedSince(w)
    /\ NextTurn(w)
    /\ UNCHANGED limiter

\* The write is stored and its answer lost.  The client sends it again and meets
\* its own write as a conflict, or gives up and the error is thrown.
LoseAnswer(w) ==
    /\ "lost-answer" \in Events
    /\ call[w].at = "write"
    /\ UnchangedSince(w)
    /\ limiter.wasted < MaxWasted
    /\ limiter' = [limiter EXCEPT !.count = call[w].seen + 1, !.wasted = @ + 1]
    /\ NextTurn(w) \/ Return(w, "failed")

\* Any other storage error is thrown.
FailCall(w) ==
    /\ "storage-fault" \in Events
    /\ call[w].at \in {"read", "write"}
    /\ Return(w, "failed")
    /\ UNCHANGED limiter

RateStep(w) ==
    \/ ReadCounter(w)
    \/ WriteCounter(w)
    \/ LoseRace(w)
    \/ LoseAnswer(w)
    \/ FailCall(w)

\* The handler takes the answer, or dies.
EndCall(w) ==
    /\ call' = [call EXCEPT ![w] = NoCall]
    /\ UNCHANGED limiter

-----------------------------------------------------------------------------
(* The promise of the limiter *)

\* However the calls for one bucket interleave, fail and repeat, no more of them
\* are allowed than the limit (incrementRateLimit, onboarding-v2-service.js:426).
AdmittedWithinLimit == limiter.admitted <= Limit

\* A call is refused only after the whole limit was counted: admitted, or wasted
\* on a caller that never learned of it.  No increment is lost or counted twice
\* otherwise (incrementRateLimit, onboarding-v2-service.js:426).
RefusedOnlyWhenSpent ==
    limiter.refused > 0 => limiter.admitted + limiter.wasted >= Limit
=============================================================================
