---------------------------- MODULE RequestLifecycle ----------------------------
(***************************************************************************)
(* What the portal promises about one onboarding request, without the row,  *)
(* the handlers or the services: approval comes before proof of identity,   *)
(* proof before the Temporary Access Pass, passes are made one at a time    *)
(* and only on behalf of a proved request, the pass shown is the newest and *)
(* is shown once, and a closed request is never opened again.               *)
(***************************************************************************)
EXTENDS Naturals

VARIABLES
    stage,    \* how far the request has come
    working,  \* an operation that may create a pass is under way
    passes,   \* passes created so far; the last one is the one that works
    shown     \* the passes that were displayed

lifecycle == <<stage, working, passes, shown>>

Open == {"waiting", "approved", "proved", "pass-issued", "registered"}

Stage == Open \cup {"complete", "closed"}

Init ==
    /\ stage = "waiting"
    /\ working = FALSE
    /\ passes = 0
    /\ shown = {}

Advance(from, to) ==
    /\ stage = from
    /\ stage' = to
    /\ UNCHANGED <<working, passes, shown>>

Approve == Advance("waiting", "approved")
Prove == Advance("approved", "proved")
Register == Advance("pass-issued", "registered")
Finish == Advance("registered", "complete")

\* An administrator sends an open request back to the start.
Restart ==
    /\ stage \in Open
    /\ stage' = "waiting"
    /\ UNCHANGED <<working, passes, shown>>

\* Rejection, cancellation, lock-out or expiry, which overtakes even completion.
Close ==
    /\ stage' = "closed"
    /\ UNCHANGED <<working, passes, shown>>

\* Only for a proved request, and only one at a time.
StartWork ==
    /\ stage = "proved"
    /\ ~working
    /\ working' = TRUE
    /\ UNCHANGED <<stage, passes, shown>>

StopWork ==
    /\ working
    /\ working' = FALSE
    /\ UNCHANGED <<stage, passes, shown>>

CreatePass ==
    /\ working
    /\ passes' = passes + 1
    /\ UNCHANGED <<stage, working, shown>>

IssuePass ==
    /\ working
    /\ passes > 0
    /\ stage = "proved"
    /\ stage' = "pass-issued"
    /\ working' = FALSE
    /\ UNCHANGED <<passes, shown>>

ShowPass ==
    /\ stage = "pass-issued"
    /\ passes \notin shown
    /\ shown' = shown \cup {passes}
    /\ UNCHANGED <<stage, working, passes>>

Next ==
    \/ Approve \/ Prove \/ Register \/ Finish
    \/ Restart \/ Close
    \/ StartWork \/ StopWork \/ CreatePass \/ IssuePass
    \/ ShowPass

Spec == Init /\ [][Next]_lifecycle
=============================================================================
