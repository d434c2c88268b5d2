------------------------ MODULE ManagerDashboard_proofs ------------------------
(***************************************************************************)
(* Proofs about the sessions, sign-ins and invitations for any number of    *)
(* handlers, sessions and sign-ins, any limit and any events: the limiter   *)
(* is exact, a destroyed session stays destroyed, a session has one         *)
(* standing, and authority comes from a sign-in for its purpose.            *)
(***************************************************************************)
EXTENDS ManagerDashboard, TLAPS

-----------------------------------------------------------------------------
(* The limiter *)

Increments == [count : Nat, admitted : Nat, refused : Nat, wasted : Nat]

\* Every increment is accounted for, and what is promised follows from the count.
LimiterInv ==
    /\ limiter \in Increments
    /\ limiter.count = limiter.admitted + limiter.refused + limiter.wasted
    /\ AdmittedWithinLimit
    /\ RefusedOnlyWhenSpent

LEMMA RateStepKeepsLimiter ==
    ASSUME LimiterInv, NEW w \in Worker, RateStep(w)
    PROVE  LimiterInv'
<1> USE LimitAssumption DEF LimiterInv, Increments, AdmittedWithinLimit, RefusedOnlyWhenSpent
<1>1. CASE ReadCounter(w)
    BY <1>1 DEF ReadCounter
<1>2. CASE WriteCounter(w)
    <2>1. CASE limiter.count + 1 <= Limit
        <3>1. limiter' = [limiter EXCEPT !.count = limiter.count + 1, !.admitted = limiter.admitted + 1]
            BY <1>2, <2>1 DEF WriteCounter, UnchangedSince, Allowed
        <3>2. limiter.count + 1 \in Nat /\ limiter.admitted + 1 \in Nat
            OBVIOUS
        <3>3. limiter' \in Increments
            BY <3>1, <3>2
        <3>4. /\ limiter'.count = limiter.count + 1
              /\ limiter'.admitted = limiter.admitted + 1
              /\ limiter'.refused = limiter.refused
              /\ limiter'.wasted = limiter.wasted
            BY <3>1
        <3> QED BY <2>1, <3>3, <3>4
    <2>2. CASE ~(limiter.count + 1 <= Limit)
        <3>1. limiter' = [limiter EXCEPT !.count = limiter.count + 1, !.refused = limiter.refused + 1]
            BY <1>2, <2>2 DEF WriteCounter, UnchangedSince, Allowed
        <3>2. limiter.count + 1 \in Nat /\ limiter.refused + 1 \in Nat
            OBVIOUS
        <3>3. limiter' \in Increments
            BY <3>1, <3>2
        <3>4. /\ limiter'.count = limiter.count + 1
              /\ limiter'.refused = limiter.refused + 1
              /\ limiter'.admitted = limiter.admitted
              /\ limiter'.wasted = limiter.wasted
            BY <3>1
        <3> QED BY <2>2, <3>3, <3>4
    <2> QED BY <2>1, <2>2
<1>3. CASE LoseRace(w)
    BY <1>3 DEF LoseRace
<1>4. CASE LoseAnswer(w)
    <2>1. limiter' = [limiter EXCEPT !.count = limiter.count + 1, !.wasted = limiter.wasted + 1]
            BY <1>4 DEF LoseAnswer, UnchangedSince
    <2>2. limiter.count + 1 \in Nat /\ limiter.wasted + 1 \in Nat
        OBVIOUS
    <2>3. limiter' \in Increments
        BY <2>1, <2>2
    <2>4. /\ limiter'.count = limiter.count + 1
          /\ limiter'.wasted = limiter.wasted + 1
          /\ limiter'.admitted = limiter.admitted
          /\ limiter'.refused = limiter.refused
        BY <2>1
    <2> QED BY <2>3, <2>4
<1>5. CASE FailCall(w)
    BY <1>5 DEF FailCall
<1> QED BY <1>1, <1>2, <1>3, <1>4, <1>5 DEF RateStep

\* Whatever is not a turn of the limiter leaves the counter alone.
LEMMA OnlyRateStepsCount ==
    ASSUME [Next]_vars
    PROVE  UNCHANGED limiter \/ \E w \in Worker : RateStep(w)
<1>1. CASE UNCHANGED vars
    BY <1>1 DEF vars, rateVars
<1>2. ASSUME NEW w \in Worker, SessionStep(w)
      PROVE  UNCHANGED limiter
    BY <1>2 DEF SessionStep, OpenExpired, Purge, ServePage, Intake, Bind, Complete,
                Finish, End, Crash, EndCall, rateVars
<1>3. ASSUME NEW w \in Worker, DashboardStep(w)
      PROVE  UNCHANGED limiter \/ RateStep(w)
    BY <1>3 DEF DashboardStep, BeginSignIn, CallbackArrives, LookUpDashboard,
                Authenticate, DeleteTransaction, SaveSignIn, Reject, ServeDashboard,
                ServeAdmin, OpenInvitation, BeginCall, CountInvitation,
                AnswerInvitation, EndCall, rateVars
<1>4. CASE \E s \in Sid : AuthorityLapses(s)
    BY <1>4 DEF AuthorityLapses, rateVars
<1>5. CASE \E t \in SignIn : SignInLapses(t)
    BY <1>5 DEF SignInLapses, rateVars
<1> QED BY <1>1, <1>2, <1>3, <1>4, <1>5 DEF Next

LEMMA LimiterInvariant == Spec => []LimiterInv
<1>1. Init => LimiterInv
    BY LimitAssumption DEF Init, RateInit, LimiterInv, Increments,
       AdmittedWithinLimit, RefusedOnlyWhenSpent
<1>2. LimiterInv /\ [Next]_vars => LimiterInv'
    <2> SUFFICES ASSUME LimiterInv, [Next]_vars PROVE LimiterInv'
        OBVIOUS
    <2>1. CASE UNCHANGED limiter
        BY <2>1 DEF LimiterInv, AdmittedWithinLimit, RefusedOnlyWhenSpent
    <2>2. CASE \E w \in Worker : RateStep(w)
        BY <2>2, RateStepKeepsLimiter
    <2> QED BY <2>1, <2>2, OnlyRateStepsCount
<1> QED BY <1>1, <1>2, PTL DEF Spec

\* However the calls for one bucket interleave, fail and repeat, no more of them
\* are allowed than the limit (incrementRateLimit, onboarding-v2-service.js:426).
THEOREM LimitIsKept == Spec => []AdmittedWithinLimit
<1>1. LimiterInv => AdmittedWithinLimit
    BY DEF LimiterInv
<1> QED BY <1>1, LimiterInvariant, PTL

\* No call is refused before the limit was counted (incrementRateLimit,
\* onboarding-v2-service.js:426).
THEOREM LimitIsUsed == Spec => []RefusedOnlyWhenSpent
<1>1. LimiterInv => RefusedOnlyWhenSpent
    BY DEF LimiterInv
<1> QED BY <1>1, LimiterInvariant, PTL
-----------------------------------------------------------------------------
(* Types *)

HandlerType == [at : Place, held : Held, txn : SignIn \cup {None},
                purpose : Role \cup {None},
                answer : {None, "complete", "rejected"}, faulty : BOOLEAN]

CallType == [at : {"none", "read", "write", "admitted", "refused", "failed"},
             seen : Nat, lost : 0 .. RateAttempts - 1]

LEMMA NewSessionType ==
    ASSUME NEW marks \in SUBSET Mark
    PROVE  NewSession(marks) \in Held
BY DEF NewSession, Held

LEMMA IdleType == IdleHandler \in HandlerType
<1>1. NewSession({}) \in Held
    BY NewSessionType
<1> QED BY <1>1 DEF IdleHandler, HandlerType, Place

LEMMA SessionType ==
    ASSUME TypeOK, NEW w \in Worker
    PROVE  Session(w) \in Held /\ Session(w).marks \in SUBSET Mark
<1>1. NewSession({}) \in Held
    BY NewSessionType
<1>2. ASSUME Present(cookie)
      PROVE  LoadedSession(cookie) \in Held
    BY <1>2 DEF TypeOK, Present, LoadedSession, Held
<1>3. Session(w) \in Held
    BY <1>1, <1>2 DEF Session, Retrieved
<1> QED BY <1>3 DEF Held

LEMMA ServeType ==
    ASSUME TypeOK, NEW w \in Worker, NEW place \in Place, NEW marks \in SUBSET Mark,
           Serve(w, place, marks)
    PROVE  handler' \in [Worker -> HandlerType]
<1>1. [Session(w) EXCEPT !.marks = marks] \in Held
    BY SessionType DEF Held
<1>2. [IdleHandler EXCEPT !.at = place, !.held = [Session(w) EXCEPT !.marks = marks]]
        \in HandlerType
    BY <1>1, IdleType DEF HandlerType
<1>3. handler \in [Worker -> HandlerType]
    BY DEF TypeOK, HandlerType
<1> QED BY <1>2, <1>3 DEF Serve

\* TypeOK in two parts, the sessions and the limiter.
PortalTypes ==
    /\ store \in [Sid -> {None} \cup SUBSET Mark]
    /\ cookie \in Sid \cup {None}
    /\ used \subseteq Sid
    /\ signin \in [SignIn -> [purpose : Role \cup {None}, open : BOOLEAN]]
    /\ handler \in [Worker -> HandlerType]
    /\ history \in [destroyed : SUBSET Sid, overtaken : SUBSET Sid, lapsed : SUBSET Sid]

CallTypes == call \in [Worker -> CallType]

LEMMA TypeParts == TypeOK <=> PortalTypes /\ CallTypes /\ limiter \in Increments
BY DEF TypeOK, PortalTypes, CallTypes, HandlerType, CallType, Increments

LEMMA CallStepType ==
    ASSUME CallTypes, LimiterInv, NEW w \in Worker,
           RateStep(w) \/ BeginCall(w) \/ EndCall(w) \/ UNCHANGED call
    PROVE  CallTypes'
<1> USE RateAttemptsAssumption DEF CallTypes, CallType
<1>1. NoCall \in CallType
    BY DEF NoCall
<1>2. ASSUME NEW answer \in {"admitted", "refused", "failed"}, Return(w, answer)
      PROVE  CallTypes'
    BY <1>1, <1>2 DEF Return
<1>3. ASSUME call[w].at = "write", NextTurn(w)
      PROVE  CallTypes'
    <2>1. CASE call[w].lost + 1 = RateAttempts
        BY <1>2, <1>3, <2>1 DEF NextTurn
    <2>2. CASE call[w].lost + 1 # RateAttempts
        <3>1. [at |-> "read", seen |-> 0, lost |-> call[w].lost + 1] \in CallType
            BY <2>2
        <3> QED BY <1>3, <2>2, <3>1 DEF NextTurn
    <2> QED BY <2>1, <2>2
<1>4. CASE ReadCounter(w)
    <2>1. limiter.count \in Nat
        BY DEF LimiterInv, Increments
    <2> QED BY <1>4, <2>1 DEF ReadCounter
<1>5. CASE WriteCounter(w)
    BY <1>2, <1>5 DEF WriteCounter
<1>6. CASE LoseRace(w) \/ LoseAnswer(w) \/ FailCall(w)
    BY <1>2, <1>3, <1>6 DEF LoseRace, LoseAnswer, FailCall
<1>7. CASE BeginCall(w)
    BY <1>7 DEF BeginCall
<1>8. CASE EndCall(w)
    BY <1>1, <1>8 DEF EndCall
<1>9. CASE UNCHANGED call
    BY <1>9
<1> QED BY <1>4, <1>5, <1>6, <1>7, <1>8, <1>9 DEF RateStep

\* What the handler's own steps write is well-formed.
LEMMA SessionStepType ==
    ASSUME TypeOK, NEW w \in Worker, SessionStep(w)
    PROVE  PortalTypes'
<1>1. PortalTypes
    BY TypeParts
<1> USE <1>1, IdleType DEF PortalTypes
<1>2. ASSUME NEW place \in Place, NEW marks \in SUBSET Mark, Serve(w, place, marks)
      PROVE  handler' \in [Worker -> HandlerType]
    BY <1>2, ServeType
<1>3. WithToken(Session(w).marks) \in SUBSET Mark
    BY SessionType DEF WithToken, Mark
<1>4. CASE OpenExpired(w)
    <2>1. handler[w].held \in Held /\ cookie \in Sid
        BY <1>4 DEF OpenExpired, Present, HandlerType
    <2>2. [handler[w].held EXCEPT !.sid = cookie] \in Held
        BY <2>1 DEF Held
    <2>3. [handler[w] EXCEPT !.at = "purge",
                             !.held = [handler[w].held EXCEPT !.sid = cookie]] \in HandlerType
        BY <2>2 DEF HandlerType, Place
    <2>4. handler' = [handler EXCEPT ![w] = [handler[w] EXCEPT
              !.at = "purge", !.held = [handler[w].held EXCEPT !.sid = cookie]]]
        BY <1>4 DEF OpenExpired
    <2> QED BY <1>4, <2>3, <2>4 DEF OpenExpired, sessionVars
<1>5. CASE Purge(w)
    <2>1. [IdleHandler EXCEPT !.at = "start"] \in HandlerType
        BY DEF HandlerType, Place
    <2>2. handler' \in [Worker -> HandlerType]
        BY <1>5, <2>1 DEF Purge
    <2>3. store' \in [Sid -> {None} \cup SUBSET Mark]
        BY <1>5 DEF Purge, DestroyRow
    <2> QED BY <1>5, <2>2, <2>3 DEF Purge
<1>6. CASE ServePage(w)
    BY <1>2, <1>3, <1>6, SessionType DEF ServePage, sessionVars, Place
<1>7. CASE Intake(w)
    BY <1>2, <1>3, <1>7 DEF Intake, sessionVars, Place
<1>8. ASSUME Destroy(w)
      PROVE  /\ store' \in [Sid -> {None} \cup SUBSET Mark]
             /\ history' \in [destroyed : SUBSET Sid, overtaken : SUBSET Sid,
                              lapsed : SUBSET Sid]
    <2> DEFINE s == handler[w].held.sid
               saved == {o \in {s} : \E v \in Worker \ {w} :
                             handler[v].held.sid = s /\ IsSaved(handler[v].held)}
    <2>1. s \in Sid \cup {None}
        BY DEF HandlerType, Held
    <2>2. store' \in [Sid -> {None} \cup SUBSET Mark]
        BY <1>8, <2>1 DEF Destroy, DestroyRow
    <2>3. CASE s = None
        BY <1>8, <2>2, <2>3 DEF Destroy
    <2>4. CASE s # None
        <3>1. history' = [history EXCEPT !.destroyed = history.destroyed \cup {s},
                                         !.overtaken = history.overtaken \cup saved]
            BY <1>8, <2>4 DEF Destroy
        <3>2. saved \subseteq Sid /\ {s} \subseteq Sid
            BY <2>1, <2>4
        <3> HIDE DEF s, saved
        <3> QED BY <2>2, <3>1, <3>2
    <2> QED BY <2>3, <2>4
<1>9. CASE Bind(w)
    <2>1. {"csrf", "employee"} \in SUBSET Mark /\ {"csrf"} \in SUBSET Mark
        BY DEF Mark, Standing
    <2>2. /\ Regenerated(w, {"csrf", "employee"}) \in Held
          /\ NewSession({"csrf"}) \in Held
        BY <2>1, NewSessionType DEF Regenerated
    <2>3. ASSUME NEW held \in Held
          PROVE  [handler[w] EXCEPT !.at = "end", !.held = held] \in HandlerType
        BY DEF HandlerType, Place
    <2>4. PICK held \in Held :
             handler' = [handler EXCEPT ![w] = [@ EXCEPT !.at = "end", !.held = held]]
        BY <1>9, <2>2 DEF Bind
    <2>5. handler' \in [Worker -> HandlerType]
        BY <2>3, <2>4
    <2> QED BY <1>8, <1>9, <2>5 DEF Bind
<1>10. CASE Complete(w)
    BY <1>2, <1>10, SessionType DEF Complete, sessionVars, Place
<1>11. CASE Finish(w)
    BY <1>8, <1>11 DEF Finish
<1>12. CASE End(w)
    <2> DEFINE held == handler[w].held
    <2>1. held \in Held
        BY DEF HandlerType
    <2>2. held.sid \in Sid \cup {None} /\ held.marks \in SUBSET Mark
        BY <2>1 DEF Held
    <2>3. handler' \in [Worker -> HandlerType] /\ signin' = signin /\ history' = history
        BY <1>12 DEF End
    <2>4. CASE IsSaved(held)
        <3>1. PICK s \in SaveIds(held) :
                 /\ used' = used \cup {s}
                 /\ store' = SetRow(s, held.marks) \/ UNCHANGED store
                 /\ cookie' = s
            BY <1>12, <2>4 DEF End
        <3>2. s \in Sid
            BY <2>2 DEF SaveIds
        <3>3. store' \in [Sid -> {None} \cup SUBSET Mark]
            <4> HIDE DEF held
            <4> QED BY <2>2, <3>1 DEF SetRow
        <3> HIDE DEF held
        <3> QED BY <2>3, <3>1, <3>2, <3>3
    <2>5. CASE ~IsSaved(held)
        <3>1. store' = store /\ cookie' = cookie /\ used' = used
            BY <1>12, <2>5 DEF End, TouchRow
        <3> QED BY <2>3, <3>1
    <2> QED BY <2>4, <2>5
<1>13. CASE Crash(w)
    BY <1>13 DEF Crash, sessionVars
<1> QED BY <1>4, <1>5, <1>6, <1>7, <1>9, <1>10, <1>11, <1>12, <1>13 DEF SessionStep

LEMMA AnswerType ==
    ASSUME PortalTypes, NEW w \in Worker, NEW answer \in {"complete", "rejected"},
           NEW held \in Held, NEW faulty \in BOOLEAN, Answer(w, answer, held, faulty)
    PROVE  handler' \in [Worker -> HandlerType]
<1>1. [IdleHandler EXCEPT !.at = "end", !.held = held, !.answer = answer,
                          !.faulty = faulty] \in HandlerType
    BY IdleType DEF HandlerType, Place
<1> QED BY <1>1 DEF Answer, PortalTypes

\* What a callback holds between its steps: a transaction, a purpose once it is
\* found, and a session that no browser has sent.  An idle handler holds nothing.
CallbackOK(h) ==
    /\ h.at \in {"look-up-dashboard", "authenticate", "delete-transaction", "save", "reject"} =>
          h.txn \in SignIn /\ ~h.held.sent
    /\ h.at \in {"look-up-dashboard", "authenticate", "delete-transaction", "save"} =>
          h.held.sid = None
    /\ h.at = "authenticate" => h.purpose \in Role
    /\ h.at = "save" => h.held.marks # {}
    /\ h.at = "reject" => (h.held.sid = None \/ h.held.marks # {})
    /\ h.at = "delete-transaction" => h.held.marks # {}
    /\ h.at = "idle" => h = IdleHandler

CallbackInv == \A w \in Worker : CallbackOK(handler[w])

\* The callback's steps.
LEMMA CallbackStepType ==
    ASSUME TypeOK, CallbackInv, NEW w \in Worker,
           \/ CallbackArrives(w) \/ LookUpDashboard(w) \/ Authenticate(w)
           \/ DeleteTransaction(w) \/ SaveSignIn(w) \/ Reject(w)
    PROVE  PortalTypes'
<1>1. PortalTypes
    BY TypeParts
<1>2. handler[w] \in HandlerType /\ handler[w].held \in Held
    BY <1>1 DEF PortalTypes, HandlerType
<1>3. {"csrf"} \in SUBSET Mark /\ Role \subseteq Mark
    BY DEF Mark, Standing
<1>4. ASSUME NEW t \in SignIn \cup {None}
      PROVE  Deleted(t) \in [SignIn -> [purpose : Role \cup {None}, open : BOOLEAN]]
    BY <1>1 DEF Deleted, PortalTypes
<1> USE <1>1 DEF PortalTypes
<1>5. CASE CallbackArrives(w)
    <2>1. PICK t \in SignIn, found \in BOOLEAN :
             handler' = [handler EXCEPT ![w] = [IdleHandler EXCEPT
                !.txn = t,
                !.at = IF found THEN "authenticate" ELSE "look-up-dashboard",
                !.purpose = IF found THEN "admin" ELSE None]]
        BY <1>5 DEF CallbackArrives, Finds
    <2>2. [IdleHandler EXCEPT
                !.txn = t,
                !.at = IF found THEN "authenticate" ELSE "look-up-dashboard",
                !.purpose = IF found THEN "admin" ELSE None] \in HandlerType
        BY IdleType DEF HandlerType, Place, Role
    <2> QED BY <1>5, <2>1, <2>2 DEF CallbackArrives, sessionVars
<1>6. CASE LookUpDashboard(w)
    <2>1. NewSession({"csrf"}) \in Held
        BY <1>3, NewSessionType
    <2>2. ASSUME Answer(w, "rejected", NewSession({"csrf"}), FALSE)
          PROVE  handler' \in [Worker -> HandlerType]
        BY <2>1, <2>2, AnswerType
    <2>3. [handler[w] EXCEPT !.at = "authenticate", !.purpose = "dashboard"] \in HandlerType
        BY <1>2 DEF HandlerType, Place, Role
    <2>4. handler' \in [Worker -> HandlerType]
        BY <1>6, <2>2, <2>3 DEF LookUpDashboard
    <2> QED BY <1>6, <2>4 DEF LookUpDashboard, sessionVars
<1>7. CASE Authenticate(w)
    <2>1. handler[w].purpose \in Role
        BY <1>7 DEF Authenticate, At, CallbackInv, CallbackOK
    <2>2. NewSession({"csrf", handler[w].purpose}) \in Held
        BY <1>3, <2>1, NewSessionType
    <2>3. /\ [handler[w] EXCEPT !.at = "delete-transaction", !.purpose = None,
                !.held = NewSession({"csrf", handler[w].purpose})] \in HandlerType
          /\ [handler[w] EXCEPT !.at = "reject", !.purpose = None] \in HandlerType
        BY <1>2, <2>2 DEF HandlerType, Place
    <2>4. handler' \in [Worker -> HandlerType]
        BY <1>7, <2>3 DEF Authenticate
    <2> QED BY <1>7, <2>4 DEF Authenticate, sessionVars
<1>8. CASE DeleteTransaction(w)
    <2>1. ASSUME NEW place \in {"save"}, Go(w, place)
          PROVE  handler' \in [Worker -> HandlerType]
        BY <1>2, <2>1 DEF Go, HandlerType, Place
    <2>2. ASSUME FailFor(w, "reject")
          PROVE  handler' \in [Worker -> HandlerType]
        BY <1>2, <2>2 DEF FailFor, HandlerType, Place
    <2>3. handler' \in [Worker -> HandlerType]
        BY <1>8, <2>1, <2>2 DEF DeleteTransaction
    <2>4. Deleted(handler[w].txn) \in [SignIn -> [purpose : Role \cup {None}, open : BOOLEAN]]
        BY <1>2, <1>4 DEF HandlerType
    <2>5. signin' \in {signin, Deleted(handler[w].txn)}
        BY <1>8 DEF DeleteTransaction
    <2> QED BY <1>8, <2>3, <2>4, <2>5 DEF DeleteTransaction, sessionVars
<1>9. CASE SaveSignIn(w)
    <2>1. PICK s \in SaveIds(handler[w].held) :
             /\ store' = SetRow(s, Marks(w)) \/ store' = store
             /\ used' = used \cup {s}
             /\ \/ Answer(w, "complete", [handler[w].held EXCEPT !.sid = s], FALSE)
                \/ handler' = [handler EXCEPT ![w].at = "reject", ![w].held.sid = s,
                                              ![w].faulty = TRUE]
        BY <1>9 DEF SaveSignIn
    <2>2. s \in Sid
        BY <1>2 DEF SaveIds, Held
    <2>3. [handler[w].held EXCEPT !.sid = s] \in Held
        BY <1>2, <2>2 DEF Held
    <2>4. [handler[w] EXCEPT !.at = "reject", !.held = [handler[w].held EXCEPT !.sid = s],
                             !.faulty = TRUE] \in HandlerType
        BY <1>2, <2>3 DEF HandlerType, Place
    <2>5. ASSUME Answer(w, "complete", [handler[w].held EXCEPT !.sid = s], FALSE)
          PROVE  handler' \in [Worker -> HandlerType]
        BY <2>3, <2>5, AnswerType
    <2>6. handler' \in [Worker -> HandlerType]
        <3>1. CASE Answer(w, "complete", [handler[w].held EXCEPT !.sid = s], FALSE)
            BY <2>5, <3>1
        <3>2. CASE handler' = [handler EXCEPT ![w].at = "reject", ![w].held.sid = s,
                                              ![w].faulty = TRUE]
            <4>1. handler' = [handler EXCEPT ![w] = [handler[w] EXCEPT !.at = "reject",
                        !.held = [handler[w].held EXCEPT !.sid = s], !.faulty = TRUE]]
                BY <1>2, <3>2 DEF HandlerType
            <4> QED BY <2>4, <4>1
        <3> QED BY <2>1, <3>1, <3>2
    <2>7. store' \in [Sid -> {None} \cup SUBSET Mark]
        BY <1>2, <2>1, <2>2 DEF SetRow, Marks, Held
    <2> QED BY <1>9, <2>1, <2>2, <2>6, <2>7 DEF SaveSignIn
<1>10. CASE Reject(w)
    <2>1. handler[w].held.marks \cup {"csrf"} \in SUBSET Mark
        BY <1>2, <1>3 DEF Held
    <2>2. [handler[w].held EXCEPT !.marks = handler[w].held.marks \cup {"csrf"}] \in Held
        BY <1>2, <2>1 DEF Held
    <2>3. handler[w].faulty \in BOOLEAN
        BY <1>2 DEF HandlerType
    <2>4. handler' \in [Worker -> HandlerType]
        <3>1. handler' = [handler EXCEPT ![w] = [IdleHandler EXCEPT
                 !.at = "end", !.answer = "rejected", !.faulty = handler[w].faulty,
                 !.held = [handler[w].held EXCEPT !.marks = handler[w].held.marks \cup {"csrf"}]]]
            BY <1>10 DEF Reject, Answer
        <3>2. [IdleHandler EXCEPT
                 !.at = "end", !.answer = "rejected", !.faulty = handler[w].faulty,
                 !.held = [handler[w].held EXCEPT !.marks = handler[w].held.marks \cup {"csrf"}]]
                 \in HandlerType
            BY <2>2, <2>3, IdleType DEF HandlerType, Place
        <3> QED BY <3>1, <3>2
    <2>5. signin' \in {signin, Deleted(handler[w].txn)}
        BY <1>10 DEF Reject
    <2>6. Deleted(handler[w].txn) \in [SignIn -> [purpose : Role \cup {None}, open : BOOLEAN]]
        BY <1>2, <1>4 DEF HandlerType
    <2> QED BY <1>10, <2>4, <2>5, <2>6 DEF Reject, sessionVars
<1> QED BY <1>5, <1>6, <1>7, <1>8, <1>9, <1>10

\* The other steps of the dashboard's routes, and the passing of time.
LEMMA DashboardStepType ==
    ASSUME TypeOK, CallbackInv, NEW w \in Worker, DashboardStep(w)
    PROVE  PortalTypes'
<1>1. PortalTypes
    BY TypeParts
<1>2. Session(w).marks \in SUBSET Mark
    BY SessionType
<1>3. WithToken(Session(w).marks) \in SUBSET Mark
    BY <1>2 DEF WithToken, Mark
<1>4. ASSUME NEW marks \in SUBSET Mark, Serve(w, "end", marks) \/ Serve(w, "limited", marks)
      PROVE  handler' \in [Worker -> HandlerType]
    BY <1>4, ServeType DEF Place
<1>5. ASSUME NEW role \in Role, NEW added \in {{}, {"csrf"}}, TurnAway(w, role, added)
      PROVE  handler' \in [Worker -> HandlerType]
    <2>1. (Session(w).marks \ {role}) \cup added \in SUBSET Mark
        BY <1>2 DEF Mark
    <2> QED BY <1>4, <1>5, <2>1 DEF TurnAway
<1>6. "dashboard" \in Role /\ "admin" \in Role
    BY DEF Role
<1> USE <1>1 DEF PortalTypes
<1>7. CASE BeginSignIn(w)
    <2>1. PICK t \in SignIn, purpose \in Role :
             signin' = [signin EXCEPT ![t].purpose = purpose, ![t].open = TRUE]
        BY <1>7 DEF BeginSignIn
    <2>2. [signin[t] EXCEPT !.purpose = purpose, !.open = TRUE]
             \in [purpose : Role \cup {None}, open : BOOLEAN]
        OBVIOUS
    <2>3. signin' \in [SignIn -> [purpose : Role \cup {None}, open : BOOLEAN]]
        BY <2>1, <2>2
    <2>4. handler' \in [Worker -> HandlerType]
        BY <1>2, <1>4, <1>7 DEF BeginSignIn
    <2> QED BY <1>7, <2>3, <2>4 DEF BeginSignIn, sessionVars
<1>8. CASE ServeDashboard(w)
    <2>1. handler' \in [Worker -> HandlerType]
        BY <1>2, <1>3, <1>4, <1>5, <1>6, <1>8 DEF ServeDashboard
    <2> QED BY <1>8, <2>1 DEF ServeDashboard, sessionVars
<1>9. CASE ServeAdmin(w)
    <2>1. handler' \in [Worker -> HandlerType]
        BY <1>2, <1>4, <1>5, <1>6, <1>9 DEF ServeAdmin
    <2> QED BY <1>9, <2>1 DEF ServeAdmin, sessionVars
<1>10. CASE OpenInvitation(w)
    <2>1. handler' \in [Worker -> HandlerType]
        BY <1>2, <1>4, <1>5, <1>6, <1>10 DEF OpenInvitation
    <2> QED BY <1>10, <2>1 DEF OpenInvitation, sessionVars
<1>11. CASE CountInvitation(w)
    BY <1>11 DEF CountInvitation, sessionVars
<1>12. CASE AnswerInvitation(w)
    <2>1. [handler[w] EXCEPT !.at = "end"] \in HandlerType
        BY DEF HandlerType, Place
    <2>2. handler' \in [Worker -> HandlerType]
        BY <1>12, <2>1 DEF AnswerInvitation, Go
    <2> QED BY <1>12, <2>2 DEF AnswerInvitation, sessionVars
<1> QED BY <1>7, <1>8, <1>9, <1>10, <1>11, <1>12, CallbackStepType DEF DashboardStep

LEMMA TypeStep ==
    ASSUME TypeOK, LimiterInv, LimiterInv', CallbackInv, [Next]_vars
    PROVE  TypeOK'
<1>1. PortalTypes /\ CallTypes
    BY TypeParts
<1>2. limiter' \in Increments
    BY DEF LimiterInv
<1>3. CallTypes'
    <2>1. ASSUME NEW w \in Worker, SessionStep(w) \/ DashboardStep(w)
          PROVE  RateStep(w) \/ BeginCall(w) \/ EndCall(w) \/ UNCHANGED call
        BY <2>1 DEF SessionStep, OpenExpired, Purge, ServePage, Intake, Bind, Complete,
           Finish, End, Crash, DashboardStep, BeginSignIn, CallbackArrives,
           LookUpDashboard, Authenticate, DeleteTransaction, SaveSignIn, Reject,
           ServeDashboard, ServeAdmin, OpenInvitation, CountInvitation,
           AnswerInvitation, rateVars
    <2>2. CASE UNCHANGED call
        BY <1>1, <2>2 DEF CallTypes
    <2>3. UNCHANGED call \/ \E w \in Worker : SessionStep(w) \/ DashboardStep(w)
        BY DEF Next, AuthorityLapses, SignInLapses, vars, rateVars
    <2> QED BY <1>1, <2>1, <2>2, <2>3, CallStepType
<1>4. PortalTypes'
    <2>1. CASE UNCHANGED vars
        BY <1>1, <2>1 DEF PortalTypes, vars, sessionVars
    <2>2. ASSUME NEW s \in Sid, AuthorityLapses(s)
          PROVE  PortalTypes'
        <3>1. history' \in [destroyed : SUBSET Sid, overtaken : SUBSET Sid, lapsed : SUBSET Sid]
            BY <1>1, <2>2 DEF AuthorityLapses, PortalTypes
        <3> QED BY <1>1, <2>2, <3>1 DEF AuthorityLapses, PortalTypes, sessionVars
    <2>3. ASSUME NEW t \in SignIn, SignInLapses(t)
          PROVE  PortalTypes'
        <3>1. [signin[t] EXCEPT !.open = FALSE] \in [purpose : Role \cup {None}, open : BOOLEAN]
            BY <1>1 DEF PortalTypes
        <3> QED BY <1>1, <2>3, <3>1 DEF SignInLapses, PortalTypes, sessionVars
    <2> QED BY <2>1, <2>2, <2>3, SessionStepType, DashboardStepType DEF Next
<1>5. TypeOK' <=> PortalTypes' /\ CallTypes' /\ limiter' \in Increments
    BY DEF TypeOK, PortalTypes, CallTypes, HandlerType, CallType, Increments
<1> QED BY <1>2, <1>3, <1>4, <1>5

\* A step is one handler's.
LEMMA OneHandlerMoves ==
    ASSUME TypeOK, NEW w \in Worker, SessionStep(w) \/ DashboardStep(w),
           NEW v \in Worker, v # w
    PROVE  handler'[v] = handler[v]
<1>1. handler \in [Worker -> HandlerType]
    BY TypeParts DEF PortalTypes
<1>2. CASE SessionStep(w)
    BY <1>1, <1>2 DEF SessionStep, OpenExpired, Purge, ServePage, Intake, Bind, Complete,
       Finish, End, Crash, Serve
<1>3. CASE DashboardStep(w)
    BY <1>1, <1>3 DEF DashboardStep, BeginSignIn, CallbackArrives, LookUpDashboard,
       Authenticate, DeleteTransaction, SaveSignIn, Reject, ServeDashboard, ServeAdmin,
       OpenInvitation, CountInvitation, AnswerInvitation, TurnAway, Serve, Answer, Go,
       FailFor
<1> QED BY <1>2, <1>3

\* A step of no handler moves none.
LEMMA OtherStepsMoveNone ==
    ASSUME [Next]_vars, ~ \E w \in Worker : SessionStep(w) \/ DashboardStep(w)
    PROVE  UNCHANGED <<handler, sessionVars>>
BY DEF Next, AuthorityLapses, SignInLapses, vars

LEMMA CallbackStep ==
    ASSUME TypeOK, CallbackInv, [Next]_vars
    PROVE  CallbackInv'
<1>1. CASE ~ \E w \in Worker : SessionStep(w) \/ DashboardStep(w)
    BY <1>1, OtherStepsMoveNone DEF CallbackInv, CallbackOK
<1>2. ASSUME NEW w \in Worker, SessionStep(w) \/ DashboardStep(w)
      PROVE  CallbackInv'
    <2>1. /\ handler \in [Worker -> HandlerType]
          /\ handler[w] \in HandlerType
          /\ handler[w].held \in Held
          /\ CallbackOK(handler[w])
        BY TypeParts DEF PortalTypes, HandlerType, CallbackInv
    <2>2. SUFFICES CallbackOK(handler'[w])
        BY <1>2, OneHandlerMoves DEF CallbackInv
    <2>3. IdleHandler \in HandlerType /\ CallbackOK(IdleHandler)
        BY IdleType DEF IdleHandler, CallbackOK
    <2>4. ASSUME handler'[w].at \in {"purge", "start", "bind", "finish", "limited", "end"}
          PROVE  CallbackOK(handler'[w])
        BY <2>4 DEF CallbackOK
    <2>5. ASSUME NEW place, NEW marks, Serve(w, place, marks)
          PROVE  handler'[w].at = place
        BY <2>1, <2>3, <2>5 DEF Serve, HandlerType
    <2>6. ASSUME NEW answer, NEW held, NEW faulty, Answer(w, answer, held, faulty)
          PROVE  handler'[w].at = "end"
        BY <2>1, <2>3, <2>6 DEF Answer, HandlerType
    <2>7. CASE SessionStep(w)
        <3>1. CASE OpenExpired(w) \/ Bind(w)
            BY <2>1, <2>4, <3>1 DEF OpenExpired, Bind, HandlerType
        <3>2. CASE Purge(w)
            BY <2>1, <2>3, <2>4, <3>2 DEF Purge, HandlerType
        <3>3. CASE ServePage(w) \/ Intake(w) \/ Complete(w)
            BY <2>4, <2>5, <3>3 DEF ServePage, Intake, Complete
        <3>4. CASE Finish(w) \/ End(w) \/ Crash(w)
            BY <2>1, <2>3, <3>4 DEF Finish, End, Crash
        <3> QED BY <2>7, <3>1, <3>2, <3>3, <3>4 DEF SessionStep
    <2>8. CASE BeginSignIn(w) \/ ServeDashboard(w) \/ ServeAdmin(w) \/ OpenInvitation(w)
        BY <2>4, <2>5, <2>8 DEF BeginSignIn, ServeDashboard, ServeAdmin, OpenInvitation,
           TurnAway
    <2>9. CASE CallbackArrives(w)
        <3>1. PICK t \in SignIn, found \in BOOLEAN :
                 handler' = [handler EXCEPT ![w] = [IdleHandler EXCEPT
                    !.txn = t,
                    !.at = IF found THEN "authenticate" ELSE "look-up-dashboard",
                    !.purpose = IF found THEN "admin" ELSE None]]
            BY <2>9 DEF CallbackArrives, Finds
        <3>2. IdleHandler.held.sent = FALSE /\ IdleHandler.held.sid = None
            BY DEF IdleHandler, NewSession
        <3> QED BY <2>1, <2>3, <3>1, <3>2 DEF HandlerType, CallbackOK, Role
    <2>10. CASE LookUpDashboard(w)
        <3>1. CASE handler' = [handler EXCEPT ![w].at = "authenticate",
                                              ![w].purpose = "dashboard"]
            BY <2>1, <2>10, <3>1 DEF LookUpDashboard, At, HandlerType, CallbackOK, Role
        <3> QED BY <2>4, <2>6, <2>10, <3>1 DEF LookUpDashboard
    <2>11. CASE Authenticate(w)
        <3> DEFINE new == NewSession({"csrf", handler[w].purpose})
        <3>1. new.sid = None /\ new.sent = FALSE /\ new.marks # {}
            BY DEF NewSession
        <3> HIDE DEF new
        <3>2. CASE handler' = [handler EXCEPT ![w].at = "delete-transaction",
                                 ![w].purpose = None, ![w].held = new]
            BY <2>1, <2>11, <3>1, <3>2 DEF Authenticate, At, HandlerType, CallbackOK
        <3>3. CASE handler' = [handler EXCEPT ![w].at = "reject", ![w].purpose = None]
            BY <2>1, <2>11, <3>3 DEF Authenticate, At, HandlerType, CallbackOK
        <3> QED BY <2>11, <3>2, <3>3 DEF Authenticate, new
    <2>12. CASE DeleteTransaction(w)
        BY <2>1, <2>12 DEF DeleteTransaction, At, Go, FailFor, HandlerType, CallbackOK
    <2>13. CASE SaveSignIn(w)
        <3>1. PICK s \in SaveIds(handler[w].held) :
                 \/ Answer(w, "complete", [handler[w].held EXCEPT !.sid = s], FALSE)
                 \/ handler' = [handler EXCEPT ![w].at = "reject", ![w].held.sid = s,
                                               ![w].faulty = TRUE]
            BY <2>13 DEF SaveSignIn
        <3>2. CASE handler' = [handler EXCEPT ![w].at = "reject", ![w].held.sid = s,
                                              ![w].faulty = TRUE]
            <4>1. /\ handler'[w].at = "reject"
                  /\ handler'[w].held = [handler[w].held EXCEPT !.sid = s]
                  /\ handler'[w].txn = handler[w].txn
                BY <2>1, <3>2 DEF HandlerType
            <4>2. /\ handler'[w].held.sent = handler[w].held.sent
                  /\ handler'[w].held.marks = handler[w].held.marks
                BY <2>1, <4>1 DEF Held
            <4>3. handler[w].at = "save"
                BY <2>13 DEF SaveSignIn, At
            <4> QED BY <2>1, <4>1, <4>2, <4>3 DEF CallbackOK
        <3> QED BY <2>4, <2>6, <3>1, <3>2
    <2>14. CASE Reject(w)
        BY <2>4, <2>6, <2>14 DEF Reject
    <2>15. CASE CountInvitation(w)
        BY <2>1, <2>15 DEF CountInvitation
    <2>16. CASE AnswerInvitation(w)
        <3>1. handler'[w].at = "end"
            BY <2>1, <2>16 DEF AnswerInvitation, Go, HandlerType
        <3> QED BY <2>4, <3>1
    <2> QED BY <1>2, <2>7, <2>8, <2>9, <2>10, <2>11, <2>12, <2>13, <2>14, <2>15, <2>16
            DEF DashboardStep
<1> QED BY <1>1, <1>2

LEMMA WellFormed == Spec => [](TypeOK /\ CallbackInv /\ LimiterInv)
<1>1. Init => TypeOK /\ CallbackInv
    <2> SUFFICES ASSUME Init PROVE TypeOK /\ CallbackInv
        OBVIOUS
    <2>1. limiter \in Increments /\ CallTypes
        BY RateAttemptsAssumption DEF Init, RateInit, Increments, CallTypes, CallType, NoCall
    <2>2. PortalTypes
        BY IdleType DEF Init, SessionInit, PortalTypes
    <2>3. CallbackInv
        BY DEF Init, CallbackInv, CallbackOK, IdleHandler
    <2> QED BY <2>1, <2>2, <2>3, TypeParts
<1>2. TypeOK /\ CallbackInv /\ LimiterInv /\ LimiterInv' /\ [Next]_vars
        => TypeOK' /\ CallbackInv'
    BY TypeStep, CallbackStep
<1> QED BY <1>1, <1>2, LimiterInvariant, PTL DEF Spec

\* Handlers, sessions, sign-ins and the limiter always hold what the code can put
\* there (v2-manager.js:425, table-session-store.js:22).
THEOREM TypeCorrect == Spec => []TypeOK
BY WellFormed, PTL
-----------------------------------------------------------------------------
(* Where the content of a session comes from *)

\* What a handler holds after its step is what it held, what it loaded, or one
\* standing that it gives: an employee's, or that of its sign-in's purpose.
FromWhatItHeld(w, marks) == marks \cap Standing \subseteq handler[w].held.marks
FromTheStore(marks) == Present(cookie) /\ marks \cap Standing \subseteq store[cookie]
FromTheIntake(marks) == marks \cap Standing = {"employee"}
FromTheSignIn(w, marks) ==
    At(w, "authenticate") /\ marks \cap Standing = {handler[w].purpose}

Source(w, marks) ==
    FromWhatItHeld(w, marks) \/ FromTheStore(marks) \/ FromTheIntake(marks)
        \/ FromTheSignIn(w, marks)

LEMMA ServeSource ==
    ASSUME TypeOK, NEW w \in Worker, NEW place, NEW marks, Serve(w, place, marks),
           marks \cap Standing \subseteq Session(w).marks
    PROVE  /\ handler'[w].held.marks = marks
           /\ handler'[w].purpose = None
           /\ Source(w, marks)
<1>1. handler \in [Worker -> HandlerType]
    BY TypeParts DEF PortalTypes
<1>2. Session(w) \in Held
    BY SessionType
<1>3. handler'[w] = [IdleHandler EXCEPT !.at = place,
                                        !.held = [Session(w) EXCEPT !.marks = marks]]
    BY <1>1 DEF Serve
<1>4. handler'[w].held = [Session(w) EXCEPT !.marks = marks] /\ handler'[w].purpose = None
    BY <1>3 DEF IdleHandler
<1>5. handler'[w].held.marks = marks
    BY <1>2, <1>4 DEF Held
<1>6. \/ Present(cookie) /\ Session(w).marks = store[cookie]
      \/ Session(w).marks = {}
    BY DEF Session, Retrieved, LoadedSession, NewSession
<1> QED BY <1>4, <1>5, <1>6 DEF Source, FromTheStore, FromWhatItHeld

LEMMA MarksStep ==
    ASSUME TypeOK, CallbackInv, NEW w \in Worker, SessionStep(w) \/ DashboardStep(w)
    PROVE  /\ Source(w, handler'[w].held.marks)
           /\ \/ handler'[w].purpose \in {None, handler[w].purpose}
              \/ \E t \in SignIn : signin[t].purpose = handler'[w].purpose
<1> DEFINE Purpose == \/ handler'[w].purpose \in {None, handler[w].purpose}
                      \/ \E t \in SignIn : signin[t].purpose = handler'[w].purpose
<1>1. /\ handler \in [Worker -> HandlerType]
      /\ handler[w] \in HandlerType
      /\ handler[w].held \in Held
      /\ CallbackOK(handler[w])
    BY TypeParts DEF PortalTypes, HandlerType, CallbackInv
<1>2. IdleHandler \in HandlerType /\ IdleHandler.held.marks = {} /\ IdleHandler.purpose = None
    BY IdleType DEF IdleHandler, NewSession
<1>3. ASSUME handler'[w].held.marks \cap Standing = {}
      PROVE  Source(w, handler'[w].held.marks)
    BY <1>3 DEF Source, FromWhatItHeld
<1>4. ASSUME handler'[w].held.marks = handler[w].held.marks
      PROVE  Source(w, handler'[w].held.marks)
    BY <1>4 DEF Source, FromWhatItHeld
<1>5. ASSUME NEW place, NEW marks, Serve(w, place, marks),
             marks \cap Standing \subseteq Session(w).marks
      PROVE  Source(w, handler'[w].held.marks) /\ Purpose
    BY <1>5, ServeSource
<1>6. WithToken(Session(w).marks) \cap Standing \subseteq Session(w).marks
    BY DEF WithToken, Standing, Role
<1>7. ASSUME NEW role, NEW added \in {{}, {"csrf"}}, TurnAway(w, role, added)
      PROVE  Source(w, handler'[w].held.marks) /\ Purpose
    <2>1. ((Session(w).marks \ {role}) \cup added) \cap Standing \subseteq Session(w).marks
        BY DEF Standing, Role
    <2> QED BY <1>5, <1>7, <2>1 DEF TurnAway
<1>8. ASSUME handler'[w] = IdleHandler
      PROVE  Source(w, handler'[w].held.marks) /\ Purpose
    BY <1>2, <1>3, <1>8
<1>9. ASSUME NEW answer, NEW held \in Held, NEW faulty, Answer(w, answer, held, faulty)
      PROVE  handler'[w].held = held /\ handler'[w].purpose = None
    BY <1>1, <1>2, <1>9 DEF Answer, HandlerType
<1>10. CASE OpenExpired(w)
    <2>1. handler'[w].held = [handler[w].held EXCEPT !.sid = cookie]
        BY <1>1, <1>10 DEF OpenExpired, HandlerType
    <2>2. handler'[w].purpose = handler[w].purpose
        BY <1>1, <1>10 DEF OpenExpired, HandlerType
    <2> QED BY <1>1, <1>4, <2>1, <2>2 DEF Held
<1>11. CASE Purge(w)
    BY <1>1, <1>2, <1>3, <1>8, <1>11 DEF Purge, HandlerType
<1>12. CASE ServePage(w) \/ Intake(w) \/ Complete(w) \/ BeginSignIn(w)
    BY <1>5, <1>6, <1>12 DEF ServePage, Intake, Complete, BeginSignIn
<1>13. CASE Bind(w)
    <2>1. /\ handler'[w].held \in {Regenerated(w, {"csrf", "employee"}), NewSession({"csrf"})}
          /\ handler'[w].purpose = handler[w].purpose
        BY <1>1, <1>13 DEF Bind, HandlerType
    <2>2. handler'[w].held.marks \in {{"csrf", "employee"}, {"csrf"}}
        BY <2>1 DEF Regenerated, NewSession
    <2> QED BY <2>1, <2>2 DEF Source, FromTheIntake, FromWhatItHeld, Standing, Role
<1>14. CASE Finish(w) \/ End(w) \/ Crash(w)
    BY <1>1, <1>8, <1>14 DEF Finish, End, Crash
<1>15. CASE CallbackArrives(w)
    <2>1. PICK t \in SignIn, found \in BOOLEAN :
             /\ found => Finds(t, "admin")
             /\ handler' = [handler EXCEPT ![w] = [IdleHandler EXCEPT
                    !.txn = t,
                    !.at = IF found THEN "authenticate" ELSE "look-up-dashboard",
                    !.purpose = IF found THEN "admin" ELSE None]]
        BY <1>15 DEF CallbackArrives, Finds
    <2>2. /\ handler'[w].held = IdleHandler.held
          /\ handler'[w].purpose = IF found THEN "admin" ELSE None
        BY <1>1, <1>2, <2>1 DEF HandlerType
    <2> QED BY <1>2, <1>3, <2>1, <2>2 DEF Finds
<1>16. CASE LookUpDashboard(w)
    <2>1. CASE /\ Finds(handler[w].txn, "dashboard")
               /\ handler' = [handler EXCEPT ![w].at = "authenticate",
                                             ![w].purpose = "dashboard"]
        <3>1. handler[w].txn \in SignIn
            BY <1>1, <1>16 DEF LookUpDashboard, At, CallbackOK
        <3>2. /\ handler'[w].held = handler[w].held
              /\ handler'[w].purpose = "dashboard"
            BY <1>1, <2>1 DEF HandlerType
        <3> QED BY <1>4, <2>1, <3>1, <3>2 DEF Finds
    <2>2. CASE Answer(w, "rejected", NewSession({"csrf"}), FALSE)
        <3>1. NewSession({"csrf"}) \in Held /\ NewSession({"csrf"}).marks = {"csrf"}
            BY NewSessionType DEF NewSession, Mark
        <3>2. handler'[w].held = NewSession({"csrf"}) /\ handler'[w].purpose = None
            BY <1>9, <2>2, <3>1
        <3> QED BY <1>3, <3>1, <3>2 DEF Standing, Role
    <2> QED BY <1>16, <2>1, <2>2 DEF LookUpDashboard
<1>17. CASE Authenticate(w)
    <2>1. /\ handler'[w].held \in {NewSession({"csrf", handler[w].purpose}), handler[w].held}
          /\ handler'[w].purpose = None
        BY <1>1, <1>17 DEF Authenticate, HandlerType
    <2>2. handler[w].purpose \in Role
        BY <1>1, <1>17 DEF Authenticate, At, CallbackOK
    <2>3. CASE handler'[w].held = NewSession({"csrf", handler[w].purpose})
        <3>1. handler'[w].held.marks = {"csrf", handler[w].purpose}
            BY <2>3 DEF NewSession
        <3>2. "csrf" \notin Standing /\ handler[w].purpose \in Standing
            BY <2>2 DEF Standing, Role
        <3>3. handler'[w].held.marks \cap Standing = {handler[w].purpose}
            BY <3>1, <3>2
        <3>4. At(w, "authenticate")
            BY <1>17 DEF Authenticate
        <3> QED BY <2>1, <3>3, <3>4 DEF Source, FromTheSignIn
    <2> QED BY <1>4, <2>1, <2>3
<1>18. CASE DeleteTransaction(w)
    <2>1. handler'[w].held = handler[w].held /\ handler'[w].purpose = handler[w].purpose
        BY <1>1, <1>18 DEF DeleteTransaction, Go, FailFor, HandlerType
    <2> QED BY <1>4, <2>1
<1>19. CASE SaveSignIn(w)
    <2>1. PICK s \in SaveIds(handler[w].held) :
             \/ Answer(w, "complete", [handler[w].held EXCEPT !.sid = s], FALSE)
             \/ handler' = [handler EXCEPT ![w].at = "reject", ![w].held.sid = s,
                                           ![w].faulty = TRUE]
        BY <1>19 DEF SaveSignIn
    <2>2. s \in Sid /\ [handler[w].held EXCEPT !.sid = s] \in Held
        BY <1>1 DEF SaveIds, Held
    <2>3. CASE Answer(w, "complete", [handler[w].held EXCEPT !.sid = s], FALSE)
        <3>1. /\ handler'[w].held = [handler[w].held EXCEPT !.sid = s]
              /\ handler'[w].purpose = None
            BY <1>9, <2>2, <2>3
        <3> QED BY <1>1, <1>4, <3>1 DEF Held
    <2>4. CASE handler' = [handler EXCEPT ![w].at = "reject", ![w].held.sid = s,
                                          ![w].faulty = TRUE]
        <3>1. /\ handler'[w].held = [handler[w].held EXCEPT !.sid = s]
              /\ handler'[w].purpose = handler[w].purpose
            BY <1>1, <2>4 DEF HandlerType
        <3> QED BY <1>1, <1>4, <3>1 DEF Held
    <2> QED BY <2>1, <2>3, <2>4
<1>20. CASE Reject(w)
    <2>1. [handler[w].held EXCEPT !.marks = handler[w].held.marks \cup {"csrf"}] \in Held
        BY <1>1 DEF Held, Mark
    <2>2. /\ handler'[w].held
               = [handler[w].held EXCEPT !.marks = handler[w].held.marks \cup {"csrf"}]
          /\ handler'[w].purpose = None
        BY <1>9, <1>20, <2>1 DEF Reject
    <2>3. handler'[w].held.marks = handler[w].held.marks \cup {"csrf"}
        BY <1>1, <2>2 DEF Held
    <2> QED BY <2>2, <2>3 DEF Source, FromWhatItHeld, Standing, Role
<1>21. CASE ServeDashboard(w) \/ ServeAdmin(w) \/ OpenInvitation(w)
    BY <1>5, <1>6, <1>7, <1>21 DEF ServeDashboard, ServeAdmin, OpenInvitation
<1>22. CASE CountInvitation(w) \/ AnswerInvitation(w)
    <2>1. handler'[w].held = handler[w].held /\ handler'[w].purpose = handler[w].purpose
        BY <1>1, <1>22 DEF CountInvitation, AnswerInvitation, Go, HandlerType
    <2> QED BY <1>4, <2>1
<1> QED BY <1>10, <1>11, <1>12, <1>13, <1>14, <1>15, <1>16, <1>17, <1>18, <1>19, <1>20,
           <1>21, <1>22 DEF SessionStep, DashboardStep

\* A row keeps its content, goes, or takes that of the handler that moves.
LEMMA RowsStep ==
    ASSUME NEW w \in Worker, SessionStep(w) \/ DashboardStep(w), TypeOK, NEW s \in Sid
    PROVE  store'[s] \in {None, store[s], handler[w].held.marks}
<1>1. store \in [Sid -> {None} \cup SUBSET Mark]
    BY TypeParts DEF PortalTypes
<1>2. CASE SessionStep(w)
    BY <1>1, <1>2 DEF SessionStep, OpenExpired, Purge, ServePage, Intake, Bind, Complete,
       Finish, End, Crash, Destroy, DestroyRow, SetRow, TouchRow, sessionVars
<1>3. CASE DashboardStep(w)
    BY <1>1, <1>3 DEF DashboardStep, BeginSignIn, CallbackArrives, LookUpDashboard,
       Authenticate, DeleteTransaction, SaveSignIn, Reject, ServeDashboard, ServeAdmin,
       OpenInvitation, CountInvitation, AnswerInvitation, SetRow, Marks, sessionVars
<1> QED BY <1>2, <1>3

OneOf(marks) == \A x, y \in marks \cap Standing : x = y

\* One standing, in what is stored and in what will be.
StandingInv ==
    /\ OneStandingPerSession
    /\ \A w \in Worker : OneOf(handler[w].held.marks)

LEMMA StandingStep ==
    ASSUME TypeOK, CallbackInv, StandingInv, [Next]_vars
    PROVE  StandingInv'
<1>1. CASE ~ \E w \in Worker : SessionStep(w) \/ DashboardStep(w)
    BY <1>1, OtherStepsMoveNone DEF StandingInv, OneStandingPerSession, OneOf, sessionVars
<1>2. ASSUME NEW w \in Worker, SessionStep(w) \/ DashboardStep(w)
      PROVE  StandingInv'
    <2>1. OneOf(handler'[w].held.marks)
        <3>1. Source(w, handler'[w].held.marks)
            BY <1>2, MarksStep
        <3>2. ASSUME Present(cookie)
              PROVE  OneOf(store[cookie])
            BY <3>2, TypeParts DEF PortalTypes, Present, StandingInv, OneStandingPerSession,
               OneOf
        <3> QED BY <3>1, <3>2 DEF Source, FromWhatItHeld, FromTheStore, FromTheIntake,
                   FromTheSignIn, OneOf, StandingInv
    <2>2. \A v \in Worker : OneOf(handler'[v].held.marks)
        BY <1>2, <2>1, OneHandlerMoves DEF StandingInv
    <2>3. ASSUME NEW s \in Sid, store'[s] # None
          PROVE  OneOf(store'[s])
        BY <1>2, <2>3, RowsStep DEF StandingInv, OneStandingPerSession, OneOf
    <2> QED BY <2>2, <2>3 DEF StandingInv, OneStandingPerSession, OneOf
<1> QED BY <1>1, <1>2

\* No order of loads, regenerations and saves puts two standings into one session
\* (regenerateSession, v2-security.js:40).
THEOREM SessionsHaveOneStanding == Spec => []OneStandingPerSession
<1>1. Init => StandingInv
    BY DEF Init, SessionInit, StandingInv, OneStandingPerSession, OneOf, IdleHandler, NewSession
<1>2. TypeOK /\ CallbackInv /\ LimiterInv /\ StandingInv /\ [Next]_vars => StandingInv'
    BY StandingStep
<1>3. StandingInv => OneStandingPerSession
    BY DEF StandingInv
<1> QED BY <1>1, <1>2, <1>3, WellFormed, PTL DEF Spec

-----------------------------------------------------------------------------
(* Authority *)

Begun(role) == \E t \in SignIn : signin[t].purpose = role

\* A role is stored, or on its way there, only once a sign-in was begun for it.
AuthorityInv ==
    /\ AuthorityFromItsSignIn
    /\ \A w \in Worker : \A role \in handler[w].held.marks \cap Role : Begun(role)
    /\ \A w \in Worker : handler[w].purpose # None => Begun(handler[w].purpose)

\* The purpose of a transaction never changes.
LEMMA PurposeStays ==
    ASSUME TypeOK, CallbackInv, [Next]_vars, NEW t \in SignIn, signin[t].purpose # None
    PROVE  signin'[t].purpose = signin[t].purpose
<1>1. signin \in [SignIn -> [purpose : Role \cup {None}, open : BOOLEAN]]
    BY TypeParts DEF PortalTypes
<1>2. ASSUME NEW o, signin' = [signin EXCEPT ![o].open = FALSE]
      PROVE  signin'[t].purpose = signin[t].purpose
    BY <1>1, <1>2
<1>3. ASSUME NEW w \in Worker, DashboardStep(w)
      PROVE  signin'[t].purpose = signin[t].purpose
    <2>1. CASE BeginSignIn(w)
        <3>1. PICK o \in SignIn, purpose \in Role :
                 /\ signin[o].purpose = None
                 /\ signin' = [signin EXCEPT ![o].purpose = purpose, ![o].open = TRUE]
            BY <2>1 DEF BeginSignIn
        <3> QED BY <1>1, <3>1
    <2>2. CASE DeleteTransaction(w) \/ Reject(w)
        BY <1>2, <2>2 DEF DeleteTransaction, Reject, Deleted
    <2> QED BY <1>3, <2>1, <2>2 DEF DashboardStep, CallbackArrives, LookUpDashboard,
               Authenticate, SaveSignIn, ServeDashboard, ServeAdmin, OpenInvitation,
               CountInvitation, AnswerInvitation
<1>4. ASSUME NEW w \in Worker, SessionStep(w)
      PROVE  UNCHANGED signin
    BY <1>4 DEF SessionStep, OpenExpired, Purge, ServePage, Intake, Bind, Complete,
       Finish, End, Crash
<1> QED BY <1>2, <1>3, <1>4 DEF Next, AuthorityLapses, SignInLapses, vars

LEMMA AuthorityStep ==
    ASSUME TypeOK, CallbackInv, AuthorityInv, [Next]_vars
    PROVE  AuthorityInv'
<1>1. ASSUME NEW role, role # None, Begun(role)
      PROVE  Begun(role)'
    BY <1>1, PurposeStays DEF Begun
<1>2. ASSUME NEW role \in Role
      PROVE  role # None
    BY <1>2, NoneAssumption
<1>3. CASE ~ \E w \in Worker : SessionStep(w) \/ DashboardStep(w)
    BY <1>1, <1>2, <1>3, OtherStepsMoveNone
       DEF AuthorityInv, AuthorityFromItsSignIn, Begun, sessionVars
<1>4. ASSUME NEW w \in Worker, SessionStep(w) \/ DashboardStep(w)
      PROVE  AuthorityInv'
    <2>1. ASSUME NEW role \in handler'[w].held.marks \cap Role
          PROVE  Begun(role)
        <3>1. Source(w, handler'[w].held.marks)
            BY <1>4, MarksStep
        <3>2. role \in handler'[w].held.marks \cap Standing /\ role # "employee"
            BY <2>1 DEF Standing, Role
        <3>3. CASE FromWhatItHeld(w, handler'[w].held.marks)
            BY <2>1, <3>2, <3>3 DEF FromWhatItHeld, AuthorityInv
        <3>4. CASE FromTheStore(handler'[w].held.marks)
            <4>1. cookie \in Sid /\ store[cookie] # None /\ role \in store[cookie]
                BY <3>2, <3>4, TypeParts DEF FromTheStore, Present, PortalTypes
            <4> QED BY <2>1, <4>1 DEF AuthorityInv, AuthorityFromItsSignIn, Begun
        <3>5. CASE FromTheIntake(handler'[w].held.marks)
            BY <3>2, <3>5 DEF FromTheIntake
        <3>6. CASE FromTheSignIn(w, handler'[w].held.marks)
            <4>1. role = handler[w].purpose
                BY <3>2, <3>6 DEF FromTheSignIn
            <4> QED BY <1>2, <2>1, <4>1 DEF AuthorityInv
        <3> QED BY <3>1, <3>3, <3>4, <3>5, <3>6 DEF Source
    <2>2. handler'[w].purpose # None => Begun(handler'[w].purpose)
        BY <1>4, MarksStep DEF AuthorityInv, Begun
    <2>3. ASSUME NEW s \in Sid, store'[s] # None, NEW role \in store'[s] \cap Role
          PROVE  Begun(role)
        BY <1>4, <2>3, RowsStep DEF AuthorityInv, AuthorityFromItsSignIn, Begun
    <2>4. ASSUME NEW v \in Worker
          PROVE  /\ \A role \in handler'[v].held.marks \cap Role : Begun(role)
                 /\ handler'[v].purpose # None => Begun(handler'[v].purpose)
        <3>1. CASE v = w
            BY <2>1, <2>2, <3>1
        <3>2. CASE v # w
            BY <1>4, <3>2, OneHandlerMoves DEF AuthorityInv
        <3> QED BY <3>1, <3>2
    <2>5. AuthorityFromItsSignIn'
        BY <1>1, <1>2, <2>3 DEF AuthorityFromItsSignIn, Begun
    <2>6. ASSUME NEW v \in Worker, NEW role \in handler'[v].held.marks \cap Role
          PROVE  Begun(role)'
        BY <1>1, <1>2, <2>4, <2>6
    <2>7. ASSUME NEW v \in Worker, handler'[v].purpose # None
          PROVE  Begun(handler[v].purpose)'
        <3>1. PICK t \in SignIn : signin[t].purpose = handler'[v].purpose
            BY <2>4, <2>7 DEF Begun
        <3>2. signin'[t].purpose = signin[t].purpose
            BY <2>7, <3>1, PurposeStays
        <3> QED BY <3>1, <3>2 DEF Begun
    <2> QED BY <2>5, <2>6, <2>7 DEF AuthorityInv, Begun
<1> QED BY <1>3, <1>4

\* Whatever sessions a browser presents, authority in one was asked for by a
\* sign-in of that purpose (loadDashboardAuthTransaction,
\* onboarding-v2-service.js:804).
THEOREM AuthorityIsFromSignIn == Spec => []AuthorityFromItsSignIn
<1>1. Init => AuthorityInv
    BY DEF Init, SessionInit, AuthorityInv, AuthorityFromItsSignIn, IdleHandler, NewSession
<1>2. TypeOK /\ CallbackInv /\ LimiterInv /\ AuthorityInv /\ [Next]_vars => AuthorityInv'
    BY AuthorityStep
<1>3. AuthorityInv => AuthorityFromItsSignIn
    BY DEF AuthorityInv
<1> QED BY <1>1, <1>2, <1>3, WellFormed, PTL DEF Spec
-----------------------------------------------------------------------------
(* Destroyed sessions *)

Gone == history.destroyed \ history.overtaken

\* What is gone has no row, was a session once, and nobody is still to save it.
GoneInv ==
    /\ DestroyedStaysDestroyed
    /\ history.destroyed \subseteq used
    /\ cookie \in used \cup {None}
    /\ \A w \in Worker : handler[w].held.sid \in used \cup {None}
    /\ \A w \in Worker : handler[w].held.sid \in Gone => ~IsSaved(handler[w].held)

\* A handler has no session with an id, the stored one of the cookie, the one it had,
\* which it is to save only if it was, or one it has just saved under a new id.
HeldStep(w) ==
    \/ handler'[w].held.sid = None
    \/ Present(cookie) /\ handler'[w].held.sid = cookie
    \/ /\ handler'[w].held.sid = handler[w].held.sid
       /\ IsSaved(handler'[w].held) => IsSaved(handler[w].held)
    \/ handler'[w].held.sid \in used' \ used

LEMMA ServeHeld ==
    ASSUME TypeOK, NEW w \in Worker, NEW place, NEW marks, Serve(w, place, marks)
    PROVE  HeldStep(w)
<1>1. handler \in [Worker -> HandlerType]
    BY TypeParts DEF PortalTypes
<1>2. Session(w) \in Held
    BY SessionType
<1>3. handler'[w] = [IdleHandler EXCEPT !.at = place,
                                        !.held = [Session(w) EXCEPT !.marks = marks]]
    BY <1>1 DEF Serve
<1>4. handler'[w].held = [Session(w) EXCEPT !.marks = marks]
    BY <1>3 DEF IdleHandler
<1>5. handler'[w].held.sid = Session(w).sid
    BY <1>2, <1>4 DEF Held
<1> QED BY <1>5 DEF HeldStep, Session, Retrieved, LoadedSession, NewSession

LEMMA HeldSteps ==
    ASSUME TypeOK, CallbackInv, NEW w \in Worker, SessionStep(w) \/ DashboardStep(w)
    PROVE  HeldStep(w)
<1>1. /\ handler \in [Worker -> HandlerType]
      /\ handler[w] \in HandlerType
      /\ handler[w].held \in Held
      /\ CallbackOK(handler[w])
    BY TypeParts DEF PortalTypes, HandlerType, CallbackInv
<1>2. IdleHandler \in HandlerType /\ IdleHandler.held.sid = None
    BY IdleType DEF IdleHandler, NewSession
<1>3. ASSUME handler'[w] = IdleHandler
      PROVE  HeldStep(w)
    BY <1>2, <1>3 DEF HeldStep
<1>4. ASSUME handler'[w].held = handler[w].held
      PROVE  HeldStep(w)
    BY <1>4 DEF HeldStep
<1>5. ASSUME NEW answer, NEW held \in Held, NEW faulty, Answer(w, answer, held, faulty)
      PROVE  handler'[w].held = held
    BY <1>1, <1>2, <1>5 DEF Answer, HandlerType
<1>6. CASE OpenExpired(w)
    <2>1. handler'[w].held = [handler[w].held EXCEPT !.sid = cookie]
        BY <1>1, <1>6 DEF OpenExpired, HandlerType
    <2>2. handler'[w].held.sid = cookie
        BY <1>1, <2>1 DEF Held
    <2> QED BY <1>6, <2>2 DEF OpenExpired, HeldStep
<1>7. CASE Purge(w)
    <2>1. handler'[w].held = IdleHandler.held
        BY <1>1, <1>2, <1>7 DEF Purge, HandlerType
    <2> QED BY <1>2, <2>1 DEF HeldStep
<1>8. CASE ServePage(w) \/ Intake(w) \/ Complete(w) \/ BeginSignIn(w) \/ ServeDashboard(w)
           \/ ServeAdmin(w) \/ OpenInvitation(w)
    BY <1>8, ServeHeld DEF ServePage, Intake, Complete, BeginSignIn, ServeDashboard,
       ServeAdmin, OpenInvitation, TurnAway
<1>9. CASE Bind(w)
    <2>1. handler'[w].held \in {Regenerated(w, {"csrf", "employee"}), NewSession({"csrf"})}
        BY <1>1, <1>9 DEF Bind, HandlerType
    <2> QED BY <2>1 DEF Regenerated, NewSession, HeldStep
<1>10. CASE Finish(w) \/ End(w) \/ Crash(w)
    BY <1>1, <1>3, <1>10 DEF Finish, End, Crash
<1>11. CASE CallbackArrives(w)
    <2>1. handler'[w].held = IdleHandler.held
        BY <1>1, <1>2, <1>11 DEF CallbackArrives, HandlerType
    <2> QED BY <1>2, <2>1 DEF HeldStep
<1>12. CASE LookUpDashboard(w)
    <2>1. NewSession({"csrf"}) \in Held /\ NewSession({"csrf"}).sid = None
        BY NewSessionType DEF NewSession, Mark
    <2>2. CASE Answer(w, "rejected", NewSession({"csrf"}), FALSE)
        <3>1. handler'[w].held = NewSession({"csrf"})
            BY <1>5, <2>1, <2>2
        <3> QED BY <2>1, <3>1 DEF HeldStep
    <2>3. CASE handler' = [handler EXCEPT ![w].at = "authenticate",
                                          ![w].purpose = "dashboard"]
        <3>1. handler'[w].held = handler[w].held
            BY <1>1, <2>3 DEF HandlerType
        <3> QED BY <1>4, <3>1
    <2> QED BY <1>12, <2>2, <2>3 DEF LookUpDashboard
<1>13. CASE Authenticate(w)
    <2>1. handler'[w].held \in {NewSession({"csrf", handler[w].purpose}), handler[w].held}
        BY <1>1, <1>13 DEF Authenticate, HandlerType
    <2> QED BY <1>4, <2>1 DEF NewSession, HeldStep
<1>14. CASE DeleteTransaction(w) \/ CountInvitation(w) \/ AnswerInvitation(w)
    <2>1. handler'[w].held = handler[w].held
        BY <1>1, <1>14 DEF DeleteTransaction, CountInvitation, AnswerInvitation, Go,
           FailFor, HandlerType
    <2> QED BY <1>4, <2>1
<1>15. CASE SaveSignIn(w)
    <2>1. PICK s \in SaveIds(handler[w].held) :
             /\ used' = used \cup {s}
             /\ \/ Answer(w, "complete", [handler[w].held EXCEPT !.sid = s], FALSE)
                \/ handler' = [handler EXCEPT ![w].at = "reject", ![w].held.sid = s,
                                              ![w].faulty = TRUE]
        BY <1>15 DEF SaveSignIn
    <2>2. s \in Sid /\ s \notin used
        BY <1>1, <1>15 DEF SaveSignIn, At, CallbackOK, SaveIds
    <2>3. [handler[w].held EXCEPT !.sid = s] \in Held
        BY <1>1, <2>2 DEF Held
    <2>4. handler'[w].held = [handler[w].held EXCEPT !.sid = s]
        <3>1. CASE Answer(w, "complete", [handler[w].held EXCEPT !.sid = s], FALSE)
            BY <1>5, <2>3, <3>1
        <3>2. CASE handler' = [handler EXCEPT ![w].at = "reject", ![w].held.sid = s,
                                              ![w].faulty = TRUE]
            BY <1>1, <3>2 DEF HandlerType
        <3> QED BY <2>1, <3>1, <3>2
    <2>5. handler'[w].held.sid = s
        BY <1>1, <2>4 DEF Held
    <2> QED BY <2>1, <2>2, <2>5 DEF HeldStep
<1>16. CASE Reject(w)
    <2> DEFINE held == [handler[w].held EXCEPT !.marks = handler[w].held.marks \cup {"csrf"}]
    <2>1. held \in Held
        BY <1>1 DEF Held, Mark
    <2>2. handler'[w].held = held
        BY <1>5, <1>16, <2>1 DEF Reject
    <2>3. held.sid = handler[w].held.sid
        BY <1>1 DEF Held
    <2>4. ~handler[w].held.sent /\ (handler[w].held.sid = None \/ handler[w].held.marks # {})
        BY <1>1, <1>16 DEF Reject, At, CallbackOK
    <2> HIDE DEF held
    <2> QED BY <2>2, <2>3, <2>4 DEF HeldStep, IsSaved
<1> QED BY <1>6, <1>7, <1>8, <1>9, <1>10, <1>11, <1>12, <1>13, <1>14, <1>15, <1>16
        DEF SessionStep, DashboardStep

\* A row is written only under a new id or by a handler that is to save it; ids and
\* cookies are of sessions that were saved.
Written(w, s) ==
    \/ store'[s] \in {None, store[s]}
    \/ s \notin used
    \/ handler[w].held.sid = s /\ IsSaved(handler[w].held)

LEMMA WritesStep ==
    ASSUME TypeOK, CallbackInv, NEW w \in Worker, SessionStep(w) \/ DashboardStep(w)
    PROVE  /\ \A s \in Sid : Written(w, s)
           /\ used \subseteq used'
           /\ cookie' = cookie \/ cookie' \in used'
<1>1. /\ store \in [Sid -> {None} \cup SUBSET Mark]
      /\ CallbackOK(handler[w])
    BY TypeParts DEF PortalTypes, CallbackInv
<1>2. ASSUME NEW o, NEW marks, store' = [store EXCEPT ![o] = marks],
             \/ marks = None
             \/ o \notin used
             \/ handler[w].held.sid = o /\ IsSaved(handler[w].held)
      PROVE  \A s \in Sid : Written(w, s)
    <2> SUFFICES ASSUME NEW s \in Sid PROVE Written(w, s)
        OBVIOUS
    <2>1. CASE s = o
        <3>1. store'[s] = marks
            BY <1>1, <1>2, <2>1
        <3> QED BY <1>2, <2>1, <3>1 DEF Written
    <2>2. CASE s # o
        <3>1. store'[s] = store[s]
            BY <1>1, <1>2, <2>2
        <3> QED BY <3>1 DEF Written
    <2> QED BY <2>1, <2>2
<1>3. ASSUME UNCHANGED store
      PROVE  \A s \in Sid : Written(w, s)
    BY <1>3 DEF Written
<1>4. ASSUME NEW o, store' = DestroyRow(o)
      PROVE  \A s \in Sid : Written(w, s)
    BY <1>2, <1>3, <1>4 DEF DestroyRow
<1>5. CASE End(w)
    <2>1. CASE IsSaved(handler[w].held)
        <3>1. PICK s \in SaveIds(handler[w].held) :
                 /\ used' = used \cup {s}
                 /\ store' = SetRow(s, handler[w].held.marks) \/ UNCHANGED store
                 /\ cookie' = s
            BY <1>5, <2>1 DEF End
        <3>2. s \notin used \/ handler[w].held.sid = s
            BY DEF SaveIds
        <3>3. \A o \in Sid : Written(w, o)
            BY <1>2, <1>3, <2>1, <3>1, <3>2 DEF SetRow
        <3> QED BY <3>1, <3>3
    <2>2. CASE ~IsSaved(handler[w].held)
        BY <1>3, <1>5, <2>2 DEF End, TouchRow
    <2> QED BY <2>1, <2>2
<1>6. CASE SaveSignIn(w)
    <2>1. PICK s \in SaveIds(handler[w].held) :
             /\ used' = used \cup {s}
             /\ store' \in {store, SetRow(s, Marks(w))}
        BY <1>6 DEF SaveSignIn
    <2>2. s \notin used
        BY <1>1, <1>6 DEF SaveSignIn, At, CallbackOK, SaveIds
    <2>3. \A o \in Sid : Written(w, o)
        BY <1>2, <1>3, <2>1, <2>2 DEF SetRow
    <2>4. cookie' = cookie
        BY <1>6 DEF SaveSignIn
    <2> QED BY <2>1, <2>3, <2>4
<1>7. CASE Purge(w) \/ Bind(w) \/ Finish(w)
    <2>1. UNCHANGED store \/ \E o : store' = DestroyRow(o)
        BY <1>7 DEF Purge, Bind, Finish, Destroy
    <2>2. UNCHANGED <<cookie, used>>
        BY <1>7 DEF Purge, Bind, Finish
    <2> QED BY <1>3, <1>4, <2>1, <2>2
<1>8. UNCHANGED sessionVars \/ End(w) \/ SaveSignIn(w) \/ Purge(w) \/ Bind(w) \/ Finish(w)
    BY DEF SessionStep, OpenExpired, ServePage, Intake, Complete, Crash, DashboardStep,
       BeginSignIn, CallbackArrives, LookUpDashboard, Authenticate, DeleteTransaction,
       Reject, ServeDashboard, ServeAdmin, OpenInvitation, CountInvitation,
       AnswerInvitation
<1>9. CASE UNCHANGED sessionVars
    BY <1>3, <1>9 DEF sessionVars
<1> QED BY <1>5, <1>6, <1>7, <1>8, <1>9

\* A session is destroyed by a handler that lets go of it.
LEMMA DestroyStep ==
    ASSUME TypeOK, NEW w \in Worker, SessionStep(w) \/ DashboardStep(w)
    PROVE  \/ UNCHANGED history
           \/ /\ Destroy(w)
              /\ handler'[w].held.sid = None
<1>1. handler \in [Worker -> HandlerType]
    BY TypeParts DEF PortalTypes
<1>2. CASE Bind(w)
    <2>1. CASE UNCHANGED history
        BY <2>1
    <2>2. CASE Destroy(w) /\ handler' = [handler EXCEPT ![w].at = "end",
                               ![w].held = Regenerated(w, {"csrf", "employee"})]
        <3>1. handler'[w].held = Regenerated(w, {"csrf", "employee"})
            BY <1>1, <2>2 DEF HandlerType
        <3> QED BY <2>2, <3>1 DEF Regenerated, NewSession
    <2> QED BY <1>2, <2>1, <2>2 DEF Bind
<1>3. CASE Finish(w)
    <2>1. handler'[w].held.sid = None
        BY <1>1, <1>3 DEF Finish, IdleHandler, NewSession
    <2> QED BY <1>3, <2>1 DEF Finish
<1>4. UNCHANGED history \/ Bind(w) \/ Finish(w)
    BY DEF SessionStep, OpenExpired, Purge, ServePage, Intake, Complete, End, Crash,
       DashboardStep, BeginSignIn, CallbackArrives, LookUpDashboard, Authenticate,
       DeleteTransaction, SaveSignIn, Reject, ServeDashboard, ServeAdmin, OpenInvitation,
       CountInvitation, AnswerInvitation
<1> QED BY <1>2, <1>3, <1>4

LEMMA GoneStep ==
    ASSUME TypeOK, CallbackInv, GoneInv, [Next]_vars
    PROVE  GoneInv'
<1>1. /\ store \in [Sid -> {None} \cup SUBSET Mark]
      /\ cookie \in Sid \cup {None}
      /\ used \subseteq Sid
      /\ handler \in [Worker -> HandlerType]
      /\ history \in [destroyed : SUBSET Sid, overtaken : SUBSET Sid, lapsed : SUBSET Sid]
    BY TypeParts DEF PortalTypes
<1>2. CASE ~ \E w \in Worker : SessionStep(w) \/ DashboardStep(w)
    <2>1. UNCHANGED <<handler, sessionVars>>
        BY <1>2, OtherStepsMoveNone
    <2>2. /\ history'.destroyed = history.destroyed
          /\ history'.overtaken = history.overtaken
        BY <1>1, <1>2 DEF Next, AuthorityLapses, SignInLapses, vars
    <2> QED BY <2>1, <2>2 DEF GoneInv, DestroyedStaysDestroyed, Gone, sessionVars
<1>3. ASSUME NEW w \in Worker, SessionStep(w) \/ DashboardStep(w)
      PROVE  GoneInv'
    <2>1. None \notin Sid /\ None \notin used
        BY <1>1, NoneAssumption
    <2>2. /\ HeldStep(w)
          /\ used \subseteq used'
          /\ cookie' = cookie \/ cookie' \in used'
          /\ \A v \in Worker : v # w => handler'[v] = handler[v]
        BY <1>3, HeldSteps, WritesStep, OneHandlerMoves
    <2>3. \A v \in Worker : handler'[v].held.sid \in used' \cup {None}
        BY <2>2 DEF HeldStep, GoneInv, Present
    <2>4. cookie' \in used' \cup {None}
        BY <2>2 DEF GoneInv
    <2>5. \A s \in Gone : store'[s] = None
        BY <1>1, <1>3, WritesStep DEF Written, GoneInv, DestroyedStaysDestroyed, Gone
    <2>6. \A v \in Worker : handler'[v].held.sid \in Gone => ~IsSaved(handler'[v].held)
        <3>1. ASSUME handler'[w].held.sid \in Gone
              PROVE  ~IsSaved(handler'[w].held)
            <4>1. handler'[w].held.sid \in used /\ store[handler'[w].held.sid] = None
                BY <3>1 DEF GoneInv, DestroyedStaysDestroyed, Gone
            <4>2. /\ handler'[w].held.sid = handler[w].held.sid
                  /\ IsSaved(handler'[w].held) => IsSaved(handler[w].held)
                BY <2>1, <2>2, <4>1 DEF HeldStep, Present
            <4> QED BY <3>1, <4>2 DEF GoneInv
        <3> QED BY <2>2, <3>1 DEF GoneInv
    <2>7. CASE UNCHANGED history
        BY <2>2, <2>3, <2>4, <2>5, <2>6, <2>7 DEF GoneInv, DestroyedStaysDestroyed, Gone
    <2>8. CASE Destroy(w) /\ handler'[w].held.sid = None
        <3> DEFINE s == handler[w].held.sid
                   late == {o \in {s} : \E v \in Worker \ {w} :
                               handler[v].held.sid = s /\ IsSaved(handler[v].held)}
        <3>1. CASE s = None
            BY <2>7, <2>8, <3>1 DEF Destroy
        <3>2. CASE s # None
            <4>1. history' = [history EXCEPT !.destroyed = history.destroyed \cup {s},
                                             !.overtaken = history.overtaken \cup late]
                BY <2>8, <3>2 DEF Destroy
            <4>2. /\ history'.destroyed = history.destroyed \cup {s}
                  /\ history'.overtaken = history.overtaken \cup late
                BY <1>1, <4>1
            <4>3. s \in used
                BY <3>2 DEF GoneInv
            <4>4. store'[s] = None
                BY <1>1, <2>8, <3>2, <4>3 DEF Destroy, DestroyRow
            <4>5. history'.destroyed \ history'.overtaken \subseteq Gone \cup {s}
                BY <4>2 DEF Gone
            <4>6. ASSUME NEW v \in Worker,
                         handler'[v].held.sid \in history'.destroyed \ history'.overtaken
                  PROVE  ~IsSaved(handler'[v].held)
                <5>1. CASE handler'[v].held.sid \in Gone
                    BY <2>6, <5>1
                <5>2. CASE handler'[v].held.sid = s
                    <6>1. v # w
                        BY <2>8, <3>2, <5>2
                    <6>2. handler'[v] = handler[v]
                        BY <2>2, <6>1
                    <6>3. s \notin late
                        BY <4>2, <4>6, <5>2
                    <6> QED BY <5>2, <6>1, <6>2, <6>3
                <5> QED BY <4>5, <4>6, <5>1, <5>2
            <4>7. DestroyedStaysDestroyed'
                BY <2>5, <4>4, <4>5 DEF DestroyedStaysDestroyed
            <4>8. history'.destroyed \subseteq used'
                BY <2>2, <4>2, <4>3 DEF GoneInv
            <4> QED BY <2>3, <2>4, <4>6, <4>7, <4>8 DEF GoneInv, Gone
        <3> QED BY <3>1, <3>2
    <2> QED BY <1>3, <2>7, <2>8, DestroyStep
<1> QED BY <1>2, <1>3

\* A destroyed session comes back only by the late save of a request that was under
\* way, had loaded it and changes it (table-session-store.js:55 and :79).
THEOREM DestroyedSessionsStayGone == Spec => []DestroyedStaysDestroyed
<1>1. Init => GoneInv
    BY NoneAssumption DEF Init, SessionInit, GoneInv, DestroyedStaysDestroyed, Gone,
       IdleHandler, NewSession
<1>2. TypeOK /\ CallbackInv /\ LimiterInv /\ GoneInv /\ [Next]_vars => GoneInv'
    BY GoneStep
<1>3. GoneInv => DestroyedStaysDestroyed
    BY DEF GoneInv
<1> QED BY <1>1, <1>2, <1>3, WellFormed, PTL DEF Spec
-----------------------------------------------------------------------------
(* What the callback's answer says *)

\* Until it answers, a callback says nothing; it has authority only after the profile,
\* and is rejected with authority only because storage failed.
AnswerOK(h) ==
    /\ h.at # "end" => h.answer = None
    /\ h.at \in {"look-up-dashboard", "authenticate"} => h.held.marks \cap Role = {}
    /\ h.at \in {"delete-transaction", "save"} => h.held.marks \cap Role # {}
    /\ h.at = "reject" /\ ~h.faulty => h.held.marks \cap Role = {}
    /\ h.at = "end" /\ h.answer = "rejected" /\ ~h.faulty => h.held.marks \cap Role = {}
    /\ h.at = "end" /\ h.answer = "complete" => h.held.marks \cap Role # {}

Completed(h) == h.at = "end" /\ h.answer = "complete"

\* Until the response is sent, nobody else knows the id under which it was saved.
Secret(w) ==
    /\ handler[w].held.sid \in used
    /\ store[handler[w].held.sid] = handler[w].held.marks
    /\ cookie # handler[w].held.sid
    /\ \A v \in Worker \ {w} : handler[v].held.sid # handler[w].held.sid

AnswerInv ==
    \A w \in Worker : AnswerOK(handler[w]) /\ (Completed(handler[w]) => Secret(w))

LEMMA ServeAnswer ==
    ASSUME TypeOK, NEW w \in Worker, NEW place \in {"bind", "finish", "limited", "end"}, NEW marks,
           Serve(w, place, marks)
    PROVE  AnswerOK(handler'[w]) /\ ~Completed(handler'[w])
<1>1. handler \in [Worker -> HandlerType]
    BY TypeParts DEF PortalTypes
<1>2. handler'[w] = [IdleHandler EXCEPT !.at = place,
                                        !.held = [Session(w) EXCEPT !.marks = marks]]
    BY <1>1 DEF Serve
<1>3. handler'[w].at = place /\ handler'[w].answer = None
    BY <1>2 DEF IdleHandler
<1> QED BY <1>3, NoneIsNoAnswer DEF AnswerOK, Completed

\* Only the save of a sign-in completes one.
LEMMA AnswerSteps ==
    ASSUME TypeOK, CallbackInv, NEW w \in Worker, SessionStep(w) \/ DashboardStep(w),
           AnswerOK(handler[w])
    PROVE  /\ AnswerOK(handler'[w])
           /\ Completed(handler'[w]) =>
                /\ SaveSignIn(w) /\ handler'[w].held.marks = handler[w].held.marks
                /\ \E s \in SaveIds(handler[w].held) :
                      /\ used' = used \cup {s} /\ store' = SetRow(s, Marks(w))
                      /\ handler'[w].held.sid = s
<1> DEFINE Plain == AnswerOK(handler'[w]) /\ ~Completed(handler'[w])
<1>1. /\ handler \in [Worker -> HandlerType]
      /\ handler[w] \in HandlerType
      /\ handler[w].held \in Held
      /\ CallbackOK(handler[w])
    BY TypeParts DEF PortalTypes, HandlerType, CallbackInv
<1>2. IdleHandler \in HandlerType /\ AnswerOK(IdleHandler) /\ ~Completed(IdleHandler)
    BY IdleType DEF IdleHandler, AnswerOK, Completed
<1>3. ASSUME handler'[w] = IdleHandler
      PROVE  Plain
    BY <1>2, <1>3
<1>4. ASSUME handler'[w].at \in {"idle", "purge", "start", "bind", "finish", "limited", "end"},
             handler'[w].answer = None
      PROVE  Plain
    BY <1>4, NoneIsNoAnswer DEF AnswerOK, Completed
<1>5. CASE OpenExpired(w) \/ Bind(w)
    <2>1. handler[w].answer = None
        BY <1>5 DEF OpenExpired, Bind, At, AnswerOK
    <2> QED BY <1>1, <1>4, <1>5, <2>1 DEF OpenExpired, Bind, HandlerType
<1>6. CASE Purge(w)
    <2>1. /\ [IdleHandler EXCEPT !.at = "start"].at = "start"
          /\ [IdleHandler EXCEPT !.at = "start"].answer = None
        BY DEF IdleHandler
    <2> QED BY <1>1, <1>3, <1>4, <1>6, <2>1 DEF Purge
<1>7. CASE ServePage(w) \/ Intake(w) \/ Complete(w) \/ BeginSignIn(w) \/ ServeDashboard(w)
           \/ ServeAdmin(w) \/ OpenInvitation(w)
    BY <1>7, ServeAnswer DEF ServePage, Intake, Complete, BeginSignIn, ServeDashboard,
       ServeAdmin, OpenInvitation, TurnAway
<1>8. CASE Finish(w) \/ End(w) \/ Crash(w)
    BY <1>1, <1>3, <1>8 DEF Finish, End, Crash
<1>9. CASE CallbackArrives(w)
    <2>1. PICK t \in SignIn, found \in BOOLEAN :
             handler' = [handler EXCEPT ![w] = [IdleHandler EXCEPT
                !.txn = t,
                !.at = IF found THEN "authenticate" ELSE "look-up-dashboard",
                !.purpose = IF found THEN "admin" ELSE None]]
        BY <1>9 DEF CallbackArrives, Finds
    <2>2. /\ handler'[w].at \in {"authenticate", "look-up-dashboard"}
          /\ handler'[w].answer = None /\ handler'[w].held.marks = {}
        BY <1>1, <2>1 DEF IdleHandler, NewSession
    <2> QED BY <2>2 DEF AnswerOK, Completed
<1>10. CASE LookUpDashboard(w)
    <2>1. handler[w].answer = None /\ handler[w].held.marks \cap Role = {}
        BY <1>10 DEF LookUpDashboard, At, AnswerOK
    <2>2. CASE handler' = [handler EXCEPT ![w].at = "authenticate",
                                          ![w].purpose = "dashboard"]
        BY <1>1, <2>1, <2>2 DEF HandlerType, AnswerOK, Completed
    <2>3. CASE Answer(w, "rejected", NewSession({"csrf"}), FALSE)
        BY <1>1, <1>2, <2>3 DEF Answer, HandlerType, IdleHandler, NewSession, Role, AnswerOK,
           Completed
    <2> QED BY <1>10, <2>2, <2>3 DEF LookUpDashboard
<1>11. CASE Authenticate(w)
    <2>1. /\ handler[w].answer = None /\ handler[w].held.marks \cap Role = {}
          /\ handler[w].purpose \in Role
        BY <1>1, <1>11 DEF Authenticate, At, AnswerOK, CallbackOK
    <2>2. CASE handler' = [handler EXCEPT ![w].at = "delete-transaction", ![w].purpose = None,
                               ![w].held = NewSession({"csrf", handler[w].purpose})]
        <3>1. /\ handler'[w].at = "delete-transaction" /\ handler'[w].answer = None
              /\ handler'[w].held = NewSession({"csrf", handler[w].purpose})
            BY <1>1, <2>1, <2>2 DEF HandlerType
        <3>2. handler[w].purpose \in handler'[w].held.marks
            BY <3>1 DEF NewSession
        <3> QED BY <2>1, <3>1, <3>2 DEF AnswerOK, Completed
    <2>3. CASE handler' = [handler EXCEPT ![w].at = "reject", ![w].purpose = None]
        BY <1>1, <2>1, <2>3 DEF HandlerType, AnswerOK, Completed
    <2> QED BY <1>11, <2>2, <2>3 DEF Authenticate
<1>12. CASE DeleteTransaction(w)
    <2>1. handler[w].answer = None /\ handler[w].held.marks \cap Role # {}
        BY <1>12 DEF DeleteTransaction, At, AnswerOK
    <2>2. CASE Go(w, "save")
        BY <1>1, <2>1, <2>2 DEF Go, HandlerType, AnswerOK, Completed
    <2>3. CASE FailFor(w, "reject")
        BY <1>1, <2>1, <2>3 DEF FailFor, HandlerType, AnswerOK, Completed
    <2> QED BY <1>12, <2>2, <2>3 DEF DeleteTransaction
<1>13. CASE SaveSignIn(w)
    <2>1. handler[w].answer = None /\ handler[w].held.marks \cap Role # {}
        BY <1>13 DEF SaveSignIn, At, AnswerOK
    <2>2. PICK s \in SaveIds(handler[w].held) :
             /\ used' = used \cup {s}
             /\ \/ /\ store' = SetRow(s, Marks(w))
                   /\ Answer(w, "complete", [handler[w].held EXCEPT !.sid = s], FALSE)
                \/ handler' = [handler EXCEPT ![w].at = "reject", ![w].held.sid = s,
                                              ![w].faulty = TRUE]
        BY <1>13 DEF SaveSignIn
    <2>3. CASE handler' = [handler EXCEPT ![w].at = "reject", ![w].held.sid = s,
                                          ![w].faulty = TRUE]
        BY <1>1, <2>1, <2>3 DEF HandlerType, AnswerOK, Completed
    <2>4. CASE /\ store' = SetRow(s, Marks(w))
               /\ Answer(w, "complete", [handler[w].held EXCEPT !.sid = s], FALSE)
        <3>1. /\ handler'[w].at = "end" /\ handler'[w].answer = "complete"
              /\ handler'[w].held = [handler[w].held EXCEPT !.sid = s]
            BY <1>1, <2>4 DEF Answer, IdleHandler
        <3>2. handler'[w].held.sid = s /\ handler'[w].held.marks = handler[w].held.marks
            BY <1>1, <3>1 DEF Held
        <3> QED BY <1>13, <2>1, <2>2, <2>4, <3>1, <3>2 DEF AnswerOK, Completed
    <2> QED BY <2>2, <2>3, <2>4
<1>14. CASE Reject(w)
    <2> DEFINE held == [handler[w].held EXCEPT !.marks = handler[w].held.marks \cup {"csrf"}]
    <2>1. Answer(w, "rejected", held, handler[w].faulty)
        BY <1>14 DEF Reject
    <2>2. held.marks \cap Role = handler[w].held.marks \cap Role
        BY <1>1 DEF Held, Role
    <2> HIDE DEF held
    <2>3. /\ handler'[w].at = "end" /\ handler'[w].answer = "rejected"
          /\ handler'[w].held = held /\ handler'[w].faulty = handler[w].faulty
        BY <1>1, <2>1 DEF Answer, IdleHandler
    <2> QED BY <1>14, <2>2, <2>3 DEF Reject, At, AnswerOK, Completed
<1>15. CASE CountInvitation(w)
    <2>1. handler' = handler /\ handler[w].at = "limited"
        BY <1>15 DEF CountInvitation, At
    <2> QED BY <2>1 DEF AnswerOK, Completed
<1>16. CASE AnswerInvitation(w)
    <2>1. handler[w].answer = None
        BY <1>16 DEF AnswerInvitation, At, AnswerOK
    <2> QED BY <1>1, <1>4, <1>16, <2>1 DEF AnswerInvitation, Go, HandlerType
<1> QED BY <1>5, <1>6, <1>7, <1>8, <1>9, <1>10, <1>11, <1>12, <1>13, <1>14, <1>15, <1>16
        DEF SessionStep, DashboardStep

\* A handler neither changes the row of an id that it does not hold nor learns the id,
\* and the browser gets no id but the handler's.
LEMMA SecretStep ==
    ASSUME TypeOK, CallbackInv, NEW w \in Worker, SessionStep(w) \/ DashboardStep(w),
           NEW s \in used, cookie # s, handler[w].held.sid # s
    PROVE  store'[s] = store[s] /\ cookie' # s /\ handler'[w].held.sid # s
<1>1. /\ store \in [Sid -> {None} \cup SUBSET Mark] /\ used \subseteq Sid
      /\ CallbackOK(handler[w])
    BY TypeParts DEF PortalTypes, CallbackInv
<1>2. s # None /\ s \in Sid
    BY <1>1, NoneAssumption
<1>3. handler'[w].held.sid # s
    BY <1>2, HeldSteps DEF HeldStep
<1>4. \A o \in SaveIds(handler[w].held) : \A marks : SetRow(o, marks)[s] = store[s] /\ o # s
    BY <1>1, <1>2 DEF SaveIds, SetRow
<1>5. DestroyRow(handler[w].held.sid)[s] = store[s]
    BY <1>1, <1>2 DEF DestroyRow
<1>6. CASE End(w)
    BY <1>3, <1>4, <1>6 DEF End, TouchRow
<1>7. CASE SaveSignIn(w)
    BY <1>3, <1>4, <1>7 DEF SaveSignIn
<1>8. CASE Purge(w) \/ Bind(w) \/ Finish(w)
    BY <1>3, <1>5, <1>8 DEF Purge, Bind, Finish, Destroy
<1>9. CASE UNCHANGED sessionVars
    BY <1>3, <1>9 DEF sessionVars
<1>10. UNCHANGED sessionVars \/ End(w) \/ SaveSignIn(w) \/ Purge(w) \/ Bind(w) \/ Finish(w)
    BY DEF SessionStep, OpenExpired, ServePage, Intake, Complete, Crash, DashboardStep,
       BeginSignIn, CallbackArrives, LookUpDashboard, Authenticate, DeleteTransaction,
       Reject, ServeDashboard, ServeAdmin, OpenInvitation, CountInvitation,
       AnswerInvitation
<1> QED BY <1>6, <1>7, <1>8, <1>9, <1>10

LEMMA AnswerStep ==
    ASSUME TypeOK, CallbackInv, GoneInv, AnswerInv, [Next]_vars
    PROVE  AnswerInv'
<1>1. CASE ~ \E w \in Worker : SessionStep(w) \/ DashboardStep(w)
    BY <1>1, OtherStepsMoveNone DEF AnswerInv, AnswerOK, Completed, Secret, sessionVars
<1>2. ASSUME NEW w \in Worker, SessionStep(w) \/ DashboardStep(w)
      PROVE  AnswerInv'
    <2>1. /\ AnswerOK(handler[w]) /\ used \subseteq used'
          /\ \A v \in Worker : v # w => handler'[v] = handler[v]
        BY <1>2, OneHandlerMoves, WritesStep DEF AnswerInv
    <2>2. AnswerOK(handler'[w])
        BY <1>2, <2>1, AnswerSteps
    <2>3. ASSUME Completed(handler'[w])
          PROVE  Secret(w)'
        <3>1. PICK s \in SaveIds(handler[w].held) :
                 /\ used' = used \cup {s} /\ store' = SetRow(s, Marks(w))
                 /\ handler'[w].held.sid = s
            BY <1>2, <2>1, <2>3, AnswerSteps
        <3>2. SaveSignIn(w) /\ handler'[w].held.marks = handler[w].held.marks
            BY <1>2, <2>1, <2>3, AnswerSteps
        <3>3. s \in Sid \ used /\ s # None
            BY <3>2, NoneAssumption DEF SaveSignIn, At, CallbackInv, CallbackOK, SaveIds
        <3>4. store'[s] = handler'[w].held.marks
            BY <3>1, <3>2, <3>3, TypeParts DEF SetRow, Marks, PortalTypes
        <3>5. cookie' # s
            BY <3>2, <3>3 DEF SaveSignIn, GoneInv
        <3>6. \A v \in Worker \ {w} : handler'[v].held.sid # s
            BY <2>1, <3>3 DEF GoneInv
        <3> QED BY <3>1, <3>4, <3>5, <3>6 DEF Secret
    <2>4. ASSUME NEW v \in Worker \ {w}, Completed(handler[v])
          PROVE  Secret(v)'
        <3> DEFINE s == handler[v].held.sid
        <3>1. /\ s \in used /\ store[s] = handler[v].held.marks
              /\ cookie # s /\ \A u \in Worker \ {v} : handler[u].held.sid # s
            BY <2>4 DEF AnswerInv, Secret
        <3>2. store'[s] = store[s] /\ cookie' # s /\ handler'[w].held.sid # s
            BY <1>2, <3>1, SecretStep
        <3>3. handler'[v] = handler[v] /\ s \in used'
            BY <2>1, <3>1
        <3>4. \A u \in Worker \ {v} : handler'[u].held.sid # s
            BY <2>1, <3>1, <3>2
        <3> QED BY <3>1, <3>2, <3>3, <3>4 DEF Secret
    <2>5. ASSUME NEW v \in Worker
          PROVE  AnswerOK(handler'[v]) /\ (Completed(handler'[v]) => Secret(v)')
        <3>1. CASE v = w
            BY <2>2, <2>3, <3>1
        <3>2. CASE v # w
            BY <2>1, <2>4, <3>2 DEF AnswerInv
        <3> QED BY <3>1, <3>2
    <2> QED BY <2>5 DEF AnswerInv, AnswerOK, Completed
<1> QED BY <1>1, <1>2

\* Who is told that the sign-in is complete has a stored session with authority, which
\* no other request can have changed yet, and who is told that it was rejected has none,
\* unless storage failed after the authority was given (v2-manager.js:475).
THEOREM AnswersAreTrue == Spec => []SignInAnswerIsTrue
<1>1. Init => GoneInv /\ AnswerInv
    BY NoneAssumption DEF Init, SessionInit, GoneInv, DestroyedStaysDestroyed, Gone,
       IdleHandler, NewSession, AnswerInv, AnswerOK, Completed
<1>2. TypeOK /\ CallbackInv /\ LimiterInv /\ GoneInv /\ AnswerInv /\ [Next]_vars
        => GoneInv' /\ AnswerInv'
    BY GoneStep, AnswerStep
<1>3. TypeOK /\ AnswerInv => SignInAnswerIsTrue
    <2> SUFFICES ASSUME TypeOK, AnswerInv, NEW w \in Worker, At(w, "end")
                 PROVE  /\ handler[w].answer = "complete" =>
                              /\ handler[w].held.sid # None
                              /\ store[handler[w].held.sid] # None
                              /\ store[handler[w].held.sid] \cap Role # {}
                        /\ handler[w].answer = "rejected" /\ ~handler[w].faulty =>
                              Marks(w) \cap Role = {}
        BY DEF SignInAnswerIsTrue
    <2>1. used \subseteq Sid /\ handler[w].held.marks \in SUBSET Mark
        BY TypeParts DEF PortalTypes, HandlerType, Held
    <2>2. AnswerOK(handler[w]) /\ (Completed(handler[w]) => Secret(w))
        BY DEF AnswerInv
    <2> QED BY <2>1, <2>2, NoneAssumption, NoneIsNoContent
            DEF AnswerOK, Completed, Secret, At, Marks
<1> QED BY <1>1, <1>2, <1>3, WellFormed, PTL DEF Spec
=============================================================================
