# A formal model of the Verified ID onboarding portal

This directory holds TLA+ modules that model the request handling of the portal
in `src/`, configurations that model-check them with TLC, and proofs checked by
TLAPS. Paths below are relative to the repository.

## 1. The system

The portal is one Express process (`src/app.js`) in front of Azure Table storage,
Microsoft Graph, the Entra Verified ID request service, an OIDC provider and a
mail provider. An onboarding request takes an employee from a form to a new
passkey:

    requested -> manager-notified -> manager-approved -> credential-issued
      -> credential-presented -> verified -> tap-issued -> passkey-registered -> complete

with `employee-invited` as the start when a manager creates the request, and
`manager-rejected`, `admin-cancelled`, `expired`, `locked` as other ends. The
request is one table row; every handler changes it through `updateRequest`.

| Component | State it keeps | Operations | Talks to |
| --- | --- | --- | --- |
| Onboarding service (`services/onboarding-v2-service.js`) | the request row: state, token status, sign-in state, two exchanges, pass, baseline of passkeys | one function per step, each with allowed states and checks | table repository |
| Table repository (same file, `table-client.js`) | rows with etags, employee locks, rate counters, sign-in transactions | `updateRequest` (read, conditional replace, 5 attempts), `createRequest` with lock, lookups by hash | Azure Tables |
| Onboarding routes (`routes/v2-onboarding.js`) | browser session | intake, status, invitation, escalation | service, mail, Graph |
| Manager routes (`routes/v2-manager.js`) | pre-auth and manager sessions | activate link, sign in, callback, decide, dashboard, administrator's lookup and reset | service, OIDC, Graph |
| Verified ID routes (`routes/v2-verified-id.js`) | none | start issuance / presentation, two callbacks | service, Verified ID, Graph |
| Passkey routes (`routes/v2-passkey.js`) | browser session | display pass, confirm passkey, complete | service, Graph |
| Graph service (`services/graph-service.js`) | passes and FIDO2 methods, in the directory | eligibility, create pass, list and revoke methods | Graph |
| Recovery service (`services/recovery-v2-service.js`) | a second kind of row: state, token status, presentation, revocation, pass | one function per step, its own copy of `updateRequest`, lock and counters | table repository |
| Recovery routes (`routes/v2-recovery.js`; approval in `routes/v2-manager.js`) | browser session | intake, escalation, presentation and its callback, revocation of every passkey, pass, confirmation | service, mail, OIDC, Verified ID, Graph |
| Dashboard and administrator sign-in (`routes/v2-manager.js`) | sign-in transactions, authority in the session | sign in, callback, pages, invitations under a daily limit | session store, counters, OIDC, Graph |
| Session store (`services/table-session-store.js`) | sessions in a table | get, set, touch, destroy | Azure Tables |

What is hard: handlers are chains of awaits, so any two calls of different
handlers interleave; the Verified ID service repeats, delays and reorders its
callbacks; a call that fails may have had its effect (a pass, an exchange, a
mail, an update of the row); deadlines pass between a check and the write that
relies on it; an administrator resets a request under which handlers are still
running; the process may die between two calls, and nothing repairs what it left.
The last error path of a pass operation, the record of its failure, swallows its own
error in both services. A session is
read when a request starts and written when it ends, so requests of one browser
overwrite each other's.

What makes each part correct:

- approval: a token is redeemed once per arming, a decision rests on a redemption
  and a session, a reset acts on the version that was shown, a closed request
  keeps its end;
- credential: the code on screen belongs to an exchange whose callbacks will be
  found, no state is reached that the Verified ID service did not report, the
  retry limits hold;
- pass: one operation at a time, the stored pass is the newest, a displayed pass
  is gone, the passkey that completes the request is new;
- repository: an update is applied in one step or not at all, an employee has one
  live request, a closed request gives the employee's lock back;
- recovery: every passkey the employee had is revoked before a replacement counts,
  a reset takes the approval away for good, a failed operation is not simply tried
  again, and an operation that the row says is under way has a handler, unless a
  crash or a failing update of the row took it away;
- limits and sessions: a limit admits exactly as many as it says, a destroyed
  session stays away, a session holds one standing, and authority comes from a
  sign-in begun for it.

## 2. The modules

| Module | Models |
| --- | --- |
| `OnboardingService` | each update function as a pure operator on the row: `OpAllowed` (allowed states and checks) and `Op` (the row written) |
| `PortalState` | the shared variables, what a handler keeps between its calls, `loadRequest`'s expiry, deadlines, crashes, registration of keys |
| `ApprovalHandlers` | the tail of the intake, invitation, activation, sign-in, decision, escalation, administrator's reset |
| `CredentialHandlers` | the four Verified ID handlers and the wallet |
| `TapHandlers` | `issueTapOnce`, display, confirmation, completion |
| `RequestLifecycle` | the abstract specification: what the portal promises, without rows, handlers or services |
| `OnboardingPortal` | the composition: `Init`, `Next`, fairness, the properties and the refinement mapping to `RequestLifecycle` |
| `MCOnboarding` | the symmetry used by TLC |
| `OptimisticUpdate` | `updateRequest` of both services: read, guard, conditional replace, retry, five attempts |
| `AtomicUpdate` | the abstract specification of an update: one step, or none |
| `EmployeeLock`, `MCEmployeeLock` | the lock of `createRequest`, its takeover, clean-up and release, in both repositories, and the stuck-request script's removal of an orphan |
| `RecoveryService` | the update functions of recovery, in the form of `OnboardingService` |
| `RecoveryState` | the variables of recovery, in the form of `PortalState` |
| `RecoveryApproval` | notification, the manager's sign-in and decision, escalation, administrator's reset |
| `RecoveryHandlers` | presentation and callback, revocation, pass, confirmation, completion |
| `RecoveryPortal`, `MCRecovery` | the composition and its properties |
| `RateLimit` | `enforceRateLimit` and `incrementRateLimit`, and what they promise |
| `SessionStore` | the rows of the session table, and what a request holds of one |
| `PortalSessions` | the session middleware, pages, intake and completion of one browser |
| `ManagerDashboard`, `MCDashboard` | dashboard and administrator sign-in, their pages, invitations under the limit; composes `PortalSessions` and `RateLimit` |
| `OnboardingService_proofs` | every update takes a row to a row |
| `OnboardingPortal_proofs` | type correctness of the whole portal, and how the state moves |
| `TapOperation_proofs` | one pass operation at a time, the stored pass is the newest, a displayed pass is gone |
| `OptimisticUpdate_proofs` | `updateRequest` implements `AtomicUpdate` |
| `EmployeeLock_proofs` | one live request per employee, a closed one frees the lock |
| `RequestLifecycle_proofs` | what approval, credential and passkey rest on, and that the portal implements `RequestLifecycle` |
| `ManagerDashboard_proofs` | the limit, what holds of every session, and what a sign-in's answer says |
| `RecoveryPortal_proofs` | every invariant and action property of recovery |

The portal modules follow one request, the recovery modules one recovery, and both
take `updateRequest` for one step. The repository modules stand beside them, call
by call: `OptimisticUpdate` says in which sense an update is one step,
`EmployeeLock` why one request can be looked at alone. The dashboard modules follow
one browser; what an invitation creates is a request as in `OnboardingPortal`.

**State.** `request` is the row. `handler[w]` is what worker `w` is doing: `at`
names the storage, Graph, mail or Verified ID call it makes next and the other
fields are the local variables it carries across awaits. `due` holds deadlines
that have passed, `attempts` what happened to each exchange at the Verified ID
service, `graph` the passes created and methods registered, `browser` what
mailboxes and sessions hold, `admin` the version an administrator looks at.
`history` is read by properties only.

**Steps.** One action is the code between two awaits whose order matters: it
makes one call and everything the handler does with the answer. `Step` leaves the
row alone, `Write` replaces it and makes every etag read earlier stale. A handler
is a chain, for example

    PresentationCallbackArrives -> ApplyPresentationSuccess (markVerified)
      -> ClaimTapStep -> CheckEligibility -> CreateTap -> RecordTapStep | FailTapStep

and at any point in between any other handler may run. Merged into one step
because nothing in the model distinguishes the order: the live relationship check
and the record of its failure; the eligibility check and the list of methods that
follows it; the lookup of a token and the load of its session.

**Abstractions.** A token is named by the approver it was mailed to; an exchange
by the number of its attempt, which stands for both the random callback state and
the request id; a pass by its serial number; a deadline by whether it has passed.
A credential is accepted (`success`) or rejected (`bad`). `updateRequest` is one
atomic step that may also throw (below); `OptimisticUpdate` models its retry loop.
The own deadline of a manager's sign-in (`managerAuthExpiresAt`) is left out, which only
adds callbacks that come later than the code would take them. Failure codes, audit rows,
notification times, display names and pages are left out.

**Updates that throw.** An update may throw because the table refuses it, because its
answer is lost, or because it lost five races, and it may then have been stored or not
(`storage-fault`). Where nothing catches the error the handler ends, which `Crash` before
or after the step stands for; where the code goes on, the step says how:

| The update that throws | What the code does | In the model |
| --- | --- | --- |
| claim of a pass operation (`issueTapOnce`, `revokePasskeysAndIssueTap`) | the handler ends; a claim that was stored has no handler. In recovery a claim that is sent again after a lost answer finds `passkeys-revoked`, which it put there itself | `ClaimTapStep`, `Claim`, second branch |
| record of the pass | the failure is recorded instead; if the pass was stored, `tap-issued` refuses that record and the handler ends as after a success | `RecordTapStep`, to `fail-tap` |
| record of the failure | the error is swallowed (`.catch(() => {})`), the row goes on saying `creating` | `FailTapStep`, second branch |
| attaching an exchange | the exchange is failed, also when it is active by now | `Attach`, to `fail` |
| failing an exchange | swallowed, the row keeps its window until that lapses | `Fail` |
| beginning an exchange | the exchange is failed | `Create` failing without its calls |
| display of a pass, completion | the pass is gone but not shown; the session is kept | `DisplayTap`, `CompleteStep` |

**The repository.** In `OptimisticUpdate` the row is the sequence of updates that
made it and a version, which is the etag. `caller[u]` is one call of
`updateRequest`: the row it read and the races it lost. `Claim` is the set of
updates that leave the state they start from, so that only one of them fits;
`Repeated` those that the table client may send twice because the first answer was
lost. Such an update meets its own write as a conflict and starts again: a counter
counts twice, a claim is told that it was too late although it won.
`AtomicUpdate` allows this for `Repeated` and for nothing else. In `EmployeeLock`
the table holds one lock and one row per request identifier; `creator[r]`,
`closer[c]` and `script` are at the table call they make next. A lock is written
once per request, so its owner stands for its etag. The row is in one of three
conditions (absent, open, terminal); `OptimisticUpdate` covers the write that
makes it terminal.

`disturbed` remembers that a lock was taken from a request that needed it: by the
clean-up after an insert that was stored and reported as failed, by a creation that
outlasted its own request, or by the script.

**Recovery.** As in the portal: `request` is the row, `handler[w]` a worker at its next
call, `RevocationPlace` the calls of `revokePasskeysAndIssueTap`. Methods are
deleted one by one; any deletion may fail, with or without effect. `history`
remembers for the properties the methods at the proof of identity, whether the
request was approved since the last reset, whether the operation that the row names
lost its handler to a crash or a failing update (`abandoned`), and whether a reset came while a handler was
revoking or confirming (`overtaken`). Merged or left out: the approver is the
direct manager, because the skip manager's link never opens (finding 2 applies
here too); activation and the start of the sign-in are one step; a failed
authentication changes audit fields only; the administrator's lookup and reset are
one step, since the reset is refused unless the version is the one looked up;
the eligibility check and the list of methods are one step.

**Sessions and limits.** A row of the session table is the set of values it holds:
the first CSRF token (`csrf`), any further token (`more`) and the three
standings, that is an employee's binding and a manager's or an administrator's
authority. `handler[w].held` is what a request has of its session; a change is made
as the session is loaded, which nobody else can tell before it is saved. The expiry
time is not kept: any reader may find it passed. The cookie is `SameSite=Strict`,
so the post of the identity provider comes without it and the callback's session
is new. Code exchange, role check, profile and regeneration are one step, which
touches nothing stored. `express-session` is external and modelled by when it
saves, touches and forgets. A response that never reaches the browser is not
followed. `RateLimit` has one bucket: its number is in the key, and its row expires
a whole window after the bucket's end, so the code's branch for an expired row
is never taken.

**Environment.** `Events` lists what may happen outside the portal's control, so
that each run says which faults it admits; in the portal `crash`, `graph-fault`,
`service-fault`, `mail-fault`, `session-fault`, `storage-fault`, `admin`, `escalation`,
`invitation`, `request-deadline`, `token-deadline`, `exchange-deadline`,
`forwarded-link`, `new-passkey`. `GroupCheckDefined` says whether
`getEligiblePilotUser` finds a group check to call (finding 1); the tests supply
one, the handlers do not.

## 3. The runs

`CHECK_DEADLOCK FALSE` in every configuration, because the system does stop: a
request that is complete, closed or waiting for a browser that never returns has
no next step. `Crash(w)` stands for a process that dies, for a call that never answers
and for an error that the handler does not catch; it makes the handler idle and keeps
row, mail and Graph as they are.

| Run | Properties | Events | States |
| --- | --- | --- | --- |
| `approval` | `TypeOK`, `RedeemedOncePerArming`, `DecisionFollowsRedemption`, `ResetActsOnWhatWasSeen`, `TerminalStaysTerminal` | crash, failed mail, session and Graph calls, forwarded link, invitation, escalation, expiry, reset | 163 000 |
| `credential` | `ActiveExchangeIsWhole`, `IssuedCredentialExists`, `VerifiedMeansPresented`, `RetryLimitsHold` | service fault, storage fault, lapsed window, crash | 2 341 000 |
| `tap` | `OneTapOperation`, `NewestTapStored`, `NotRetainedAfterDisplay`, `PasskeyIsNew`, `KeepsLifecycle`, `RestartAwaitsAdministrator` | Graph fault, storage fault, new passkey, crash, expiry, reset | 909 000 |
| `tap_liveness` | `TapAttemptResolves` | Graph fault, storage fault, crash, expiry, reset | 204 000 |
| `optimistic_update` | `TypeOK`, `GivesUpOnlyWhenOvertaken`, `ImplementsAtomicUpdate` | repeated writes, failed calls | 1 134 000 |
| `employee_lock` | `TypeOK`, `OneLiveRequestUndisturbed`, `ClosedRequestFreesEmployee` | crash, refused calls, lost answers, slow creation, the script | 1 654 000 |
| `recovery` | `TypeOK`, `RevokedBeforeReplacement`, `ReplacementIsGood`, `ApprovedSinceReset`, `VerifiedMeansPresented`, `NewestTapStored`, `ActiveExchangeIsWhole`, `OperationIsAlive`, `FailureNeedsNewRound`, `TerminalStaysTerminal` | all | 2 134 000 |
| `dashboard` | `TypeOK`, `DestroyedStaysDestroyed`, `OneStandingPerSession`, `AuthorityFromItsSignIn`, `SignInAnswerIsTrue`, `AdmittedWithinLimit`, `RefusedOnlyWhenSpent` | all | 2 460 000 |
| `one_live_request` | `OneLiveRequest`, violated | lost answers | |
| `proof_yields_tap` | `ProofYieldsTap`, violated | none | |
| `skip_link` | `SkipManagerLinkOpens`, violated | escalation | |
| `leaves_complete` | `NothingLeavesComplete`, violated | expiry, new passkey | |

What the passing runs show, in a sentence each:

- `approval`: however sign-ins, escalations, deadlines and resets interleave, a
  token is spent once per arming; a decision is never made on a session alone; a
  reset that lost the race with a handler is refused; no handler left over from
  before moves a closed request anywhere but to `expired`.
- `credential`: late, repeated and reordered callbacks, half-failed creations and
  overlapping attempts never mix the ids of two attempts, never produce a state
  before some attempt was reported to have got that far, never exceed a retry limit.
  That the report is applied to the attempt it belongs to is not shown, and not true:
  see section 8.
- `tap`: repeated callbacks, passes created by calls that failed, updates that throw,
  crashes and resets leave one operation at a time, and the pass shown is the one that works;
  a key registered before the proof never completes the request. `KeepsLifecycle`
  is the refinement: every step of the portal is a step of `RequestLifecycle` or
  leaves its state unchanged. After a restart, whatever the handlers of the earlier
  round still do, only expiry and another reset move the request.
- `tap_liveness`: a proved request gets its pass, has its failure recorded or moves
  on, unless its operation lost its handler: to a crash or an error that nothing
  catches, to a claim whose update threw, or to a record of the failure that threw.
  Failing Graph calls, records of the pass that throw, repeated callbacks, expiry
  and resets add no other way to hang.
- `optimistic_update`: interleaved calls lose no update, apply none twice unless the
  table client repeats a write (`Repeated`), and test their guard on the state they
  change; a call that gives up was overtaken as often as it tried, by writes of others
  or, if it is repeated, by its own.
- `employee_lock`: two requests that find the same lapsed lock, or a lock that is
  being released, never both become live, also if processes die between the calls,
  unless the lock was disturbed; a closed request gives the lock back even if locks
  are removed, taken over or left behind by others.
- `recovery`: whatever fails half-way, repeats or is overtaken by a restart, a
  replacement follows the revocation of everything the employee had, and a new
  round needs a new approval. `OperationIsAlive` excuses an operation whose handler
  crashed, whose claim was stored although its update threw, or whose failure could
  not be recorded; the row then says `creating` until it expires or is reset, and that
  does happen. `ReplacementIsGood` and `NewestTapStored` excuse a
  round overtaken by a restart, and need to: without the excuse TLC finds the
  handler of the old round, held up before its deletions, deleting the key of the
  new round, or its pass displacing the newer one in the row.
- `dashboard`: no order of loads and late saves mixes two standings or gives
  authority without its sign-in; what a callback tells its user agrees with the
  session that is stored; the limit is exact. `DestroyedStaysDestroyed` excuses
  sessions that a request with a change was still holding when they were destroyed,
  and `SignInAnswerIsTrue` a storage error after the authority was put into the
  session (the page says rejected, the session has it); both do happen.

`PROJECT.json` names for each property a plausible bug (a dropped guard, a wrong
state, a missing reset) with which the same run fails.

### Bounds

- `Worker` has 2 members: the races of the code are between two calls. A third
  worker multiplies the states without a new kind of pair; the theorems of
  section 5 hold for any number.
- `MaxAttempts` bounds the exchanges of each kind ever started; in `credential`
  it is 3 with retry limits of 2, so that an attempt beyond the limit exists to be
  refused. Without resets nothing else bounds attempts.
- `MaxTaps` bounds the passes ever created. `ClaimTapStep` waits when no pass is
  left, so the bound never leaves an operation without an outcome. 2 is what a
  failed operation and its successor need.
- `MaxVerificationFailures = 2` and `MaxInviteAttempts = 2`: the limit and the
  step before it.
- `Key` has 2 members in `tap`: one registered before the proof, one after.
- `approval` needs no exchange and no pass: `MaxAttempts = MaxTaps = 0`.
- `redeemedSinceArmed` counts to 2, which means "more than once".
- `optimistic_update` has two claims, two updates without a guard, one of each kind
  possibly repeated, and 3 attempts instead of five: with four calls a call can
  lose every race. The theorem holds for any number.
- `employee_lock` has three requests, of which two can race for the lock of the
  first, and two closing handlers. A request is created once; time enters only as
  the set of requests past their deadline.
- `recovery` has two passes and two presentations, for a round and the one after a
  restart; two keys, one revoked and one registered later; and a single rejected
  credential that locks, since the step before the limit is in `credential`.
- `dashboard` has two session ids and one sign-in: one session destroyed and one
  that replaces it. It comes to an end because ids run out (a session can then not
  be saved first). `Limit` 1 with two handlers makes one call too many, with
  `RateAttempts` 2 a call can lose every race, `MaxWasted` bounds lost answers, and
  `MaxCount` stops calls from beginning beyond the limit, not those under way.

Workers, keys, session ids, requests and closers are interchangeable, so TLC may
treat them as symmetric (the `MC` modules); the liveness runs do not use symmetry.
A worker is also the name of an operation, which no order depends on.

### Fairness

`FairSpec` is `Spec` with weak fairness of `Continue(w)` for each worker: a
handler that is under way makes its next call, or crashes. The code justifies it as far
as the process lives and calls end: every table, Graph and Verified ID call goes through a
client that answers or throws, and both are steps of the model. Nothing is assumed of
what comes from outside: browsers, wallets, callbacks, deadlines, administrators.

Fairness does not bring back an operation that has lost its handler. If the process dies
between the claim (`tapStatus = "creating"`) and the record, or if the claim or the record
of the failure throws, nothing in the code resets `creating`, and the request stays
in `verified` until it expires or is reset. All of this is in the run `tap_liveness`;
`history.abandoned` remembers it, from the step where it happens until the next
claim, and `TapAttemptResolves` excuses it. That is a limit of the design; no document
claims otherwise. An operation that ends in any other way, a handler that
silently returns without a record among them, would violate the property.

## 4. Findings

1. **No pass without an injected group check** (`proof_yields_tap`).
   `graph-service.js:312` uses `isUserInGroup`, which the file does not define, as
   the default; the call made by the presentation callback passes no dependencies
   and throws. With `GroupCheckDefined = TRUE` the property holds. A recovery ends
   the same way, after its claim and before it has revoked anything.
2. **The skip manager's link does not open** (`skip_link`). Escalation mails a
   second token; `activateManagerToken` looks it up by either hash and then
   compares it with the direct manager's hash alone.
3. **A completed request can become expired** (`leaves_complete`). `loadRequest`
   tests a row it read before, and its update allows every state.
   `TerminalStaysTerminal` is stated so that this is the only exception.
4. **Two live requests after a lost answer** (`one_live_request`). When the insert
   of a request fails, `createRequest` removes the lock unconditionally; if the
   insert was stored, its request is live without a lock. Two more ways are in the
   model, under `slow-create` and `script`: a creation that outlasts its own request
   removes its successor's lock, and the stuck-request script takes for an orphan
   the lock of a request that was inserted after it listed the requests. Exactly these
   set `disturbed`, and without them `OneLiveRequestUndisturbed` is proved.

## 5. What is proved

TLAPS checks the `_proofs` modules; of the portal, recovery and the dashboard everything
holds for any sets of workers, keys, session ids and sign-ins, any bounds and limits, any
set of events, and both values of `GroupCheckDefined`. The assumptions are those in the modules:
bounds are naturals, there are two approvers, `None` is none of the others. One theorem
has a hypothesis of its own (`RetriesAreLimited`). Every safety property that a run
checks and that holds is proved.

### The portal

- `TypeCorrect`: `Spec => []TypeOK`. `TypeOK` is not inductive: a handler about
  to apply a callback must hold a status that its operation knows, and one about
  to redeem must hold an approver. `TypeInv` adds that (`Ready`). The lemmas of
  `OnboardingService_proofs` say that each update takes a row to a row;
  `StepType` and `WriteType` lift them to the two kinds of step; there is one
  lemma for each group of handlers, with one case for each action.
- `OneOperationAtATime`, `StoredPassIsNewest`, `DisplayedPassIsGone`: the
  invariants `OneTapOperation`, `NewestTapStored` and `NotRetainedAfterDisplay`.
  The inductive invariant is `OperationInv`. Its core is `TapInv`: a handler
  between claim and record owns the operation that the row names, or the request
  is dead. Dead means closed, or put back to `requested` by an administrator when
  no handler is left that will notify: a restart sends no notification, so such
  a request never becomes verified again and no second operation can meet the
  first. `NotifyInv` is what makes that true: only the handler that created the
  request notifies, and while it does the request is still `requested` or closed.
  Without the exception for a notification under way the invariant is false.
  `CreatedInv` and `ShownInv` say that a pass not yet recorded is the last one
  created and was never shown. Most updates are *quiet* (`Quiet`): `Frame` disposes
  of them at once, and the notification, the claim, the creation, the record, the
  failure and the display each have a lemma.
- `ClosedKeepsItsEnd`, `RestartIsNotUndone`: the action properties
  `TerminalStaysTerminal` and `RestartAwaitsAdministrator`. Both rest on one lemma,
  `StateMoves`, which says of every action from which states it moves the row
  to which; the two properties are then readings of that relation.
- `TokenIsSpentOnce`, `DecisionHasRedemption`, `ResetKnowsTheState`: the approval.
  `ApprovalInv` ties the counter of the property to the row: an active token has
  not been spent since it was armed, a redeemed one has, a handler about to decide has
  signed in, and an etag that is still current belongs to the state that was shown.
- `ShownExchangeIsWhole`, `CredentialWasIssued`, `PresentationWasValid`: the credential.
  `EvidenceInv` says of the row that an exchange on screen was created at the service
  under both its names, and that the states past an exchange have its report; and of
  a handler that what it carries from the service (`Engaged`) has happened there.
  Nothing at the service is ever forgotten (`EvidenceGrows`), so what a handler knew
  before its call is still true after it.
- `RetriesAreLimited`: `RetryLimitsHold`, for any limits. `RetryInv` is stronger than
  the property: the attempts ever started are exactly those numbered up to the count
  in the row, and the count is within the limit. A restart sets the counts
  back on purpose (`adminResetRequest`), so the theorem assumes that no administrator
  acts, as does the run.
- `CompletedByNewPasskey`: `PasskeyIsNew`. `PasskeyInv` rests on `OperationInv` and
  says that the list an operation carries, and then the baseline in the row, contains
  what was registered at the proof; keys are only ever added, and a recorded key
  belongs to a request that is registered or dead.
- `PortalKeepsLifecycle`: `Spec => KeepsLifecycle`, the refinement. Given `TypeInv`,
  `OperationInv` and `PasskeyInv`, every action of the portal is one of the lifecycle's
  steps under the mapping or changes nothing that the mapping reads. Approval,
  exchanges and resets need one lemma each; the claim, the creation, the record, the
  failure and the display have one each, because there the lifecycle says which
  operation is at work and which pass it made, and only the invariants tell that the
  handler taking the step is that operation's.

### Recovery

`TypeInv`, as in the portal, comes with one lemma for each group of actions that says
what the group may change (`*Changes`). Whoever needs to know more of a revocation,
a pass or a confirmation uses `RoundTurns`, which sums the actions up in thirteen
turns (a proof, a claim, a listing, a deletion, a creation, a record, a failure, a
second listing, a confirmation, a reset, a registration, and two kinds of rest), so
that each invariant below is proved over turns and not over some thirty actions.

- `TypeCorrect`, `ApprovalIsCurrent`, `TerminalIsFinal`, `FailureIsFinal`: `TypeOK`,
  `ApprovedSinceReset`, `TerminalStaysTerminal`, `FailureNeedsNewRound`. The first is
  from `TypeInv`; the others need only which states an action leads from.
- `PresentationSucceeded`, `ShownPresentationIsWhole`: `VerifiedMeansPresented` and
  `ActiveExchangeIsWhole`, from an `EvidenceInv` like the portal's.
- `OperationHasHandler`: `OperationIsAlive` is inductive given the types. The theorem
  does not say that every error is recorded: the record of a failure may itself throw,
  and a claim may be stored and throw. It says that these two and a crash are all, and
  that a later claim starts afresh: whatever deletions and calls fail, however many
  handlers run and whatever resets and expiry come between, no handler leaves an
  operation of its own that the row names without a record. The cases with
  content are the claim and the two records: a handler whose record of the pass is
  refused or throws goes on to record the failure, and that is refused only for an
  operation that the row does not name.
- `StoredTapWorks`: `NewestTapStored`. `OwnerInv` says that until a reset overtakes it
  the handler of an operation is alone, the row names it unless the request has ended,
  and the pass it holds is the last.
- `AllRevokedFirst`: `RevokedBeforeReplacement`. `RevokedInv` says that the handler the
  row names knows everything that is still to be deleted (`DeletionKnown`). It needs no
  excuse for overtaken rounds: a handler that a reset has overtaken may still
  delete, which helps, but its record is refused by the operation's id.
- `ReplacementIsNew`: `ReplacementIsGood`. `ReplacementInv` says that what was
  registered at the proof is in the operation's list and then in the baseline
  (`BaselineKept`), and that a method listed for confirmation is registered or will be
  ruled out by the baseline (`ListingKept`). The second is needed because the list may
  be a round old: it can contain a key that the operation deletes after it was
  listed, and only the baseline keeps it from being confirmed.

### The repository

- `LoopIsAtomic`: `Spec => ImplementsAtomicUpdate`, for any number of calls and any
  limit. The invariant says that a call about to write has a guard that was true of
  the row it read, and that if the version is still the one it read, so is the row;
  a write is then `Apply`, a read whose guard fails is `Refuse`, the last lost race
  is `Abandon`, everything else leaves the abstract state unchanged.
- `AbandonedWereOvertaken`: races lost never exceed the version that was read. A
  repeated write raises the version too, so that for `Repeated` calls their own writes
  are among those that overtook them.
- `OneRequestPerEmployee`: `OneLiveRequestUndisturbed` for any number of requests and
  closing handlers and any faults. The inductive invariant `LockInv` has a part
  that holds whatever happens (`TableInv`: who is at which call, and what a release
  or a takeover relies on), and one that holds until the lock is disturbed
  (`CoverInv`): the lock is held for a request from the moment it is taken until the
  row is terminal or the deadline has passed.
- `ClosedRequestsFreeEmployees`: `ClosedRequestFreesEmployee`, from `TableInv`.
- `UpdateTypeCorrect`, `LockTypeCorrect`: the types, whatever goes wrong.

### Limits and sessions

- `LimitIsKept`, `LimitIsUsed`: `LimiterInv` says that the stored count is the sum of
  what was admitted, refused and wasted, that admissions never exceed the limit,
  and that nothing is refused before it was counted. Lost increments would break the
  first part, which is why it is needed for the second.
- `SessionsHaveOneStanding` (`StandingInv`), `AuthorityIsFromSignIn`
  (`AuthorityInv`), `DestroyedSessionsStayGone` (`GoneInv`): each extends the
  property from the table to what handlers hold of a session, because that is what
  they save later. `CallbackInv` says what a sign-in's callback holds between its
  steps: a session of its own that no browser sent, and the purpose it looked up.
- `AnswersAreTrue`: `SignInAnswerIsTrue`. `AnswerInv` follows a callback's authority
  from the profile to the answer: it is there from the authentication on, the answer
  `complete` is given only after a save, and a rejection after it only because storage
  failed. That the saved session still has the authority when the page says so holds
  because nobody knows its id yet (`Secret`): no other handler holds it and no browser
  has it before the response, so no request can have destroyed or overwritten it.
- `TypeCorrect`: the types, whatever goes wrong.

## 6. What is only model-checked

- Liveness under fairness: `TapAttemptResolves`. The proof system does not handle
  fairness.
- The four properties of the findings, which do not hold. Two parts of the theorems
  say what remains of them: `OneLiveRequestUndisturbed` and `TerminalStaysTerminal`.
- `RetryLimitsHold` in runs with an administrator's restart is not claimed at all.

The inductive invariants were checked by TLC on the configurations of the runs before
they were proved.

## 7. What is not modelled

- Pages and routes that only read, the lists on the dashboard among them, except for
  the expiry that loading a request causes.
- The eligibility test of an intake: a choice of outcome, like every directory
  lookup. The rate limits of intake and confirmation are the one of `RateLimit`; they
  are not composed with the request, since they only refuse a call.
- Recovery's own lock, update loop and counters: they make the same calls in the same
  order as onboarding's, so `EmployeeLock`, `OptimisticUpdate` and `RateLimit` stand
  for both.
- Cryptography, validation of tokens and credentials, HTML, browser scripts, logging,
  audit rows. Of `app.js` and `config.js` only the session settings are used; the
  limits are constants of the model.
- Deployment scripts, infrastructure templates, workflows and `.squad` templates: no
  part of the running portal.

## 8. What is left

Proofs: every safety property of a passing run has one. What remains is to say more:
that the recovery portal implements a lifecycle of its own, stated like
`RequestLifecycle`.

In the model: a callback that is looked up for one attempt and applied to the row of
its successor. The actions allow it; what is checked is the weaker promise that
some attempt was reported as successful.
