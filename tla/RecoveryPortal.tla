----------------------------- MODULE RecoveryPortal -----------------------------
(***************************************************************************)
(* One recovery request from its creation to its end: every handler that    *)
(* touches it, interleaved call by call, with the mail, the identity        *)
(* provider, Microsoft Graph, the Verified ID service, the clock and the    *)
(* administrator around it.                                                 *)
(***************************************************************************)
EXTENDS RecoveryApproval, RecoveryHandlers

\* createRecoveryRequest has stored the row; its handler goes on to notify.
Init ==
    /\ request = RequestedRow
    /\ \E w \in Worker :
          handler = [v \in Worker |-> IF v = w THEN Going("notify") ELSE Idle]
    /\ due = {}
    /\ attempts = [n \in Attempt |-> {}]
    /\ \E methods \in SUBSET Key :
          graph = [taps |-> 0, methods |-> methods, used |-> methods]
    /\ browser = [bound |-> FALSE, mail |-> FALSE, signedIn |-> FALSE]
    /\ history = [approved |-> FALSE, methodsAtProof |-> {}, abandoned |-> FALSE,
                  overtaken |-> FALSE]

\* The next call of a handler that is under way.
Continue(w) ==
    \/ ExpireLapsed(w)
    \/ Notify(w) \/ MarkNotified(w) \/ MarkFailed(w) \/ BindEmployee(w)
    \/ Redeem(w) \/ SaveManagerSession(w)
    \/ \E decision \in {"approve", "reject"} : RecordDecision(w, decision)
    \/ Escalate(w)
    \/ Begin(w) \/ Create(w) \/ Attach(w) \/ Fail(w)
    \/ ApplyReport(w) \/ ApplySuccess(w)
    \/ Claim(w) \/ CheckAndList(w) \/ Revoke(w) \/ CreateTap(w)
    \/ RecordTapStep(w) \/ FailTapStep(w)
    \/ DisplayTap(w) \/ ListMethods(w) \/ Confirm(w) \/ CompleteStep(w)

\* A request from the browsers or a callback reaches an idle worker.
Arrive(w) ==
    \/ LoadLapsed(w)
    \/ SignIn(w) \/ SignInCallback(w) \/ OpenDecision(w)
    \/ OpenEscalation(w)
    \/ \E action \in AdminActions : AdminReset(w, action)
    \/ OpenPresentation(w)
    \/ \E n \in Attempt, event \in Event : CallbackArrives(w, n, event)
    \/ OpenDisplay(w) \/ OpenConfirm(w) \/ OpenComplete(w)

Outside ==
    \/ \E n \in Attempt, event \in Event : Wallet(n, event)
    \/ \E d \in Deadline : DeadlinePasses(d)
    \/ \E key \in Key : RegisterPasskey(key)

Next ==
    \/ \E w \in Worker : Continue(w) \/ Arrive(w) \/ Crash(w)
    \/ Outside

Spec == Init /\ [][Next]_vars

-----------------------------------------------------------------------------
(* Properties *)

\* The type of every variable.
TypeOK ==
    /\ request \in Row
    /\ handler \in [Worker -> Local]
    /\ due \subseteq Deadline
    /\ attempts \in [Attempt -> SUBSET Event]
    /\ graph \in [taps : 0 .. MaxTaps, methods : SUBSET Key, used : SUBSET Key]
    /\ browser \in [bound : BOOLEAN, mail : BOOLEAN, signedIn : BOOLEAN]
    /\ history \in [approved : BOOLEAN, methodsAtProof : SUBSET Key,
                    abandoned : BOOLEAN, overtaken : BOOLEAN]

\* README.md: "Recovery revokes all existing FIDO2 methods before replacement passkey
\* setup."  Once a pass is stored, no method is left that the employee had when the
\* identity was proved, although deletions fail half-way, operations are abandoned
\* and an administrator starts a second round while the first one still runs.
RevokedBeforeReplacement ==
    request.state \in {"tap-issued", "passkey-registered", "complete"}
    => graph.methods \cap history.methodsAtProof = {}

\* The passkey that ends a recovery is registered, and it is not one that the
\* employee had when the identity was proved - unless a restart overtook a handler
\* that goes on to delete what it listed, or to confirm it, in the next round.
ReplacementIsGood ==
    request.state \in {"passkey-registered", "complete"} /\ ~history.overtaken
    => request.passkeyMethodId \in graph.methods \ history.methodsAtProof

\* README.md: "Recovery requires manager or skip-level approval ... before passkeys
\* are revoked": late reports and old handlers never bring a request past the
\* approval that an administrator's restart has taken away.
ApprovedSinceReset == request.state \in Approved => history.approved

\* README.md: "... plus re-presentation of the existing Verified ID": errors, rejected
\* credentials and repeated callbacks never add up to a proof of identity.
VerifiedMeansPresented ==
    request.state \in {"verified", "passkeys-revoked", "tap-issued",
                       "passkey-registered", "complete"}
    => \E n \in Attempt : "success" \in attempts[n]

\* The pass stored for display is the last one created, the one that works.
NewestTapStored ==
    request.state = "tap-issued" /\ request.tapProtected # 0 /\ ~history.overtaken
    => request.tapProtected = graph.taps

\* While the employee is shown a code, the stored callback state and request id
\* belong to one attempt that exists at the Verified ID service.
ActiveExchangeIsWhole ==
    request.presentationStatus = "active" =>
        /\ request.presentationState = request.presentationRequestId
        /\ \E n \in Attempt :
              n = request.presentationState /\ "created" \in attempts[n]

\* While the row says that an operation is under way, a handler is working on it, or
\* its operation was lost for one of three reasons: its handler crashed, the claim's
\* update threw after it was stored, or the failure itself could not be recorded,
\* which the code swallows (recovery-v2-service.js:877).  Repeated callbacks,
\* half-failed revocations and restarts do not add a fourth.
OperationIsAlive ==
    request.state = "passkeys-revoked" /\ request.tapStatus = "creating"
    => history.abandoned
       \/ \E w \in Worker : request.tapOperationId = w /\ Revoking(w)

\* After a failed operation, with passkeys gone, the request is never simply tried
\* again: only expiry or an administrator's reset, and with it a new approval and a
\* new presentation, leads on.
FailureNeedsNewRound ==
    [][request.state = "passkeys-revoked" /\ request.tapStatus = "error"
       => \/ request' = request
          \/ request'.state \in {"expired", "manager-notified", "admin-cancelled"}]_vars

\* Whatever handlers are under way, a terminal request never gets another state
\* than expired.
TerminalStaysTerminal ==
    [][Terminal(request) => request'.state \in {request.state, "expired"}]_vars
=============================================================================
