------------------------- MODULE ProvisioningWorker -------------------------
(***************************************************************************)
(* How one paid infrastructure order gets its server: the administrator's  *)
(* approval and dispatch, the workers that claim provisioning jobs under a *)
(* lease and a claim token, the cloud provider they call, and the          *)
(* administrator's recovery commands (src/lib/infrastructure/).            *)
(*                                                                         *)
(* A job is identified by its create attempt; job 0 is the poll_instance   *)
(* job of reconcileInfrastructureOrder, of which there is at most one: it  *)
(* records the cloud instance that bars every later reconciliation.  A     *)
(* claim token is the number of the claim that drew it; 0 is null.         *)
(*                                                                         *)
(* The provider keeps servers and knows nothing of fences: a create call   *)
(* carries no idempotency key.  If Prompt, a call is executed, and its     *)
(* server listed, before the lease it was checked under can end.           *)
(***************************************************************************)
EXTENDS Naturals

CONSTANTS
    Workers,       \* worker processes
    MaxAttempts,   \* bound: create attempts an administrator may start
    MaxClaims,     \* bound: claims of one job; the last one is not interrupted
    Prompt         \* does a create call end before the lease it started under?

ASSUME ProvisioningAssumption ==
    /\ MaxAttempts \in Nat \ {0}
    /\ MaxClaims \in Nat \ {0}
    /\ Prompt \in BOOLEAN

VARIABLES
    status,    \* InfrastructureOrder.status
    flow,      \* productFlowState of the order
    instance,  \* is there a CloudInstance (usage billing starts with it)?
    absence,   \* attempt whose server an administrator confirmed absent, or 0
    job,       \* the ProvisioningJob rows
    worker,    \* what each worker process holds in memory
    servers,   \* servers at the provider, each named by the call that made it
    late       \* create calls that will still reach the provider

vars == <<status, flow, instance, absence, job, worker, servers, late>>

Attempts == 1..MaxAttempts
Poll == 0
Jobs == {Poll} \cup Attempts
Calls == Attempts \X (1..MaxClaims)

Active == {"QUEUED", "RUNNING"}
Ended == {"SUCCEEDED", "FAILED", "NEEDS_RECONCILIATION", "BLOCKED_PROVIDER_BALANCE"}

\* The error codes processProvisioningJob tells apart; provider_unavailable
\* stands for every other failure of a call.
Errors == {"provider_insufficient_balance", "billing_contract_blocked",
           "provider_ambiguous", "provider_unavailable"}

NoJob == [status |-> "NONE", claims |-> 0, token |-> 0, leased |-> FALSE,
          sent |-> FALSE, found |-> FALSE, health |-> "NONE"]
Queued(known) == [NoJob EXCEPT !.status = "QUEUED", !.found = known]
Idle == [pc |-> "idle", job |-> 0, token |-> 0]

Init ==
    /\ status = "WAITING_ADMIN_FUNDING"
    /\ flow = "PAID"
    /\ instance = FALSE
    /\ absence = 0
    /\ job = [j \in Jobs |-> NoJob]
    /\ worker = [w \in Workers |-> Idle]
    /\ servers = {}
    /\ late = {}

Exists(j) == job[j].status # "NONE"
ActiveJob == \E j \in Jobs : job[j].status \in Active

\* Leave the lease: the update every job transition out of RUNNING makes.
Unclaimed(j, s) ==
    [job EXCEPT ![j] = [@ EXCEPT !.status = s, !.token = 0, !.leased = FALSE]]

-----------------------------------------------------------------------------
\* The administrator's first approval, and the dispatch of the first job.

AwaitsApproval ==
    /\ status \in {"WAITING_ADMIN_FUNDING", "MANUAL_REVIEW", "BLOCKED_PROVIDER_BALANCE"}
    /\ flow = "PAID"
    /\ ~instance
    /\ \A j \in Jobs : ~Exists(j)

\* approveProvision: the review allows the order, or blocks it.
Approve ==
    /\ AwaitsApproval
    /\ \/ status' = "FUNDING_CONFIRMED" /\ flow' = "PROVISION_APPROVED"
       \/ status' = "MANUAL_REVIEW" /\ flow' = flow
    /\ UNCHANGED <<instance, absence, job, worker, servers, late>>

Hold ==
    /\ AwaitsApproval
    /\ status' = "MANUAL_REVIEW"
    /\ UNCHANGED <<flow, instance, absence, job, worker, servers, late>>

\* dispatchApprovedProvision: queue attempt 1, or stop at the billing gate.
Dispatch ==
    /\ status = "FUNDING_CONFIRMED"
    /\ flow = "PROVISION_APPROVED"
    /\ \A a \in Attempts : ~Exists(a)
    /\ \/ /\ status' = "MANUAL_REVIEW"
          /\ flow' = "PROVISIONING_MANUAL_REVIEW"
          /\ job' = job
       \/ /\ status' = "QUEUED"
          /\ flow' = "PROVISIONING_SUBMITTED"
          /\ job' = [job EXCEPT ![1] = Queued(FALSE)]
    /\ UNCHANGED <<instance, absence, worker, servers, late>>

-----------------------------------------------------------------------------
\* Leases and claims.

\* assertProvisioningJobFenceTx: the job is still this worker's.
Owns(w, j) ==
    /\ job[j].status = "RUNNING"
    /\ job[j].token = worker[w].token
    /\ job[j].leased

Fenced(w) == Owns(w, worker[w].job)

\* leaseExpiresAt passes; it is never renewed.
ExpireLease(j) ==
    /\ job[j].status = "RUNNING"
    /\ job[j].leased
    /\ job[j].claims < MaxClaims
    /\ Prompt => ~\E w \in Workers :
                    worker[w].pc = "creating" /\ worker[w].job = j /\ Owns(w, j)
    /\ job' = [job EXCEPT ![j] = [@ EXCEPT !.leased = FALSE]]
    /\ UNCHANGED <<status, flow, instance, absence, worker, servers, late>>

RecoverExpired(j) ==
    /\ job[j].status = "RUNNING"
    /\ ~job[j].leased
    /\ job' = Unclaimed(j, "QUEUED")
    /\ UNCHANGED <<status, flow, instance, absence, worker, servers, late>>

\* Mutant: a recovered job of an order already in PROVISIONING is not picked up.
MutantClaimable(j) == job[j].status = "QUEUED" /\ flow = "PROVISIONING_SUBMITTED"

\* The filter of claimNextProvisioningJob.
Claimable(j) ==
    /\ job[j].status = "QUEUED"
    /\ \/ flow \in {"PROVISIONING_SUBMITTED", "PROVISIONING"}
       \/ /\ job[j].health # "NONE"
          /\ flow \in {"HEALTH_CHECK_FAILED", "PROVISIONING_MANUAL_REVIEW",
                       "WAITING_ADMIN_DELIVERY_APPROVAL"}

\* Mutant: the claim moves the flow and forgets the order.
MutantClaim(w, j) ==
    /\ worker[w].pc = "idle"
    /\ Claimable(j)
    /\ job' = [job EXCEPT ![j] = [@ EXCEPT !.status = "RUNNING", !.claims = job[j].claims + 1,
                                           !.token = job[j].claims + 1, !.leased = TRUE]]
    /\ worker' = [worker EXCEPT ![w] = [pc |-> "claimed", job |-> j,
                                        token |-> job[j].claims + 1]]
    /\ flow' = IF flow = "PROVISIONING_SUBMITTED" THEN "PROVISIONING" ELSE flow
    /\ UNCHANGED <<status, instance, absence, servers, late>>

Claim(w, j) ==
    /\ worker[w].pc = "idle"
    /\ Claimable(j)
    /\ job' = [job EXCEPT ![j] = [@ EXCEPT !.status = "RUNNING", !.claims = job[j].claims + 1,
                                           !.token = job[j].claims + 1, !.leased = TRUE]]
    /\ worker' = [worker EXCEPT ![w] = [pc |-> "claimed", job |-> j,
                                        token |-> job[j].claims + 1]]
    /\ status' = IF status = "QUEUED" THEN "PROVISIONING" ELSE status
    /\ flow' = IF flow = "PROVISIONING_SUBMITTED" THEN "PROVISIONING" ELSE flow
    /\ UNCHANGED <<instance, absence, servers, late>>

GoTo(w, pc) == worker' = [worker EXCEPT ![w] = [@ EXCEPT !.pc = pc]]
Leave(w) == worker' = [worker EXCEPT ![w] = Idle]

\* A worker whose fence no longer holds gives the job up at its next check; a
\* create call it already started is not called back.
Abandon(w) ==
    /\ worker[w].pc \notin {"idle", "creating"}
    /\ ~Fenced(w)
    /\ Leave(w)
    /\ UNCHANGED <<status, flow, instance, absence, job, servers, late>>

-----------------------------------------------------------------------------
\* One run of processProvisioningJob, from claim to the end of the job.

\* Mutant: a job whose call was sent calls again.
MutantCallAgain(j) ==
    IF job[j].found \/ instance THEN "resuming"
    ELSE IF ~job[j].sent THEN "marking" ELSE "creating"

\* Mutant: a call that was sent is taken for a server that exists.
MutantTrustTheCall(j) ==
    IF job[j].found \/ instance \/ job[j].sent THEN "resuming" ELSE "marking"

\* Where a run goes once its gates allow it: look a known server up by id, look
\* for the server of an earlier call by name, or make the call.
Route(j) ==
    IF job[j].found \/ instance THEN "resuming"
    ELSE IF ~job[j].sent THEN "marking"
    ELSE IF absence = j THEN "creating" ELSE "looking"

Start(w) ==
    /\ worker[w].pc = "claimed"
    /\ Fenced(w)
    /\ LET j == worker[w].job IN
       IF job[j].health # "NONE" THEN GoTo(w, "finalizing")
       ELSE GoTo(w, "billing_contract_blocked") \/ GoTo(w, Route(j))
    /\ UNCHANGED <<status, flow, instance, absence, job, servers, late>>

\* createSentAt is committed before the call that it announces.
MarkCreateSent(w) ==
    /\ worker[w].pc = "marking"
    /\ Fenced(w)
    /\ ~job[worker[w].job].sent
    /\ job' = [job EXCEPT ![worker[w].job] = [@ EXCEPT !.sent = TRUE]]
    /\ GoTo(w, "marked")
    /\ UNCHANGED <<status, flow, instance, absence, servers, late>>

\* The second billing gate and the fence check before the call.
CheckBeforeCreate(w) ==
    /\ worker[w].pc = "marked"
    /\ Fenced(w)
    /\ GoTo(w, "creating") \/ GoTo(w, "billing_contract_blocked")
    /\ UNCHANGED <<status, flow, instance, absence, job, servers, late>>

\* What becomes of a create call at the provider.
Call(w) == <<worker[w].job, worker[w].token>>
Executed(w) == servers' = servers \cup {Call(w)} /\ late' = late
Delayed(w) == ~Prompt /\ late' = late \cup {Call(w)} /\ servers' = servers
NotExecuted(w) == UNCHANGED <<servers, late>>

\* createServer, not guarded by the fence: its answer is one thing, what
\* happened at the provider another.
CreateServer(w) ==
    /\ worker[w].pc = "creating"
    /\ \/ /\ Executed(w)
          /\ \E pc \in {"persisting", "reconciling", "provider_ambiguous",
                        "provider_unavailable"} : GoTo(w, pc)
       \/ /\ Delayed(w)
          /\ \E pc \in {"reconciling", "provider_unavailable"} : GoTo(w, pc)
       \/ /\ NotExecuted(w)
          /\ \E pc \in {"reconciling", "provider_unavailable",
                        "provider_insufficient_balance"} : GoTo(w, pc)
    /\ UNCHANGED <<status, flow, instance, absence, job>>

ArriveLate(c) ==
    /\ c \in late
    /\ servers' = servers \cup {c}
    /\ late' = late \ {c}
    /\ UNCHANGED <<status, flow, instance, absence, job, worker>>

\* findExistingResource by name: one match, none, several, or no answer.
TheServer == \E s \in servers : servers = {s}

Look(w) ==
    /\ worker[w].pc = "looking"
    /\ Fenced(w)
    /\ \/ GoTo(w, "provider_unavailable")
       \/ TheServer /\ GoTo(w, "polling")
       \/ servers = {} /\ GoTo(w, "reconciling")
       \/ servers # {} /\ ~TheServer /\ GoTo(w, "provider_ambiguous")
    /\ UNCHANGED <<status, flow, instance, absence, job, servers, late>>

\* findExistingResource by the id on record.
Resume(w) ==
    /\ worker[w].pc = "resuming"
    /\ Fenced(w)
    /\ GoTo(w, "polling") \/ GoTo(w, "provider_unavailable")
    /\ UNCHANGED <<status, flow, instance, absence, job, servers, late>>

PersistTask(w) ==
    /\ worker[w].pc = "persisting"
    /\ Fenced(w)
    /\ job' = [job EXCEPT ![worker[w].job] = [@ EXCEPT !.found = TRUE]]
    /\ GoTo(w, "polling")
    /\ UNCHANGED <<status, flow, instance, absence, servers, late>>

\* getTaskStatus until the server is up, and a last look at it.
PollFails(w) ==
    /\ worker[w].pc = "polling"
    /\ Fenced(w)
    /\ GoTo(w, "provider_ambiguous") \/ GoTo(w, "provider_unavailable")
    /\ UNCHANGED <<status, flow, instance, absence, job, servers, late>>

\* The observed server becomes the cloud instance and usage billing starts.
RecordInstance(w) ==
    /\ worker[w].pc = "polling"
    /\ Fenced(w)
    /\ instance' = TRUE
    /\ job' = [job EXCEPT ![worker[w].job] = [@ EXCEPT !.found = TRUE]]
    /\ GoTo(w, "recorded")
    /\ UNCHANGED <<status, flow, absence, servers, late>>

\* runInfrastructureHealthCheck: enter HEALTH_CHECKING, probe, keep the result.
StartHealthCheck(w) ==
    /\ worker[w].pc = "recorded"
    /\ Fenced(w)
    /\ flow \in {"PROVISIONING", "HEALTH_CHECKING"}
    /\ flow' = "HEALTH_CHECKING"
    /\ GoTo(w, "probing")
    /\ UNCHANGED <<status, instance, absence, job, servers, late>>

KeepHealthResult(w) ==
    /\ worker[w].pc = "probing"
    /\ Fenced(w)
    /\ flow = "HEALTH_CHECKING"
    /\ \E healthy \in BOOLEAN :
         /\ flow' = IF healthy THEN "WAITING_ADMIN_DELIVERY_APPROVAL"
                               ELSE "HEALTH_CHECK_FAILED"
         /\ status' = IF healthy THEN "PROVISIONING" ELSE "MANUAL_REVIEW"
         /\ job' = [job EXCEPT ![worker[w].job] =
                      [@ EXCEPT !.health = IF healthy THEN "OK" ELSE "FAILED"]]
    /\ GoTo(w, "finalizing")
    /\ UNCHANGED <<instance, absence, servers, late>>

Finalize(w) ==
    /\ worker[w].pc = "finalizing"
    /\ Fenced(w)
    /\ job' = Unclaimed(worker[w].job, "SUCCEEDED")
    /\ Leave(w)
    /\ UNCHANGED <<status, flow, instance, absence, servers, late>>

\* Mutant: the order is set aside and the job keeps running.
MutantStopToReconcile(w) ==
    /\ worker[w].pc = "reconciling"
    /\ Fenced(w)
    /\ flow = "PROVISIONING"
    /\ status = "PROVISIONING"
    /\ status' = "NEEDS_RECONCILIATION"
    /\ flow' = "PROVISIONING_RECONCILING"
    /\ Leave(w)
    /\ UNCHANGED <<instance, absence, job, servers, late>>

\* The answer is not known: the job stops for an operator to reconcile.
StopToReconcile(w) ==
    /\ worker[w].pc = "reconciling"
    /\ Fenced(w)
    /\ flow = "PROVISIONING"
    /\ status = "PROVISIONING"
    /\ job' = Unclaimed(worker[w].job, "NEEDS_RECONCILIATION")
    /\ status' = "NEEDS_RECONCILIATION"
    /\ flow' = "PROVISIONING_RECONCILING"
    /\ Leave(w)
    /\ UNCHANGED <<instance, absence, servers, late>>

\* Mutant: the order status and the flow state of the transaction are swapped.
MutantOutcome(j, error) ==
    IF error = "billing_contract_blocked"
    THEN <<"FAILED", "PROVISIONING_MANUAL_REVIEW", "MANUAL_REVIEW">>
    ELSE <<"NEEDS_RECONCILIATION", "PROVISIONING_RECONCILING", "NEEDS_RECONCILIATION">>

\* The error transaction: <<job status, order status, flow>> by error code and
\* by whether a create call may have been sent.
Outcome(j, error) ==
    CASE error = "provider_insufficient_balance" ->
           <<"BLOCKED_PROVIDER_BALANCE", "WAITING_ADMIN_FUNDING",
             "PROVISIONING_MANUAL_REVIEW">>
      [] error = "billing_contract_blocked" ->
           <<"FAILED", "MANUAL_REVIEW", "PROVISIONING_MANUAL_REVIEW">>
      [] error = "provider_ambiguous" \/ (error = "provider_unavailable" /\ job[j].sent) ->
           <<"NEEDS_RECONCILIATION", "NEEDS_RECONCILIATION", "PROVISIONING_RECONCILING">>
      [] OTHER ->
           <<"FAILED", "FAILED", "PROVISIONING_RETRYABLE">>

Fail(w) ==
    /\ worker[w].pc \in Errors
    /\ Fenced(w)
    /\ flow = "PROVISIONING"
    /\ LET outcome == Outcome(worker[w].job, worker[w].pc) IN
         /\ job' = Unclaimed(worker[w].job, outcome[1])
         /\ status' = outcome[2]
         /\ flow' = outcome[3]
    /\ Leave(w)
    /\ UNCHANGED <<instance, absence, servers, late>>

\* The process dies, or an unexpected error leaves the job as it is; a create
\* call it was making may or may not have been executed.
Crash(w) ==
    /\ worker[w].pc # "idle"
    /\ job[worker[w].job].claims < MaxClaims
    /\ \/ NotExecuted(w)
       \/ worker[w].pc = "creating" /\ (Executed(w) \/ Delayed(w))
    /\ Leave(w)
    /\ UNCHANGED <<status, flow, instance, absence, job>>

-----------------------------------------------------------------------------
\* The administrator's recovery commands (retry.ts, resource-disposition.ts).

\* latestCreateAttempt, or 0.
LatestCreate ==
    IF \E a \in Attempts : Exists(a)
    THEN CHOOSE a \in Attempts : Exists(a) /\ \A b \in Attempts : Exists(b) => b <= a
    ELSE 0

\* Mutant: a call without a recorded answer left nothing behind.
MutantMayHaveResource(j) == job[j].found \/ job[j].status = "NEEDS_RECONCILIATION"

MayHaveResource(j) ==
    job[j].sent \/ job[j].found \/ job[j].status = "NEEDS_RECONCILIATION"

\* assessRefundResourceSafety; no server is terminated in this module.
ResourceSafe ==
    /\ ~instance
    /\ \/ \A j \in Jobs : ~MayHaveResource(j)
       \/ LatestCreate # 0 /\ absence = LatestCreate

\* assessInfrastructureRecoveryActions: what the order's page offers.
Stopped ==
    /\ flow = "PROVISIONING_MANUAL_REVIEW"
    /\ status \in {"FAILED", "MANUAL_REVIEW", "WAITING_ADMIN_FUNDING"}

OffersReconciliation ==   \* "reconcile" and "confirm-no-resource"
    /\ ~instance
    /\ status = "NEEDS_RECONCILIATION" \/ (Stopped /\ ~ResourceSafe)

OffersRetry ==
    /\ ResourceSafe
    /\ Stopped \/ (status = "FAILED" /\ flow = "PROVISIONING_RETRYABLE")

OffersRefund ==
    \/ OffersRetry
    \/ /\ ResourceSafe
       /\ status \in {"WAITING_ADMIN_FUNDING", "BLOCKED_PROVIDER_BALANCE"}
       /\ flow \in {"PAID", "PROVISIONING_RETRYABLE", "PROVISIONING_MANUAL_REVIEW"}

\* What reconcileInfrastructureOrder and confirmNoProviderResource accept.
AcceptsReconciliation ==
    /\ OffersReconciliation
    /\ \/ status = "NEEDS_RECONCILIATION" /\ flow = "PROVISIONING_RECONCILING"
       \/ status \in {"FAILED", "MANUAL_REVIEW"} /\ flow = "PROVISIONING_MANUAL_REVIEW"

\* The provider shows one server: adopt it and queue the poll job.
Reconcile ==
    /\ AcceptsReconciliation
    /\ TheServer
    /\ instance' = TRUE
    /\ job' = IF Exists(Poll) THEN job ELSE [job EXCEPT ![Poll] = Queued(TRUE)]
    /\ status' = "PROVISIONING"
    /\ flow' = "PROVISIONING"
    /\ UNCHANGED <<absence, worker, servers, late>>

\* The provider shows none: the administrator confirms the attempt left none.
ConfirmNoResource ==
    /\ AcceptsReconciliation
    /\ LatestCreate # 0
    /\ servers = {}
    /\ absence' = LatestCreate
    /\ status' = "FAILED"
    /\ flow' = "PROVISIONING_RETRYABLE"
    /\ UNCHANGED <<instance, job, worker, servers, late>>

\* Mutant: the state of the order alone permits another attempt.
MutantRetry ==
    /\ ~instance
    /\ status = "FAILED" \/ Stopped
    /\ \A a \in Attempts : job[a].status \notin Active
    /\ LatestCreate < MaxAttempts
    /\ job' = [job EXCEPT ![LatestCreate + 1] = Queued(FALSE)]
    /\ absence' = 0
    /\ status' = "QUEUED"
    /\ flow' = "PROVISIONING_SUBMITTED"
    /\ UNCHANGED <<instance, worker, servers, late>>

Retry ==
    /\ OffersRetry
    /\ \A a \in Attempts : job[a].status \notin Active
    /\ LatestCreate < MaxAttempts
    /\ job' = [job EXCEPT ![LatestCreate + 1] = Queued(FALSE)]
    /\ absence' = 0
    /\ status' = "QUEUED"
    /\ flow' = "PROVISIONING_SUBMITTED"
    /\ UNCHANGED <<instance, worker, servers, late>>

\* The order side of refundOrder.
Refund ==
    /\ OffersRefund
    /\ ~ActiveJob
    /\ status' = "REFUNDED"
    /\ flow' = "CANCELLED"
    /\ UNCHANGED <<instance, absence, job, worker, servers, late>>

-----------------------------------------------------------------------------
Process(w) ==
    \/ Start(w) \/ MarkCreateSent(w) \/ CheckBeforeCreate(w) \/ CreateServer(w)
    \/ Look(w) \/ Resume(w) \/ PersistTask(w) \/ PollFails(w) \/ RecordInstance(w)
    \/ StartHealthCheck(w) \/ KeepHealthResult(w) \/ Finalize(w)
    \/ StopToReconcile(w) \/ Fail(w) \/ Abandon(w)

Admin == Approve \/ Hold \/ Reconcile \/ ConfirmNoResource \/ Retry \/ Refund

Next ==
    \/ Admin
    \/ Dispatch
    \/ \E j \in Jobs : ExpireLease(j) \/ RecoverExpired(j)
    \/ \E w \in Workers, j \in Jobs : Claim(w, j)
    \/ \E w \in Workers : Process(w) \/ Crash(w)
    \/ \E c \in late : ArriveLate(c)

Spec == Init /\ [][Next]_vars

\* A worker process runs its cycle again and again (dispatch, recovery, claim)
\* and finishes the call it is in; time passes, so a lease that nobody ends
\* expires.  Nothing obliges an administrator, a crash or a late call.
Fairness ==
    /\ WF_vars(Dispatch)
    /\ \A j \in Jobs : WF_vars(ExpireLease(j)) /\ WF_vars(RecoverExpired(j))
    /\ WF_vars(\E w \in Workers, j \in Jobs : Claim(w, j))
    /\ \A w \in Workers : WF_vars(Process(w))

FairSpec == Spec /\ Fairness

-----------------------------------------------------------------------------
TypeOK ==
    /\ status \in {"WAITING_ADMIN_FUNDING", "FUNDING_CONFIRMED", "MANUAL_REVIEW",
                   "QUEUED", "PROVISIONING", "NEEDS_RECONCILIATION", "FAILED", "REFUNDED"}
    /\ flow \in {"PAID", "PROVISION_APPROVED", "PROVISIONING_SUBMITTED", "PROVISIONING",
                 "PROVISIONING_RECONCILING", "PROVISIONING_RETRYABLE",
                 "PROVISIONING_MANUAL_REVIEW", "HEALTH_CHECKING", "HEALTH_CHECK_FAILED",
                 "WAITING_ADMIN_DELIVERY_APPROVAL", "CANCELLED"}
    /\ instance \in BOOLEAN
    /\ absence \in 0..MaxAttempts
    /\ job \in [Jobs -> [status : {"NONE"} \cup Active \cup Ended,
                         claims : 0..MaxClaims, token : 0..MaxClaims,
                         leased : BOOLEAN, sent : BOOLEAN, found : BOOLEAN,
                         health : {"NONE", "OK", "FAILED"}]]
    /\ worker \in [Workers ->
                     [pc : Errors \cup {"idle", "claimed", "marking", "marked", "creating",
                           "looking", "resuming", "persisting", "polling", "recorded",
                           "probing", "finalizing", "reconciling"},
                      job : Jobs, token : 0..MaxClaims]]
    /\ servers \subseteq Calls
    /\ late \subseteq Calls

\* A create attempt makes at most one server, whatever leases expire, workers
\* crash or calls come late: createSentAt is committed under the fence before
\* the one call of the attempt (submitProvisioningOnce).
CreateOnce == \A c, d \in servers \cup late : c[1] = d[1] => c = d

\* An order gets at most one server, over all its attempts: an attempt is
\* retried only after the server of the one before was confirmed absent.
OneServer == \A c, d \in servers : c = d

\* A refunded order has no server that keeps costing, and no worker is about
\* to make one: refundOrder refunds only when assessRefundResourceSafety holds.
RefundedHasNoServer ==
    status = "REFUNDED" =>
        /\ servers = {}
        /\ ~instance
        /\ \A w \in Workers : worker[w].pc # "creating"

\* The order has one job at work at a time, although dispatch, reconciliation
\* and retry each queue one.
OneActiveJob ==
    \A i, j \in Jobs : job[i].status \in Active /\ job[j].status \in Active => i = j

\* What the administrator's page keys its actions on stays together: the order
\* status and the flow state, written by separate statements of many handlers,
\* and the job that is to move the order on.
InFlight == flow \in {"PROVISIONING_SUBMITTED", "PROVISIONING", "HEALTH_CHECKING"}
StatusMatchesFlow ==
    /\ flow = "PROVISIONING_SUBMITTED" <=> status = "QUEUED"
    /\ flow = "PROVISIONING_RECONCILING" <=> status = "NEEDS_RECONCILIATION"
    /\ flow = "PROVISIONING_RETRYABLE" <=> status = "FAILED"
    /\ flow = "CANCELLED" <=> status = "REFUNDED"
    /\ status = "PROVISIONING" =>
         flow \in {"PROVISIONING", "HEALTH_CHECKING", "WAITING_ADMIN_DELIVERY_APPROVAL"}
    /\ InFlight => ActiveJob /\ status \in {"QUEUED", "PROVISIONING"}

\* Usage billing starts only on a server that exists, and a job that stopped
\* for an operator keeps its record: a stale worker cannot end it otherwise.
BilledServerExists == (instance \/ \E j \in Jobs : job[j].found) => servers # {}

EndedStaysEnded ==
    [][\A j \in Jobs : job[j].status \in Ended => job'[j].status = job[j].status]_vars

\* The order in the terms of ServerContract.
Confirmed == LatestCreate # 0 /\ absence = LatestCreate
Adopted == instance \/ \E j \in Jobs : job[j].found

Contract == INSTANCE ServerContract WITH
    attempt <- LatestCreate, made <- servers, pending <- late,
    absent <- Confirmed, adopted <- Adopted, refunded <- status = "REFUNDED"

\* ServerContract: an order's attempts make one server each at most, and another
\* one follows only on attempts that left none, by createSentAt or by the operator's
\* confirmation; once a server is taken over or the order refunded, nothing more
\* is attempted.
ImplementsContract == Contract!Spec

\* A paid order submitted for provisioning is taken on, and it leaves
\* PROVISIONING for a health check or for an operator.
SubmissionIsAnswered ==
    flow \in {"PROVISIONING_SUBMITTED", "PROVISIONING"}
        ~> flow \notin {"PROVISIONING_SUBMITTED", "PROVISIONING"}

=============================================================================
