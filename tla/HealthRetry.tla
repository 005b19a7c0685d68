---------------------------- MODULE HealthRetry ----------------------------
(***************************************************************************)
(* What happens to a paid server that failed its first health check: the   *)
(* dispatches that failed checks leave behind, the retry jobs they are     *)
(* turned into, the administrator's retries, observations and recoveries,  *)
(* and the approval of the delivery (src/lib/infrastructure/               *)
(* health-retry-service.ts, health-check-service.ts, delivery-approval.ts).*)
(*                                                                         *)
(* One order.  Its health_check_retry jobs are numbered by attempt, and    *)
(* its health_check_manual_recovery jobs after them; 0 is the job that     *)
(* created the server and failed the first check.  A claim token is the    *)
(* name of the worker that drew it: a worker holds one job at a time, so   *)
(* it has forgotten a claim before it makes another.                       *)
(***************************************************************************)
EXTENDS Naturals

CONSTANTS
    Workers,        \* worker processes
    RetryLimit,     \* HEALTH_RETRY_LIMIT (3)
    DispatchLimit,  \* HEALTH_RETRY_DISPATCH_MAX_ATTEMPTS (5)
    MaxRecoveries,  \* bound: manual recoveries an administrator starts
    MaxFaults,      \* bound: crashes, and leases that end under a working worker
    Nobody          \* a null claim token

ASSUME HealthAssumption ==
    /\ RetryLimit \in Nat \ {0}
    /\ DispatchLimit \in Nat \ {0}
    /\ MaxRecoveries \in Nat
    /\ MaxFaults \in Nat
    /\ Nobody \notin Workers

VARIABLES
    status,    \* InfrastructureOrder.status
    flow,      \* productFlowState of the order
    ready,     \* does the recorded observation of the server meet the contract?
    check,     \* the latest InfrastructureHealthCheck: its job and its status
    job,       \* the ProvisioningJob rows of the two health operations
    dispatch,  \* the HealthRetryDispatch rows, by source health check
    keys,      \* per-order idempotency keys of transitions that are used up
    worker,    \* what each worker process holds in memory
    faults     \* crashes and lost leases so far

vars == <<status, flow, ready, check, job, dispatch, keys, worker, faults>>

RetryJobs == 1..RetryLimit
RecoveryJobs == (RetryLimit + 1)..(RetryLimit + MaxRecoveries)
HealthJobs == RetryJobs \cup RecoveryJobs

\* A failed check is the source of a dispatch, and so is a retry that failed
\* without one ("provider-observation:<job>").
Sources == ({"CHECK"} \X ({0} \cup RetryJobs)) \cup ({"OBSERVATION"} \X RetryJobs)

NoJob == [status |-> "NONE", holder |-> Nobody, leased |-> FALSE,
          started |-> FALSE, result |-> "NONE"]
NoDispatch == [status |-> "NONE", failures |-> 0, to |-> 0]
Pending == [NoDispatch EXCEPT !.status = "PENDING"]
Idle == [pc |-> "idle", job |-> 0, ready |-> FALSE, found |-> "NONE"]

\* The create job has just kept its failed check.
Init ==
    /\ status = "MANUAL_REVIEW"
    /\ flow = "HEALTH_CHECK_FAILED"
    /\ ready \in BOOLEAN
    /\ check = [job |-> 0, status |-> "FAILED"]
    /\ job = [j \in HealthJobs |-> NoJob]
    /\ dispatch = [d \in Sources |-> IF d = <<"CHECK", 0>> THEN Pending ELSE NoDispatch]
    /\ keys = {}
    /\ worker = [w \in Workers |-> Idle]
    /\ faults = 0

IsActive(j) == job[j].status \in {"QUEUED", "RUNNING"}
Active(S) == \E j \in S : IsActive(j)
Exhausted == \A j \in RetryJobs : job[j].status # "NONE"

\* A job of an operation is made as its next attempt.  The partial unique index
\* over both operations lets one job be at work.
Enqueue(S, j) ==
    /\ ~Active(HealthJobs)
    /\ job[j].status = "NONE"
    /\ \A i \in S : i < j => job[i].status # "NONE"
    /\ job' = [job EXCEPT ![j] = [NoJob EXCEPT !.status = "QUEUED"]]

\* moveHealthToManualReviewTx: from a check that runs or failed, or already there.
Reviewable == flow \in {"HEALTH_CHECKING", "HEALTH_CHECK_FAILED", "PROVISIONING_MANUAL_REVIEW"}
ToReview == flow' = "PROVISIONING_MANUAL_REVIEW" /\ status' = "MANUAL_REVIEW"

\* A transition whose key was used before moves nothing: the review is not
\* reached, and the command is rolled back.
LimitReview ==
    /\ "limit" \notin keys
    /\ keys' = keys \cup {"limit"}
    /\ ToReview

-----------------------------------------------------------------------------
\* processPendingHealthRetryDispatches, in the cycle of an idle worker.  The
\* job a dispatch made is written with the dispatch, so none is found for a
\* pending one.  Its terminal states (DISPATCHED, EXHAUSTED, OBSOLETE,
\* DEAD_LETTER) are one here: none is read again, and a count only while PENDING.

Close(d, to) ==
    dispatch' = [dispatch EXCEPT ![d] = [status |-> "CLOSED", failures |-> 0, to |-> to]]

Due(d) ==
    /\ dispatch[d].status = "PENDING"
    /\ \E w \in Workers : worker[w].pc = "idle"

\* scheduleHealthRetryTx: join the retry that is at work, start one, or give
\* the order to an operator.
DispatchRetry(d) ==
    /\ Due(d)
    /\ flow = "HEALTH_CHECK_FAILED"
    /\ \/ /\ \E j \in RetryJobs : IsActive(j) /\ Close(d, j)
          /\ UNCHANGED <<status, flow, job, keys>>
       \/ /\ ~Exhausted
          /\ \E j \in RetryJobs : Enqueue(RetryJobs, j) /\ Close(d, j)
          /\ UNCHANGED <<status, flow, keys>>
       \/ /\ ~Active(RetryJobs)
          /\ Exhausted
          /\ LimitReview
          /\ Close(d, 0)
          /\ job' = job
    /\ UNCHANGED <<ready, check, worker, faults>>

\* Nothing is left to retry.
DispatchEnds(d) ==
    /\ Due(d)
    /\ flow \in {"ACTIVE", "PROVISIONING_MANUAL_REVIEW"}
    /\ Close(d, 0)
    /\ UNCHANGED <<status, flow, ready, check, job, keys, worker, faults>>

\* deadLetterHealthRetryDispatchTx.
DeadLetter(d) ==
    /\ Close(d, 0)
    /\ IF Reviewable THEN ToReview ELSE UNCHANGED <<status, flow>>

\* Any other state is taken for permanently invalid, a running check included.
DispatchIsInvalid(d) ==
    /\ Due(d)
    /\ flow \in {"HEALTH_CHECKING", "WAITING_ADMIN_DELIVERY_APPROVAL"}
    /\ DeadLetter(d)
    /\ UNCHANGED <<ready, check, job, keys, worker, faults>>

\* Mutant: the limit is off by one.
MutantDispatchFails(d) ==
    /\ Due(d)
    /\ IF dispatch[d].failures + 1 > DispatchLimit
       THEN DeadLetter(d)
       ELSE /\ dispatch' = [dispatch EXCEPT ![d].failures = @ + 1]
            /\ UNCHANGED <<status, flow>>
    /\ UNCHANGED <<ready, check, job, keys, worker, faults>>

\* recordHealthRetryDispatchFailure: the transaction failed and rolled back.
DispatchFails(d) ==
    /\ Due(d)
    /\ IF dispatch[d].failures + 1 >= DispatchLimit
       THEN DeadLetter(d)
       ELSE /\ dispatch' = [dispatch EXCEPT ![d].failures = @ + 1]
            /\ UNCHANGED <<status, flow>>
    /\ UNCHANGED <<ready, check, job, keys, worker, faults>>

\* Mutant: one dispatch for an order.
MutantLeaves(d) ==
    dispatch' = IF \A e \in Sources : dispatch[e].status = "NONE"
                THEN [dispatch EXCEPT ![d] = Pending] ELSE dispatch

\* A failed check leaves its dispatch; an existing row is kept (upsert).
Leaves(d) ==
    dispatch' = IF dispatch[d].status = "NONE"
                THEN [dispatch EXCEPT ![d] = Pending] ELSE dispatch

-----------------------------------------------------------------------------
\* Leases and claims.

Fenced(w) ==
    LET j == worker[w].job IN
    /\ worker[w].pc # "idle"
    /\ job[j].status = "RUNNING"
    /\ job[j].holder = w
    /\ job[j].leased

\* leaseExpiresAt passes; it is never renewed.  It counts as a fault if the
\* worker is still at it.
ExpireLease(j) ==
    /\ job[j].status = "RUNNING"
    /\ job[j].leased
    /\ IF worker[job[j].holder].pc # "idle" /\ worker[job[j].holder].job = j
       THEN faults < MaxFaults /\ faults' = faults + 1
       ELSE faults' = faults
    /\ job' = [job EXCEPT ![j] = [@ EXCEPT !.leased = FALSE]]
    /\ UNCHANGED <<status, flow, ready, check, dispatch, keys, worker>>

\* Leave the lease.
Unclaimed(j, s) ==
    [job EXCEPT ![j] = [@ EXCEPT !.status = s, !.holder = Nobody, !.leased = FALSE]]

\* Mutant: a job whose result is on record is taken for finished.
MutantRecoverExpired(j) ==
    /\ job[j].status = "RUNNING"
    /\ ~job[j].leased
    /\ job[j].result = "NONE"
    /\ job' = Unclaimed(j, "QUEUED")
    /\ UNCHANGED <<status, flow, ready, check, dispatch, keys, worker, faults>>

RecoverExpired(j) ==
    /\ job[j].status = "RUNNING"
    /\ ~job[j].leased
    /\ job' = Unclaimed(j, "QUEUED")
    /\ UNCHANGED <<status, flow, ready, check, dispatch, keys, worker, faults>>

\* Mutant: an order in review has no work for a worker.
MutantClaimableFlow == flow \in {"HEALTH_CHECK_FAILED", "WAITING_ADMIN_DELIVERY_APPROVAL"}

\* The filter of claimNextProvisioningJob for health jobs.
ClaimableFlow ==
    flow \in {"HEALTH_CHECK_FAILED", "PROVISIONING_MANUAL_REVIEW",
              "WAITING_ADMIN_DELIVERY_APPROVAL"}

Claim(w, j) ==
    /\ worker[w].pc = "idle"
    /\ job[j].status = "QUEUED"
    /\ ClaimableFlow
    /\ job' = [job EXCEPT ![j] = [@ EXCEPT !.status = "RUNNING", !.holder = w, !.leased = TRUE]]
    /\ worker' = [worker EXCEPT ![w] = [Idle EXCEPT !.pc = "claimed", !.job = j]]
    /\ UNCHANGED <<status, flow, ready, check, dispatch, keys, faults>>

GoTo(w, pc) == worker' = [worker EXCEPT ![w] = [@ EXCEPT !.pc = pc]]
Leave(w) == worker' = [worker EXCEPT ![w] = Idle]

\* The fence no longer holds at its next check: the worker gives the job up.
Abandon(w) ==
    /\ worker[w].pc # "idle"
    /\ ~Fenced(w)
    /\ Leave(w)
    /\ UNCHANGED <<status, flow, ready, check, job, dispatch, keys, faults>>

\* The process dies, or an unexpected error ends its run.
Crash(w) ==
    /\ worker[w].pc # "idle"
    /\ faults < MaxFaults
    /\ faults' = faults + 1
    /\ Leave(w)
    /\ UNCHANGED <<status, flow, ready, check, job, dispatch, keys>>

-----------------------------------------------------------------------------
\* One run of processHealthCheckRetryJob.

\* A result that is on record is only finalized; a recovery begins in review.
Start(w) ==
    LET j == worker[w].job IN
    /\ worker[w].pc = "claimed"
    /\ Fenced(w)
    /\ \/ /\ job[j].result # "NONE"
          /\ worker' = [worker EXCEPT ![w] = [@ EXCEPT !.pc = "finalizing",
                                                         !.found = job[j].result]]
       \/ /\ job[j].result = "NONE"
          /\ IF j \in RetryJobs \/ flow = "PROVISIONING_MANUAL_REVIEW"
             THEN GoTo(w, "observing") ELSE Leave(w)
    /\ UNCHANGED <<status, flow, ready, check, job, dispatch, keys, faults>>

\* The provider is asked for the server; its answer is to be recorded, and the
\* transaction that does so begins with the fence.
Observe(w) ==
    /\ worker[w].pc = "observing"
    /\ Fenced(w)
    /\ GoTo(w, "observed")
    /\ UNCHANGED <<status, flow, ready, check, job, dispatch, keys, faults>>

\* The answer is written whatever became of the claim and the order since.
RecordObservation(w) ==
    /\ worker[w].pc = "observed"
    /\ ready' \in BOOLEAN
    /\ GoTo(w, "checking")
    /\ UNCHANGED <<status, flow, check, job, dispatch, keys, faults>>

\* Where the check of a job starts from.
From(j) == IF j \in RetryJobs THEN "HEALTH_CHECK_FAILED" ELSE "PROVISIONING_MANUAL_REVIEW"

\* The first transaction of runInfrastructureHealthCheck reads the order and the
\* observation, without a lock: the check goes by what is read here.
ReadToCheck(w) ==
    /\ worker[w].pc = "checking"
    /\ Fenced(w)
    /\ flow \in {From(worker[w].job), "HEALTH_CHECKING"}
    /\ worker' = [worker EXCEPT ![w] = [@ EXCEPT !.pc = "starting", !.ready = ready]]
    /\ UNCHANGED <<status, flow, ready, check, job, dispatch, keys, faults>>

\* Then it moves the order on from the state it read, and links the check to the
\* job it still holds.  The transition has one key per job: a job that starts
\* again moves nothing, and goes on with its unfinished check.
StartCheck(w) ==
    LET j == worker[w].job IN
    /\ worker[w].pc = "starting"
    /\ \/ job[j].started /\ UNCHANGED <<flow, check, job>>
       \/ /\ ~job[j].started
          /\ Fenced(w)
          /\ flow = From(j)
          /\ flow' = "HEALTH_CHECKING"
          /\ check' = [job |-> j, status |-> "RUNNING"]
          /\ job' = [job EXCEPT ![j] = [@ EXCEPT !.started = TRUE]]
    /\ GoTo(w, "probing")
    /\ UNCHANGED <<status, ready, dispatch, keys, faults>>

\* A failed step leaves the worker with the job it is at.
Fails(w) ==
    worker' = [worker EXCEPT ![w] = [Idle EXCEPT !.pc = "failing", !.job = worker[w].job]]

Verdict(healthy) == IF healthy THEN "OK" ELSE "FAILED"

\* The last transaction of runInfrastructureHealthCheck; its commit may go
\* unanswered.  The port is probed only if the observation met the contract.
KeepResult(w) ==
    LET j == worker[w].job IN
    /\ worker[w].pc = "probing"
    /\ Fenced(w)
    /\ flow = "HEALTH_CHECKING"
    /\ \E healthy \in BOOLEAN, answered \in BOOLEAN :
         /\ healthy => worker[w].ready
         /\ flow' = IF healthy THEN "WAITING_ADMIN_DELIVERY_APPROVAL" ELSE "HEALTH_CHECK_FAILED"
         /\ status' = IF healthy THEN "PROVISIONING" ELSE "MANUAL_REVIEW"
         /\ check' = [job |-> j, status |-> Verdict(healthy)]
         /\ job' = [job EXCEPT ![j] = [@ EXCEPT !.result = Verdict(healthy)]]
         /\ IF ~healthy /\ j \in RetryJobs THEN Leaves(<<"CHECK", j>>) ELSE dispatch' = dispatch
         /\ IF ~answered THEN Fails(w)
            ELSE worker' = [worker EXCEPT ![w] =
                   [Idle EXCEPT !.job = j, !.found = Verdict(healthy),
                                !.pc = IF ~healthy /\ j \in RecoveryJobs
                                       THEN "reviewing" ELSE "finalizing"]]
    /\ UNCHANGED <<ready, keys, faults>>

\* The provider does not answer, or a transaction fails or refuses the state.
StepFails(w) ==
    /\ worker[w].pc \in {"observing", "observed", "checking", "starting", "probing"}
    /\ Fenced(w)
    /\ Fails(w)
    /\ UNCHANGED <<status, flow, ready, check, job, dispatch, keys, faults>>

\* The result a failed step leaves the worker with is the one on record.
Recorded(j) == IF job[j].result = "NONE" THEN "FAILED" ELSE job[j].result
FinalizeAs(w) ==
    worker' = [worker EXCEPT ![w] = [@ EXCEPT !.pc = "finalizing",
                                              !.found = Recorded(worker[w].job)]]

\* Mutant: no state conflict, the failure is put on record whatever the order's state.
MutantFailRetry(w) ==
    LET j == worker[w].job IN
    /\ worker[w].pc = "failing"
    /\ Fenced(w)
    /\ j \in RetryJobs
    /\ \/ /\ flow # "ACTIVE"
          /\ flow' = IF flow = "HEALTH_CHECKING" THEN "HEALTH_CHECK_FAILED" ELSE flow
          /\ job' = [job EXCEPT ![j] = [@ EXCEPT !.result = "FAILED"]]
          /\ Leaves(<<"OBSERVATION", j>>)
       \/ flow = "ACTIVE" /\ UNCHANGED <<flow, job, dispatch>>
    /\ FinalizeAs(w)
    /\ UNCHANGED <<status, ready, check, keys, faults>>

\* ensureHealthFailureIsRecoverable of a retry.
FailRetry(w) ==
    LET j == worker[w].job IN
    /\ worker[w].pc = "failing"
    /\ Fenced(w)
    /\ j \in RetryJobs
    /\ \/ /\ flow \in {"HEALTH_CHECKING", "HEALTH_CHECK_FAILED"}
          /\ flow' = "HEALTH_CHECK_FAILED"
          /\ job' = [job EXCEPT ![j] = [@ EXCEPT !.result = "FAILED"]]
          /\ Leaves(<<"OBSERVATION", j>>)
       \/ flow = "ACTIVE" /\ UNCHANGED <<flow, job, dispatch>>
    /\ FinalizeAs(w)
    /\ UNCHANGED <<status, ready, check, keys, faults>>

\* recordManualRecoveryResult of a recovery whose step failed, or whose check was
\* not healthy: the fence is read, and then the order's lock is waited for.
FenceRecovery(w) ==
    /\ worker[w].pc \in {"failing", "reviewing"}
    /\ Fenced(w)
    /\ worker[w].job \in RecoveryJobs
    /\ GoTo(w, IF worker[w].pc = "failing" THEN "recordingFailure" ELSE "recordingResult")
    /\ UNCHANGED <<status, flow, ready, check, job, dispatch, keys, faults>>

\* The order is locked and written whatever became of the claim.  The result is
\* then audited under a key of the job: one that differs from that of an earlier
\* run is an error, which is caught if the check ended and ends the run if a
\* step failed.
ReviewRecovery(w) ==
    /\ worker[w].pc \in {"recordingFailure", "recordingResult"}
    /\ Reviewable
    /\ ToReview
    /\ FinalizeAs(w) \/ (worker[w].pc = "recordingFailure" /\ Leave(w))
    /\ UNCHANGED <<ready, check, job, dispatch, keys, faults>>

\* health_failure_state_conflict, manual_review_state_conflict: the error
\* leaves the job RUNNING until its lease ends.
FailThrows(w) ==
    /\ \/ /\ worker[w].pc = "failing"
          /\ Fenced(w)
          /\ worker[w].job \in RetryJobs
          /\ flow \notin {"HEALTH_CHECKING", "HEALTH_CHECK_FAILED", "ACTIVE"}
       \/ worker[w].pc \in {"recordingFailure", "recordingResult"} /\ ~Reviewable
    /\ Leave(w)
    /\ UNCHANGED <<status, flow, ready, check, job, dispatch, keys, faults>>

Finalize(w) ==
    /\ worker[w].pc = "finalizing"
    /\ Fenced(w)
    /\ job' = Unclaimed(worker[w].job, IF worker[w].found = "OK" THEN "SUCCEEDED" ELSE "FAILED")
    /\ Leave(w)
    /\ UNCHANGED <<status, flow, ready, check, dispatch, keys, faults>>

-----------------------------------------------------------------------------
\* The administrator's commands; each locks the order.

\* scheduleManualHealthRetry, where it changes more than a retry's time.
AdminRetry ==
    /\ flow = "HEALTH_CHECK_FAILED"
    /\ ~Active(RetryJobs)
    /\ \/ /\ ~Exhausted
          /\ \E j \in RetryJobs : Enqueue(RetryJobs, j)
          /\ UNCHANGED <<status, flow, keys>>
       \/ Exhausted /\ LimitReview /\ job' = job
    /\ UNCHANGED <<ready, check, dispatch, worker, faults>>

InReview == status = "MANUAL_REVIEW" /\ flow = "PROVISIONING_MANUAL_REVIEW"

\* observeManualReviewResource.
AdminObserve ==
    /\ InReview
    /\ ready' \in BOOLEAN
    /\ UNCHANGED <<status, flow, check, job, dispatch, keys, worker, faults>>

\* scheduleManualHealthRecovery.
AdminRecover ==
    /\ InReview
    /\ \E j \in RecoveryJobs : Enqueue(RecoveryJobs, j)
    /\ UNCHANGED <<status, flow, ready, check, dispatch, keys, worker, faults>>

Deliverable == status = "PROVISIONING" /\ flow = "WAITING_ADMIN_DELIVERY_APPROVAL"

\* What buildDeliveryApprovalReview reads of these rows.
Approvable == ready /\ check.status = "OK"

\* approveDelivery of an order whose review shows no issue.
ApproveDelivery ==
    /\ Deliverable
    /\ Approvable
    /\ status' = "ACTIVE"
    /\ flow' = "ACTIVE"
    /\ UNCHANGED <<ready, check, job, dispatch, keys, worker, faults>>

\* holdDeliveryApproval, and approveDelivery of an order whose review shows an
\* issue for an operator.  The status is written whether or not the transition,
\* which has one key per order, moves the flow.
SetAside(key) ==
    /\ Deliverable
    /\ status' = "MANUAL_REVIEW"
    /\ flow' = IF key \in keys THEN flow ELSE "PROVISIONING_MANUAL_REVIEW"
    /\ keys' = keys \cup {key}
    /\ UNCHANGED <<ready, check, job, dispatch, worker, faults>>

-----------------------------------------------------------------------------
Process(w) ==
    \/ Start(w) \/ Observe(w) \/ RecordObservation(w) \/ ReadToCheck(w) \/ StartCheck(w)
    \/ KeepResult(w) \/ StepFails(w) \/ FailRetry(w) \/ FenceRecovery(w) \/ ReviewRecovery(w)
    \/ FailThrows(w) \/ Finalize(w) \/ Abandon(w)

HandleDispatch(d) ==
    DispatchRetry(d) \/ DispatchEnds(d) \/ DispatchIsInvalid(d) \/ DispatchFails(d)

Admin ==
    \/ AdminRetry \/ AdminObserve \/ AdminRecover \/ ApproveDelivery
    \/ \E key \in {"held", "blocked"} : SetAside(key)

Next ==
    \/ Admin
    \/ \E d \in Sources : HandleDispatch(d)
    \/ \E j \in HealthJobs : ExpireLease(j) \/ RecoverExpired(j)
    \/ \E w \in Workers, j \in HealthJobs : Claim(w, j)
    \/ \E w \in Workers : Process(w) \/ Crash(w)

Spec == Init /\ [][Next]_vars

\* What goes on by itself: leases end and are recovered, jobs are claimed and worked on.
Work ==
    \/ \E j \in HealthJobs : ExpireLease(j) \/ RecoverExpired(j)
    \/ \E w \in Workers, j \in HealthJobs : Claim(w, j)
    \/ \E w \in Workers : Process(w)

\* A worker runs its cycle again and again: it reconciles the due dispatches
\* before it claims a job, so dispatches that come up in infinitely many cycles
\* are handled; then it claims, and finishes what it claimed.  Time passes.  No
\* more is asked for than that some of this work goes on while there is any.
Fairness ==
    /\ SF_vars(\E d \in Sources : HandleDispatch(d))
    /\ WF_vars(Work)

FairSpec == Spec /\ Fairness

-----------------------------------------------------------------------------
TypeOK ==
    /\ status \in {"MANUAL_REVIEW", "PROVISIONING", "ACTIVE"}
    /\ flow \in {"HEALTH_CHECKING", "HEALTH_CHECK_FAILED", "PROVISIONING_MANUAL_REVIEW",
                 "WAITING_ADMIN_DELIVERY_APPROVAL", "ACTIVE"}
    /\ ready \in BOOLEAN
    /\ check \in [job : {0} \cup HealthJobs, status : {"RUNNING", "OK", "FAILED"}]
    /\ job \in [HealthJobs ->
                  [status : {"NONE", "QUEUED", "RUNNING", "SUCCEEDED", "FAILED"},
                   holder : Workers \cup {Nobody}, leased : BOOLEAN,
                   started : BOOLEAN, result : {"NONE", "OK", "FAILED"}]]
    /\ dispatch \in [Sources ->
                       [status : {"NONE", "PENDING", "CLOSED"},
                        failures : 0..(DispatchLimit - 1), to : {0} \cup RetryJobs]]
    /\ keys \subseteq {"limit", "held", "blocked"}
    /\ worker \in [Workers ->
                     [pc : {"idle", "claimed", "observing", "observed", "checking",
                            "starting", "probing", "failing", "reviewing",
                            "recordingFailure", "recordingResult", "finalizing"},
                      job : {0} \cup HealthJobs, ready : BOOLEAN,
                      found : {"NONE", "OK", "FAILED"}]]
    /\ faults \in 0..MaxFaults

PendingDispatch == \E d \in Sources : dispatch[d].status = "PENDING"

\* Nobody is to act on the failed check.
Orphaned == flow = "HEALTH_CHECK_FAILED" /\ ~Active(HealthJobs) /\ ~PendingDispatch

IsLastRetry(j) ==
    /\ j \in RetryJobs
    /\ \A i \in RetryJobs : job[i].status # "NONE" <=> i <= j

\* A failed automatic check is followed up: its dispatch, or a job, is there
\* from the commit that records the failure, across crashes and lost leases.
\* Two failures are left to an administrator: one of a manual recovery whose
\* worker died before it put the order back to review, and one whose dispatch
\* joined the very retry that failed, as that was not finalized yet.
FailureIsFollowedUp ==
    Orphaned => \/ check.job \in RecoveryJobs
                \/ \E d \in Sources : IsLastRetry(d[2]) /\ dispatch[d].to = d[2]

\* What an administrator may ask for in MANUAL_REVIEW, and have done.
Recoverable == InReview /\ ~Active(HealthJobs)
Retryable ==
    flow = "HEALTH_CHECK_FAILED" /\ ~Active(HealthJobs) /\ (Exhausted => "limit" \notin keys)

\* A retry in review can neither check (its check starts from
\* HEALTH_CHECK_FAILED) nor fail (its failure is a state conflict).
Jammed ==
    /\ flow = "PROVISIONING_MANUAL_REVIEW"
    /\ \E j \in RetryJobs : job[j].status \in {"QUEUED", "RUNNING"} /\ job[j].result = "NONE"

\* The order's jobs or dispatches will still do something.
AtWork ==
    \/ PendingDispatch
    \/ \E j \in HealthJobs : job[j].status = "RUNNING"
    \/ ClaimableFlow /\ Active(HealthJobs)

\* MANUAL_REVIEW is no dead end: work goes on, or a command is accepted
\* (docs/multi-provider-cloud-architecture.md:410).
ReviewIsNoDeadEnd ==
    status = "MANUAL_REVIEW" => (AtWork /\ ~Jammed) \/ Recoverable \/ Retryable

\* The ways it is one nevertheless: a delivery set aside for the second time, a
\* retry limit reached for the second time, a jammed retry, and a job that was
\* requeued in HEALTH_CHECKING, where none is claimed.
SetAsideAgain == flow = "WAITING_ADMIN_DELIVERY_APPROVAL" /\ keys \cap {"held", "blocked"} # {}
LimitAgain == Orphaned /\ Exhausted /\ "limit" \in keys
Stranded ==
    flow = "HEALTH_CHECKING" /\ \E j \in HealthJobs : job[j].status = "QUEUED" /\ job[j].started

\* There are no others.
DeadEndsAreKnown ==
    ReviewIsNoDeadEnd \/ SetAsideAgain \/ LimitAgain \/ Jammed \/ Stranded

\* The result a health job left is never replaced: not by the worker that takes
\* the job over when the lease ended before it was finalized, nor by the handling
\* of a failed step whose commit went unanswered and had succeeded.
ResultsStand ==
    [][\A j \in HealthJobs : job[j].result # "NONE" => job'[j].result = job[j].result]_vars

\* A failed check, and a running one, is taken up: the order becomes
\* deliverable or goes to an operator, or it is one of the two orders nobody is
\* to act on.
FailureIsTakenUp ==
    []<>(flow \notin {"HEALTH_CHECKING", "HEALTH_CHECK_FAILED"} \/ Orphaned \/ Stranded)

=============================================================================
