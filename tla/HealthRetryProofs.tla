-------------------------- MODULE HealthRetryProofs --------------------------
(***************************************************************************)
(* What HealthRetry promises, proved for every set of workers and any      *)
(* limits, recoveries and faults: its types, that only a server whose      *)
(* latest check succeeded is delivered, that a failed check is followed    *)
(* up, that the dead ends of a review are the known ones, and that         *)
(* deliveries are final and results stand.                                 *)
(*                                                                         *)
(* The argument: one health job is at work (the partial unique index), so  *)
(* one worker holds a claim, and only the holder starts a check, keeps its *)
(* result or ends the job.  What is written without the fence, a late      *)
(* observation and a recovery's way back to review, touches no job.  A     *)
(* retry's result and the dispatch that follows it up are one commit.      *)
(***************************************************************************)
EXTENDS HealthRetry, TLAPS

LEMMA JobSets ==
    /\ RetryJobs \subseteq HealthJobs /\ RecoveryJobs \subseteq HealthJobs
    /\ RetryJobs \cap RecoveryJobs = {} /\ HealthJobs = RetryJobs \cup RecoveryJobs
    /\ HealthJobs \subseteq Nat /\ 0 \notin HealthJobs
BY HealthAssumption DEF RetryJobs, RecoveryJobs, HealthJobs

LEMMA SourceParts ==
    /\ \A d \in Sources : d = <<d[1], d[2]>> /\ d[2] \in {0} \cup RetryJobs
    /\ \A j \in RetryJobs, s \in {"CHECK", "OBSERVATION"} : <<s, j>> \in Sources
    /\ <<"CHECK", 0>> \in Sources
BY DEF Sources

LEMMA InitTypes == Init => TypeOK
BY HealthAssumption, JobSets DEF Init, TypeOK, NoJob, NoDispatch, Pending, Idle

-----------------------------------------------------------------------------
\* The type invariant, by the rows it is made of.

JobRows == [status : {"NONE", "QUEUED", "RUNNING", "SUCCEEDED", "FAILED"},
            holder : Workers \cup {Nobody}, leased : BOOLEAN,
            started : BOOLEAN, result : {"NONE", "OK", "FAILED"}]
DispatchRows == [status : {"NONE", "PENDING", "CLOSED"},
                 failures : 0..(DispatchLimit - 1), to : {0} \cup RetryJobs]
Memories == [pc : {"idle", "claimed", "observing", "observed", "checking",
                   "starting", "probing", "failing", "reviewing",
                   "recordingFailure", "recordingResult", "finalizing"},
             job : {0} \cup HealthJobs, ready : BOOLEAN,
             found : {"NONE", "OK", "FAILED"}]
OrderTypes ==
    /\ status \in {"MANUAL_REVIEW", "PROVISIONING", "ACTIVE"}
    /\ flow \in {"HEALTH_CHECKING", "HEALTH_CHECK_FAILED", "PROVISIONING_MANUAL_REVIEW",
                 "WAITING_ADMIN_DELIVERY_APPROVAL", "ACTIVE"}
    /\ ready \in BOOLEAN
    /\ check \in [job : {0} \cup HealthJobs, status : {"RUNNING", "OK", "FAILED"}]
    /\ keys \subseteq {"limit", "held", "blocked"}
    /\ faults \in 0..MaxFaults
JobTypes == job \in [HealthJobs -> JobRows]
DispatchTypes == dispatch \in [Sources -> DispatchRows]
WorkerTypes == worker \in [Workers -> Memories]

LEMMA TypeParts == TypeOK <=> OrderTypes /\ JobTypes /\ DispatchTypes /\ WorkerTypes
BY DEF TypeOK, OrderTypes, JobTypes, DispatchTypes, WorkerTypes, JobRows, DispatchRows, Memories

LEMMA TypePartsNext == TypeOK' <=> OrderTypes' /\ JobTypes' /\ DispatchTypes' /\ WorkerTypes'
BY DEF TypeOK, OrderTypes, JobTypes, DispatchTypes, WorkerTypes, JobRows, DispatchRows, Memories

\* What a step makes of a row of each kind is such a row.
LEMMA JobRowUpdates ==
    /\ \A r \in JobRows :
         /\ [r EXCEPT !.leased = FALSE] \in JobRows
         /\ [r EXCEPT !.started = TRUE] \in JobRows
         /\ \A s \in {"QUEUED", "SUCCEEDED", "FAILED"} :
              [r EXCEPT !.status = s, !.holder = Nobody, !.leased = FALSE] \in JobRows
         /\ \A w \in Workers :
              [r EXCEPT !.status = "RUNNING", !.holder = w, !.leased = TRUE] \in JobRows
         /\ \A v \in {"OK", "FAILED"} : [r EXCEPT !.result = v] \in JobRows
         /\ r.result \in {"NONE", "OK", "FAILED"}
    /\ [NoJob EXCEPT !.status = "QUEUED"] \in JobRows
BY DEF JobRows, NoJob

LEMMA DispatchRowUpdates ==
    /\ \A r \in DispatchRows : r.failures + 1 < DispatchLimit =>
                                 [r EXCEPT !.failures = @ + 1] \in DispatchRows
    /\ \A j \in {0} \cup RetryJobs :
         [status |-> "CLOSED", failures |-> 0, to |-> j] \in DispatchRows
    /\ Pending \in DispatchRows
<1>1. \A r \in DispatchRows : r.failures + 1 < DispatchLimit =>
                                [r EXCEPT !.failures = @ + 1] \in DispatchRows
  BY HealthAssumption DEF DispatchRows
<1>2. \A j \in {0} \cup RetryJobs :
        [status |-> "CLOSED", failures |-> 0, to |-> j] \in DispatchRows
  BY HealthAssumption DEF DispatchRows
<1>3. Pending \in DispatchRows
  BY HealthAssumption, JobSets DEF DispatchRows, NoDispatch, Pending
<1> QED BY <1>1, <1>2, <1>3

\* Where a worker goes on to, and remembers what it did.
Paths == {"observing", "observed", "checking", "probing", "recordingFailure", "recordingResult"}

LEMMA IdleIsMemory == Idle \in Memories
BY DEF Memories, Idle

LEMMA NextMemory ==
    ASSUME NEW m \in Memories, NEW p \in Paths, NEW n, n = [m EXCEPT !.pc = p]
    PROVE  n \in Memories /\ n.pc = p /\ n.job = m.job
BY DEF Memories, Paths

LEMMA ReadMemory ==
    ASSUME NEW m \in Memories, NEW b \in BOOLEAN,
           NEW n, n = [m EXCEPT !.pc = "starting", !.ready = b]
    PROVE  n \in Memories /\ n.pc = "starting" /\ n.job = m.job
BY DEF Memories

LEMMA FinalMemory ==
    ASSUME NEW m \in Memories, NEW f \in {"NONE", "OK", "FAILED"},
           NEW n, n = [m EXCEPT !.pc = "finalizing", !.found = f]
    PROVE  n \in Memories /\ n.pc = "finalizing" /\ n.job = m.job
BY DEF Memories

\* A worker that is not idle has a job.
Owners == \A w \in Workers : worker[w].pc # "idle" => worker[w].job \in HealthJobs

\* A step that is known by what it makes of one row.
LEMMA JobTyped ==
    ASSUME JobTypes, NEW j, NEW r \in JobRows, job' = [job EXCEPT ![j] = r]
    PROVE  JobTypes'
BY DEF JobTypes

LEMMA WorkerTyped ==
    ASSUME WorkerTypes, Owners, NEW w \in Workers, NEW m \in Memories,
           m.pc # "idle" => m.job \in HealthJobs,
           worker' = [worker EXCEPT ![w] = m]
    PROVE  WorkerTypes' /\ Owners'
BY DEF WorkerTypes, Owners

LEMMA DispatchTyped ==
    ASSUME DispatchTypes, NEW d, NEW r \in DispatchRows, dispatch' = [dispatch EXCEPT ![d] = r]
    PROVE  DispatchTypes'
BY DEF DispatchTypes

LEMMA SameTypes ==
    /\ OrderTypes /\ UNCHANGED <<status, flow, ready, check, keys, faults>> => OrderTypes'
    /\ JobTypes /\ job' = job => JobTypes'
    /\ DispatchTypes /\ dispatch' = dispatch => DispatchTypes'
    /\ WorkerTypes /\ Owners /\ worker' = worker => WorkerTypes' /\ Owners'
BY DEF OrderTypes, JobTypes, DispatchTypes, WorkerTypes, Owners

LEMMA DispatchStepTypes ==
    ASSUME TypeOK, Owners, NEW d \in Sources,
           DispatchRetry(d) \/ DispatchEnds(d) \/ DispatchIsInvalid(d) \/ DispatchFails(d)
    PROVE  (TypeOK /\ Owners)'
<1> USE TypeParts, TypePartsNext, SameTypes
<1>1. /\ UNCHANGED <<ready, check, worker, faults>>
      /\ \/ UNCHANGED <<status, flow>>
         \/ ToReview
      /\ keys' = keys \/ keys' = keys \cup {"limit"}
  BY DEF DispatchRetry, DispatchEnds, DispatchIsInvalid, DispatchFails, DeadLetter, LimitReview
<1>2. OrderTypes'
  BY <1>1 DEF OrderTypes, ToReview
<1>3. JobTypes'
  <2>1. \/ job' = job
        \/ \E j \in RetryJobs : job' = [job EXCEPT ![j] = [NoJob EXCEPT !.status = "QUEUED"]]
    BY DEF DispatchRetry, DispatchEnds, DispatchIsInvalid, DispatchFails, Enqueue
  <2> QED BY <2>1, JobTyped, JobRowUpdates
<1>4. DispatchTypes'
  <2>1. CASE \E j \in {0} \cup RetryJobs : Close(d, j)
    BY <2>1, DispatchTyped, DispatchRowUpdates DEF Close
  <2>2. CASE DispatchFails(d) /\ dispatch[d].failures + 1 < DispatchLimit
    <3>1. dispatch[d] \in DispatchRows
      BY DEF DispatchTypes
    <3>2. dispatch' = [dispatch EXCEPT ![d].failures = @ + 1]
      BY <2>2, <3>1, HealthAssumption DEF DispatchFails, DispatchRows
    <3>3. [dispatch[d] EXCEPT !.failures = @ + 1] \in DispatchRows
      BY <2>2, <3>1, DispatchRowUpdates
    <3> QED BY <3>2, <3>3 DEF DispatchTypes
  <2>3. DispatchFails(d) => \/ Close(d, 0)
                            \/ dispatch[d].failures + 1 < DispatchLimit
    BY HealthAssumption DEF DispatchFails, DeadLetter, DispatchTypes, DispatchRows
  <2> QED
    BY <2>1, <2>2, <2>3 DEF DispatchRetry, DispatchEnds, DispatchIsInvalid, DeadLetter
<1> QED BY <1>1, <1>2, <1>3, <1>4

LEMMA ClaimStepTypes ==
    ASSUME TypeOK, Owners,
           \/ \E j \in HealthJobs : ExpireLease(j) \/ RecoverExpired(j)
           \/ \E w \in Workers, j \in HealthJobs : Claim(w, j)
    PROVE  (TypeOK /\ Owners)'
<1> USE TypeParts, TypePartsNext, SameTypes
<1>1. /\ UNCHANGED <<status, flow, ready, check, dispatch, keys>>
      /\ faults' = faults \/ (faults < MaxFaults /\ faults' = faults + 1)
  BY DEF ExpireLease, RecoverExpired, Claim
<1>2. OrderTypes'
  BY <1>1, HealthAssumption DEF OrderTypes
<1>3. \A j \in HealthJobs : job[j] \in JobRows
  BY DEF JobTypes
<1>4. ASSUME NEW j \in HealthJobs, ExpireLease(j) \/ RecoverExpired(j)
      PROVE  JobTypes' /\ WorkerTypes' /\ Owners'
  <2>1. \E r \in JobRows : job' = [job EXCEPT ![j] = r]
    BY <1>3, <1>4, JobRowUpdates DEF ExpireLease, RecoverExpired, Unclaimed
  <2> QED BY <1>4, <2>1, JobTyped DEF ExpireLease, RecoverExpired
<1>5. ASSUME NEW w \in Workers, NEW j \in HealthJobs, Claim(w, j)
      PROVE  JobTypes' /\ WorkerTypes' /\ Owners'
  <2>1. \E r \in JobRows : job' = [job EXCEPT ![j] = r]
    BY <1>3, <1>5, JobRowUpdates DEF Claim
  <2>2. PICK m : m = [Idle EXCEPT !.pc = "claimed", !.job = j]
    OBVIOUS
  <2>3. m \in Memories /\ m.job = j
    BY <2>2 DEF Memories, Idle
  <2>4. worker' = [worker EXCEPT ![w] = m]
    BY <1>5, <2>2 DEF Claim
  <2> QED BY <1>5, <2>1, <2>3, <2>4, JobTyped, WorkerTyped DEF Claim
<1> QED BY <1>1, <1>2, <1>4, <1>5

LEMMA AdminStepTypes ==
    ASSUME TypeOK, Owners, Admin
    PROVE  (TypeOK /\ Owners)'
<1> USE TypeParts, TypePartsNext, SameTypes
<1>1. UNCHANGED <<check, dispatch, worker, faults>>
  BY DEF Admin, AdminRetry, AdminObserve, AdminRecover, ApproveDelivery, SetAside
<1>2. OrderTypes'
  BY <1>1 DEF OrderTypes, Admin, AdminRetry, AdminObserve, AdminRecover, ApproveDelivery,
              SetAside, LimitReview, ToReview
<1>3. \/ job' = job
      \/ \E j \in HealthJobs : job' = [job EXCEPT ![j] = [NoJob EXCEPT !.status = "QUEUED"]]
  BY JobSets DEF Admin, AdminRetry, AdminObserve, AdminRecover, ApproveDelivery, SetAside, Enqueue
<1>4. JobTypes'
  BY <1>3, JobTyped, JobRowUpdates
<1> QED BY <1>1, <1>2, <1>4

\* What a step makes of the memory of the worker that takes it: it goes on with
\* its job, or forgets it.
Goes(w, ps) ==
    \E m \in Memories : /\ m.pc \in ps
                        /\ m.job = worker[w].job
                        /\ worker' = [worker EXCEPT ![w] = m]

LEMMA WorkerMoves ==
    ASSUME TypeOK, Owners, NEW w \in Workers
    PROVE  /\ Start(w) => IF job[worker[w].job].result # "NONE" THEN Goes(w, {"finalizing"})
                          ELSE Leave(w) \/ Goes(w, {"observing"})
           /\ Observe(w) => Goes(w, {"observed"})
           /\ RecordObservation(w) => Goes(w, {"checking"})
           /\ ReadToCheck(w) => Goes(w, {"starting"})
           /\ StartCheck(w) => Goes(w, {"probing"})
           /\ StepFails(w) => Goes(w, {"failing"})
           /\ KeepResult(w) => Goes(w, {"failing", "reviewing", "finalizing"})
           /\ FailRetry(w) => Goes(w, {"finalizing"})
           /\ FenceRecovery(w) => Goes(w, {"recordingFailure", "recordingResult"})
           /\ ReviewRecovery(w) => Leave(w) \/ Goes(w, {"finalizing"})
<1>1. worker[w] \in Memories
  BY TypeParts DEF WorkerTypes
<1>2. worker[w].pc # "idle" => /\ worker[w].job \in HealthJobs
                               /\ job[worker[w].job].result \in {"NONE", "OK", "FAILED"}
  BY TypeParts, JobRowUpdates DEF JobTypes, Owners
<1>3. ASSUME NEW p \in Paths, GoTo(w, p)
      PROVE  Goes(w, {p})
  <2>1. PICK n : n = [worker[w] EXCEPT !.pc = p]
    OBVIOUS
  <2>2. n \in Memories /\ n.pc = p /\ n.job = worker[w].job
    BY <1>1, <2>1, NextMemory
  <2>3. worker' = [worker EXCEPT ![w] = n]
    BY <1>3, <2>1 DEF GoTo
  <2> QED BY <2>2, <2>3 DEF Goes
<1>4. ASSUME worker[w].pc # "idle", Fails(w)
      PROVE  Goes(w, {"failing"})
  <2>1. PICK n : n = [Idle EXCEPT !.pc = "failing", !.job = worker[w].job]
    OBVIOUS
  <2>2. n \in Memories /\ n.pc = "failing" /\ n.job = worker[w].job
    BY <1>2, <1>4, <2>1 DEF Memories, Idle
  <2>3. worker' = [worker EXCEPT ![w] = n]
    BY <1>4, <2>1 DEF Fails
  <2> QED BY <2>2, <2>3 DEF Goes
<1>5. ASSUME NEW f \in {"NONE", "OK", "FAILED"},
             worker' = [worker EXCEPT ![w] = [@ EXCEPT !.pc = "finalizing", !.found = f]]
      PROVE  Goes(w, {"finalizing"})
  <2>1. PICK n : n = [worker[w] EXCEPT !.pc = "finalizing", !.found = f]
    OBVIOUS
  <2>2. n \in Memories /\ n.pc = "finalizing" /\ n.job = worker[w].job
    BY <1>1, <2>1, FinalMemory
  <2>3. worker' = [worker EXCEPT ![w] = n]
    BY <1>5, <2>1
  <2> QED BY <2>2, <2>3 DEF Goes
<1>6. ASSUME worker[w].pc # "idle", FinalizeAs(w)
      PROVE  Goes(w, {"finalizing"})
  <2>1. Recorded(worker[w].job) \in {"NONE", "OK", "FAILED"}
    BY <1>2, <1>6 DEF Recorded
  <2> QED BY <1>5, <1>6, <2>1 DEF FinalizeAs
<1>7. Start(w) => IF job[worker[w].job].result # "NONE" THEN Goes(w, {"finalizing"})
                   ELSE Leave(w) \/ Goes(w, {"observing"})
  BY <1>2, <1>3, <1>5 DEF Start, Paths
<1>8. ReadToCheck(w) => Goes(w, {"starting"})
  <2> SUFFICES ASSUME ReadToCheck(w)
               PROVE  Goes(w, {"starting"})
    OBVIOUS
  <2>1. PICK n : n = [worker[w] EXCEPT !.pc = "starting", !.ready = ready]
    OBVIOUS
  <2>2. ready \in BOOLEAN
    BY TypeParts DEF OrderTypes
  <2>3. n \in Memories /\ n.pc = "starting" /\ n.job = worker[w].job
    BY <1>1, <2>1, <2>2, ReadMemory
  <2>4. worker' = [worker EXCEPT ![w] = n]
    BY <2>1 DEF ReadToCheck
  <2> QED BY <2>3, <2>4 DEF Goes
<1>9. KeepResult(w) => Goes(w, {"failing", "reviewing", "finalizing"})
  <2> SUFFICES ASSUME KeepResult(w)
               PROVE  Goes(w, {"failing", "reviewing", "finalizing"})
    OBVIOUS
  <2>1. worker[w].pc # "idle"
    BY DEF KeepResult
  <2>2. CASE Fails(w)
    BY <1>4, <2>1, <2>2 DEF Goes
  <2>3. ASSUME NEW f \in {"OK", "FAILED"}, NEW p \in {"reviewing", "finalizing"},
               worker' = [worker EXCEPT ![w] = [Idle EXCEPT !.job = worker[w].job,
                                                            !.found = f, !.pc = p]]
        PROVE  Goes(w, {"failing", "reviewing", "finalizing"})
    <3>1. PICK n : n = [Idle EXCEPT !.job = worker[w].job, !.found = f, !.pc = p]
      OBVIOUS
    <3>2. n \in Memories /\ n.pc = p /\ n.job = worker[w].job
      BY <1>2, <2>1, <3>1 DEF Memories, Idle
    <3>3. worker' = [worker EXCEPT ![w] = n]
      BY <2>3, <3>1
    <3> QED BY <3>2, <3>3 DEF Goes
  <2>4. \A b \in BOOLEAN : Verdict(b) \in {"OK", "FAILED"}
    BY DEF Verdict
  <2> QED BY <2>2, <2>3, <2>4 DEF KeepResult
<1> QED
  BY <1>3, <1>4, <1>6, <1>7, <1>8, <1>9
  DEF Observe, RecordObservation, StartCheck, StepFails, FailRetry, FenceRecovery, ReviewRecovery,
      Goes, Paths

LEMMA WorkerStepTypes ==
    ASSUME TypeOK, Owners, NEW w \in Workers, Process(w) \/ Crash(w)
    PROVE  (TypeOK /\ Owners)'
<1> USE TypeParts, TypePartsNext, SameTypes
<1>1. worker[w].pc # "idle" => worker[w].job \in HealthJobs /\ job[worker[w].job] \in JobRows
  BY DEF JobTypes, Owners
<1>2. worker[w].pc # "idle"
  BY DEF Process, Start, Observe, RecordObservation, ReadToCheck, StartCheck, KeepResult,
         StepFails, FailRetry, FenceRecovery, ReviewRecovery, FailThrows, Finalize, Abandon, Crash
<1>3. WorkerTypes' /\ Owners'
  <2>1. CASE Leave(w)
    BY <2>1, IdleIsMemory, WorkerTyped DEF Leave, Idle
  <2>2. ASSUME NEW ps, Goes(w, ps)
        PROVE  WorkerTypes' /\ Owners'
    BY <1>1, <1>2, <2>2, WorkerTyped DEF Goes
  <2> QED BY <2>1, <2>2, WorkerMoves DEF Process, FailThrows, Finalize, Abandon, Crash
<1>4. ASSUME \/ Start(w) \/ Observe(w) \/ RecordObservation(w) \/ ReadToCheck(w) \/ StepFails(w)
             \/ FenceRecovery(w) \/ FailThrows(w) \/ Abandon(w) \/ Crash(w)
      PROVE  (TypeOK /\ Owners)'
  <2>1. /\ UNCHANGED <<status, flow, check, job, dispatch, keys>>
        /\ ready' = ready \/ ready' \in BOOLEAN
        /\ faults' = faults \/ (faults < MaxFaults /\ faults' = faults + 1)
    BY <1>4 DEF Start, Observe, RecordObservation, ReadToCheck, StepFails, FenceRecovery,
                FailThrows, Abandon, Crash
  <2>2. OrderTypes' /\ JobTypes' /\ DispatchTypes'
    BY <2>1, HealthAssumption DEF OrderTypes
  <2> QED BY <1>3, <2>2
<1>5. ASSUME StartCheck(w)
      PROVE  (TypeOK /\ Owners)'
  <2>1. OrderTypes'
    BY <1>1, <1>2, <1>5 DEF StartCheck, OrderTypes
  <2>2. JobTypes'
    BY <1>1, <1>2, <1>5, JobTyped, JobRowUpdates DEF StartCheck
  <2> QED BY <1>3, <1>5, <2>1, <2>2 DEF StartCheck
<1>6. ASSUME NEW s \in {"CHECK", "OBSERVATION"}, NEW j \in RetryJobs, Leaves(<<s, j>>)
      PROVE  DispatchTypes'
  BY <1>6, SourceParts, DispatchTyped, DispatchRowUpdates DEF Leaves
<1>7. ASSUME KeepResult(w)
      PROVE  (TypeOK /\ Owners)'
  <2>1. PICK healthy \in BOOLEAN :
          LET j == worker[w].job IN
          /\ flow' = IF healthy THEN "WAITING_ADMIN_DELIVERY_APPROVAL" ELSE "HEALTH_CHECK_FAILED"
          /\ status' = IF healthy THEN "PROVISIONING" ELSE "MANUAL_REVIEW"
          /\ check' = [job |-> j, status |-> Verdict(healthy)]
          /\ job' = [job EXCEPT ![j] = [@ EXCEPT !.result = Verdict(healthy)]]
          /\ IF ~healthy /\ j \in RetryJobs THEN Leaves(<<"CHECK", j>>) ELSE dispatch' = dispatch
    BY <1>7 DEF KeepResult
  <2>2. Verdict(healthy) \in {"OK", "FAILED"}
    BY DEF Verdict
  <2>3. OrderTypes'
    BY <1>1, <1>2, <1>7, <2>1, <2>2 DEF KeepResult, OrderTypes
  <2>4. JobTypes'
    BY <1>1, <1>2, <2>1, <2>2, JobTyped, JobRowUpdates
  <2>5. DispatchTypes'
    BY <1>6, <2>1
  <2> QED BY <1>3, <2>3, <2>4, <2>5
<1>8. ASSUME FailRetry(w)
      PROVE  (TypeOK /\ Owners)'
  <2>1. worker[w].job \in RetryJobs
    BY <1>8 DEF FailRetry
  <2>2. OrderTypes'
    BY <1>8 DEF FailRetry, OrderTypes
  <2>3. JobTypes'
    BY <1>1, <1>2, <1>8, JobTyped, JobRowUpdates DEF FailRetry
  <2>4. DispatchTypes'
    BY <1>6, <1>8, <2>1 DEF FailRetry
  <2> QED BY <1>3, <2>2, <2>3, <2>4
<1>9. ASSUME ReviewRecovery(w)
      PROVE  (TypeOK /\ Owners)'
  <2>1. OrderTypes'
    BY <1>9 DEF ReviewRecovery, OrderTypes, ToReview
  <2> QED BY <1>3, <1>9, <2>1 DEF ReviewRecovery
<1>10. ASSUME Finalize(w)
      PROVE  (TypeOK /\ Owners)'
  <2>1. JobTypes'
    BY <1>1, <1>2, <1>10, JobTyped, JobRowUpdates DEF Finalize, Unclaimed
  <2> QED BY <1>3, <1>10, <2>1 DEF Finalize
<1> QED BY <1>4, <1>5, <1>7, <1>8, <1>9, <1>10 DEF Process

LEMMA TypeStep ==
    ASSUME TypeOK, Owners, [Next]_vars
    PROVE  (TypeOK /\ Owners)'
<1>1. CASE Next
  BY <1>1, DispatchStepTypes, ClaimStepTypes, AdminStepTypes, WorkerStepTypes
  DEF Next, HandleDispatch
<1>2. CASE UNCHANGED vars
  BY <1>2, TypeParts, TypePartsNext, SameTypes DEF vars
<1> QED BY <1>1, <1>2

\* The order, its jobs, its dispatches and what the workers hold keep their
\* types: above all, a dispatch is given up before its failures reach the limit
\* (recordHealthRetryDispatchFailure), and no worker works without a job.
THEOREM HealthTypesCorrect == Spec => []TypeOK
<1>1. Init => TypeOK /\ Owners
  BY InitTypes DEF Init, Owners, Idle
<1> QED BY <1>1, TypeStep, PTL DEF Spec

-----------------------------------------------------------------------------
\* The inductive invariant.

\* A worker's claim is the current one of its job, lease or no lease.
Holds(w) ==
    /\ worker[w].pc # "idle"
    /\ job[worker[w].job].status = "RUNNING"
    /\ job[worker[w].job].holder = w

\* At most one health job of an order is at work.
OneActive == \A i, j \in HealthJobs : IsActive(i) /\ IsActive(j) => i = j

\* Retries are made one after another, and only the last one is at work.
InOrder ==
    /\ \A j \in HealthJobs : job[j].status = "NONE" => job[j].result = "NONE"
    /\ \A i, j \in RetryJobs :
         i < j /\ job[j].status # "NONE" => job[i].status # "NONE" /\ ~IsActive(i)

\* What a worker is at, its job's result tells too.
Trying == {"observing", "observed", "checking", "starting", "probing"}
Recording == {"recordingFailure", "recordingResult"}
Places ==
    \A w \in Workers :
      /\ Holds(w) /\ worker[w].pc \in Trying => job[worker[w].job].result = "NONE"
      /\ Holds(w) /\ worker[w].pc = "finalizing" /\ worker[w].job \in RetryJobs
           => job[worker[w].job].result # "NONE"
      /\ worker[w].pc \in Recording => worker[w].job \in RecoveryJobs

\* While a check runs, its job has no result; once it succeeded, every job has one.
Results ==
    /\ flow = "HEALTH_CHECKING" => \A j \in HealthJobs : IsActive(j) => job[j].result = "NONE"
    /\ flow \in {"WAITING_ADMIN_DELIVERY_APPROVAL", "ACTIVE"} =>
         \A j \in HealthJobs : IsActive(j) => job[j].result # "NONE"

\* An order that awaits its delivery, or is delivered, passed its latest check,
\* and the job that made the check says so.
DeliveredIsChecked ==
    flow \in {"WAITING_ADMIN_DELIVERY_APPROVAL", "ACTIVE"} =>
      /\ check.status = "OK"
      /\ check.job \in HealthJobs
      /\ job[check.job].result = "OK"

\* A dispatch of the retry is pending, or was joined to the retry itself.
Told(j) == \E s \in {"CHECK", "OBSERVATION"} :
              dispatch[<<s, j>>].status = "PENDING" \/ dispatch[<<s, j>>].to = j

\* The dispatches of a retry come with its result.
Dispatches ==
    /\ \A j \in RetryJobs, s \in {"CHECK", "OBSERVATION"} :
         job[j].result = "NONE" => dispatch[<<s, j>>].status = "NONE"
    /\ flow = "HEALTH_CHECK_FAILED" =>
         \A j \in RetryJobs : IsActive(j) /\ job[j].result # "NONE" => Told(j)

\* The check of a recovery is the latest one for as long as it matters.
Recovers ==
    flow \in {"HEALTH_CHECKING", "HEALTH_CHECK_FAILED"} =>
      \A j \in RecoveryJobs : IsActive(j) => check.job = j

IInv ==
    /\ TypeOK
    /\ Owners
    /\ OneActive
    /\ InOrder
    /\ Places
    /\ Results
    /\ Dispatches
    /\ Recovers
    /\ DeliveredIsChecked
    /\ FailureIsFollowedUp

-----------------------------------------------------------------------------
\* Facts about steps.

\* What a step does to the jobs: it makes one, or moves the one at work.
Made(j) ==
    \/ j \in RetryJobs /\ Enqueue(RetryJobs, j)
    \/ j \in RecoveryJobs /\ Enqueue(RecoveryJobs, j)
Moved(j) ==
    /\ IsActive(j)
    /\ job'[j].status # "NONE"
    /\ \A i \in HealthJobs \ {j} : job'[i] = job[i]

LEMMA JobOf ==
    ASSUME TypeOK, Owners, NEW w \in Workers, worker[w].pc # "idle"
    PROVE  /\ worker[w].job \in HealthJobs
           /\ job[worker[w].job] \in JobRows
BY TypeParts DEF Owners, JobTypes

LEMMA MadeKeepsOrder ==
    ASSUME TypeOK, OneActive, InOrder, NEW j \in HealthJobs, Made(j)
    PROVE  (OneActive /\ InOrder)'
<1>1. /\ \A i \in HealthJobs : ~IsActive(i)
      /\ job[j].status = "NONE"
      /\ \A i \in HealthJobs : i # j => job'[i] = job[i]
      /\ job'[j].status = "QUEUED" /\ job'[j].result = "NONE"
  BY TypeParts DEF Made, Enqueue, Active, JobTypes, NoJob
<1>2. OneActive'
  BY <1>1 DEF OneActive, IsActive
<1>3. \A i \in HealthJobs : job'[i].status = "NONE" => job'[i].result = "NONE"
  BY <1>1 DEF InOrder
<1>4. ASSUME NEW i \in RetryJobs, NEW k \in RetryJobs, i < k, job'[k].status # "NONE"
      PROVE  job'[i].status # "NONE" /\ ~IsActive(i)'
  <2>1. i \in HealthJobs /\ k \in HealthJobs /\ i # k
    BY <1>4, JobSets DEF RetryJobs
  <2>2. CASE k = j
    <3>1. j \in RetryJobs /\ Enqueue(RetryJobs, j)
      BY <1>4, <2>2, JobSets DEF Made
    <3> QED BY <1>1, <1>4, <2>1, <2>2, <3>1 DEF Enqueue, IsActive
  <2>3. CASE k # j
    <3>1. job[k].status # "NONE"
      BY <1>1, <1>4, <2>1, <2>3
    <3>2. i # j
      BY <1>1, <1>4, <3>1 DEF InOrder
    <3> QED BY <1>1, <1>4, <2>1, <3>1, <3>2 DEF InOrder, IsActive
  <2> QED BY <2>2, <2>3
<1> QED BY <1>2, <1>3, <1>4 DEF InOrder

LEMMA MovedKeepsOrder ==
    ASSUME TypeOK, OneActive, InOrder, NEW j \in HealthJobs, Moved(j)
    PROVE  (OneActive /\ InOrder)'
<1>1. \A i \in HealthJobs : /\ job'[i].status # "NONE" <=> job[i].status # "NONE"
                            /\ IsActive(i)' => IsActive(i)
                            /\ i # j => job'[i] = job[i]
  BY DEF Moved, IsActive
<1>2. OneActive'
  BY <1>1 DEF OneActive
<1>3. InOrder'
  <2>1. \A i \in HealthJobs : job'[i].status = "NONE" => job'[i].result = "NONE"
    BY <1>1 DEF InOrder, Moved
  <2>2. ASSUME NEW i \in RetryJobs, NEW k \in RetryJobs, i < k, job'[k].status # "NONE"
        PROVE  job'[i].status # "NONE" /\ ~IsActive(i)'
    BY <1>1, <2>2, JobSets DEF InOrder
  <2> QED BY <2>1, <2>2 DEF InOrder
<1> QED BY <1>2, <1>3

LEMMA LastAtWork ==
    ASSUME TypeOK, InOrder, NEW j \in RetryJobs, IsActive(j)
    PROVE  IsLastRetry(j)
BY JobSets DEF InOrder, IsLastRetry, IsActive, RetryJobs

\* A retry without a result left no dispatch yet.
Unheard == \A j \in RetryJobs, s \in {"CHECK", "OBSERVATION"} :
               job[j].result = "NONE" => dispatch[<<s, j>>].status = "NONE"

\* At most one worker holds a claim, and no job but its own is at work.
LEMMA SoleHolder ==
    ASSUME TypeOK, Owners, OneActive, NEW w \in Workers, Holds(w)
    PROVE  /\ worker[w].job \in HealthJobs
           /\ IsActive(worker[w].job)
           /\ \A i \in HealthJobs : IsActive(i) => i = worker[w].job
           /\ \A v \in Workers : Holds(v) => v = w
<1>1. worker[w].job \in HealthJobs /\ IsActive(worker[w].job)
  BY JobOf DEF Holds, IsActive
<1>2. \A i \in HealthJobs : IsActive(i) => i = worker[w].job
  BY <1>1 DEF OneActive
<1>3. ASSUME NEW v \in Workers, Holds(v)
      PROVE  v = w
  <2>1. worker[v].job \in HealthJobs /\ IsActive(worker[v].job)
    BY <1>3, JobOf DEF Holds, IsActive
  <2> QED BY <1>2, <1>3, <2>1 DEF Holds
<1> QED BY <1>1, <1>2, <1>3

\* No other worker gets hold of a claim by the step of the one that holds it.
LEMMA SoleHolderNext ==
    ASSUME TypeOK, Owners, OneActive, NEW w \in Workers, Holds(w),
           \A i \in HealthJobs \ {worker[w].job} : job'[i] = job[i],
           job'[worker[w].job].holder \in {w, Nobody},
           \A v \in Workers \ {w} : worker'[v] = worker[v]
    PROVE  \A v \in Workers : Holds(v)' => v = w
<1> SUFFICES ASSUME NEW v \in Workers, v # w, Holds(v)'
             PROVE  FALSE
  OBVIOUS
<1>1. worker'[v] = worker[v] /\ worker[v].pc # "idle" /\ worker[v].job \in HealthJobs
  BY JobOf DEF Holds
<1>2. CASE worker[v].job = worker[w].job
  BY <1>1, <1>2, HealthAssumption DEF Holds
<1>3. CASE worker[v].job # worker[w].job
  <2>1. Holds(v)
    BY <1>1, <1>3 DEF Holds
  <2> QED BY <2>1, SoleHolder
<1> QED BY <1>2, <1>3

\* What Places and its kin become when no job starts, ends or gets a result.
LEMMA QuietSafe ==
    ASSUME IInv, (TypeOK /\ Owners)', UNCHANGED <<flow, check, dispatch>>,
           \A i \in HealthJobs : /\ IsActive(i)' <=> IsActive(i)
                                 /\ job'[i].status = "NONE" <=> job[i].status = "NONE"
                                 /\ job'[i].result = job[i].result,
           Places'
    PROVE  IInv'
<1> USE JobSets
<1>1. OneActive'
  BY DEF IInv, OneActive
<1>2. InOrder'
  BY DEF IInv, InOrder
<1>3. Results'
  BY DEF IInv, Results
<1>4. Dispatches'
  BY DEF IInv, Dispatches, Told
<1>5. Recovers'
  BY DEF IInv, Recovers
<1>6. DeliveredIsChecked'
  BY DEF IInv, DeliveredIsChecked
<1>7. FailureIsFollowedUp'
  <2>1. Orphaned' => Orphaned
    BY DEF Orphaned, Active, PendingDispatch
  <2>2. \A j : IsLastRetry(j)' <=> IsLastRetry(j)
    BY DEF IsLastRetry
  <2> QED BY <2>1, <2>2 DEF IInv, FailureIsFollowedUp
<1> QED BY <1>1, <1>2, <1>3, <1>4, <1>5, <1>6, <1>7 DEF IInv

\* An order that goes to, or is in, review.
LEMMA ReviewSafe ==
    ASSUME IInv, (TypeOK /\ Owners)', flow' = "PROVISIONING_MANUAL_REVIEW",
           (OneActive /\ InOrder /\ Places /\ Unheard)'
    PROVE  IInv'
<1>1. Results' /\ Dispatches' /\ Recovers' /\ DeliveredIsChecked'
  BY DEF Results, Dispatches, Recovers, DeliveredIsChecked, Unheard
<1>2. FailureIsFollowedUp'
  BY DEF FailureIsFollowedUp, Orphaned
<1> QED BY <1>1, <1>2 DEF IInv

\* A dispatch that is closed belongs to a retry with a result.
LEMMA CloseSafe ==
    ASSUME IInv, NEW d \in Sources, dispatch[d].status = "PENDING", NEW to, Close(d, to),
           NEW j \in RetryJobs, NEW s \in {"CHECK", "OBSERVATION"}
    PROVE  /\ job[j].result = "NONE" => dispatch'[<<s, j>>].status = "NONE"
           /\ <<s, j>> # d => dispatch'[<<s, j>>] = dispatch[<<s, j>>]
           /\ <<s, j>> = d => dispatch'[<<s, j>>].to = to
<1>1. <<s, j>> \in Sources
  BY SourceParts
<1>2. job[j].result = "NONE" => dispatch[<<s, j>>].status = "NONE"
  BY DEF IInv, Dispatches
<1> QED BY <1>1, <1>2, TypeParts DEF IInv, Close, DispatchTypes

\* A job is made.
LEMMA MadeSafe ==
    ASSUME IInv, (TypeOK /\ Owners)', NEW j \in HealthJobs, Made(j),
           UNCHANGED <<flow, check, worker>>,
           flow = "PROVISIONING_MANUAL_REVIEW" \/ (flow = "HEALTH_CHECK_FAILED" /\ j \in RetryJobs),
           \/ dispatch' = dispatch
           \/ \E d \in Sources : dispatch[d].status = "PENDING" /\ Close(d, j)
    PROVE  IInv'
<1>1. (OneActive /\ InOrder)'
  BY MadeKeepsOrder DEF IInv
<1>2. /\ \A i \in HealthJobs : ~IsActive(i)
      /\ job[j].status = "NONE" /\ job[j].result = "NONE"
      /\ \A i \in HealthJobs : i # j => job'[i] = job[i]
      /\ job'[j].status = "QUEUED" /\ job'[j].result = "NONE"
  BY TypeParts DEF Made, Enqueue, Active, JobTypes, NoJob, IInv, InOrder
<1>3. \A w \in Workers : ~Holds(w)'
  BY <1>2, JobOf DEF Holds, IInv, IsActive
<1>4. Places'
  BY <1>3 DEF IInv, Places
<1>5. Unheard'
  <2>1. \A i \in RetryJobs : job'[i].result = "NONE" => job[i].result = "NONE"
    BY <1>2, JobSets
  <2> QED BY <2>1, CloseSafe DEF Unheard, IInv, Dispatches
<1>6. CASE flow = "PROVISIONING_MANUAL_REVIEW"
  BY <1>1, <1>4, <1>5, <1>6, ReviewSafe
<1>7. CASE flow = "HEALTH_CHECK_FAILED" /\ j \in RetryJobs
  <2>1. \A i \in HealthJobs : IsActive(i)' => i = j
    BY <1>2 DEF IsActive
  <2>2. IsActive(j)'
    BY <1>2 DEF IsActive
  <2>3. Results' /\ DeliveredIsChecked'
    BY <1>7 DEF Results, DeliveredIsChecked
  <2>4. Dispatches' /\ Recovers'
    BY <1>2, <1>5, <1>7, <2>1, JobSets DEF Dispatches, Recovers, Unheard
  <2>5. FailureIsFollowedUp'
    BY <2>2 DEF FailureIsFollowedUp, Orphaned, Active
  <2> QED BY <1>1, <1>4, <2>3, <2>4, <2>5 DEF IInv
<1> QED BY <1>6, <1>7

LEMMA DispatchSafe ==
    ASSUME IInv, NEW d \in Sources,
           DispatchRetry(d) \/ DispatchEnds(d) \/ DispatchIsInvalid(d) \/ DispatchFails(d)
    PROVE  IInv'
<1>1. (TypeOK /\ Owners)'
  BY DispatchStepTypes DEF IInv
<1>2. dispatch[d].status = "PENDING" /\ UNCHANGED <<ready, check, worker, faults>>
  BY DEF DispatchRetry, DispatchEnds, DispatchIsInvalid, DispatchFails, Due
\* The same jobs, and some dispatch of the state before.
<1>3. ASSUME job' = job
      PROVE  (OneActive /\ InOrder /\ Places)'
  BY <1>2, <1>3 DEF IInv, OneActive, InOrder, Places, IsActive, Holds
<1>4. ASSUME job' = job, NEW to, Close(d, to)
      PROVE  Unheard'
  BY <1>2, <1>4, CloseSafe DEF Unheard
<1>5. ASSUME job' = job, flow' = "PROVISIONING_MANUAL_REVIEW", NEW to, Close(d, to)
      PROVE  IInv'
  BY <1>1, <1>3, <1>4, <1>5, ReviewSafe
<1>6. ASSUME job' = job, flow' = flow, flow # "HEALTH_CHECK_FAILED", Close(d, 0)
      PROVE  IInv'
  <2>1. (Results /\ Recovers /\ DeliveredIsChecked)'
    BY <1>2, <1>6 DEF IInv, Results, Recovers, DeliveredIsChecked, IsActive, Holds
  <2>2. Dispatches' /\ FailureIsFollowedUp'
    BY <1>4, <1>6 DEF Dispatches, FailureIsFollowedUp, Orphaned, Unheard
  <2> QED BY <1>1, <1>3, <1>6, <2>1, <2>2 DEF IInv
<1>7. ASSUME DispatchRetry(d)
      PROVE  IInv'
  <2>1. flow = "HEALTH_CHECK_FAILED"
    BY <1>7 DEF DispatchRetry
  <2>2. ASSUME NEW k \in RetryJobs, IsActive(k), Close(d, k), UNCHANGED <<status, flow, job, keys>>
        PROVE  IInv'
    <3>1. (Results /\ Recovers /\ DeliveredIsChecked)'
      BY <1>2, <2>1, <2>2 DEF IInv, Results, Recovers, DeliveredIsChecked, IsActive
    <3>2. ASSUME NEW i \in RetryJobs, IsActive(i)', job'[i].result # "NONE"
          PROVE  Told(i)'
      <4>1. i = k
        BY <2>2, <3>2, JobSets DEF IInv, OneActive, IsActive
      <4>2. PICK s \in {"CHECK", "OBSERVATION"} :
              dispatch[<<s, i>>].status = "PENDING" \/ dispatch[<<s, i>>].to = i
        BY <2>1, <2>2, <3>2 DEF IInv, Dispatches, Told, IsActive
      <4>3. CASE <<s, i>> = d
        BY <1>2, <2>2, <4>1, <4>3, CloseSafe DEF Told
      <4>4. CASE <<s, i>> # d
        BY <1>2, <2>2, <4>2, <4>4, CloseSafe DEF Told
      <4> QED BY <4>3, <4>4
    <3>3. Dispatches'
      BY <1>4, <2>2, <3>2 DEF Dispatches, Unheard
    <3>4. FailureIsFollowedUp'
      BY <2>2, JobSets DEF FailureIsFollowedUp, Orphaned, Active, IsActive
    <3> QED BY <1>1, <1>3, <2>2, <3>1, <3>3, <3>4 DEF IInv
  <2>3. ASSUME NEW k \in RetryJobs, Enqueue(RetryJobs, k), Close(d, k),
               UNCHANGED <<status, flow, keys>>
        PROVE  IInv'
    BY <1>1, <1>2, <2>1, <2>3, MadeSafe, JobSets DEF Made
  <2>4. ASSUME LimitReview, Close(d, 0), job' = job
        PROVE  IInv'
    BY <1>5, <2>4 DEF LimitReview, ToReview
  <2> QED BY <1>7, <2>2, <2>3, <2>4 DEF DispatchRetry
<1>8. ASSUME job' = job, DeadLetter(d), flow # "HEALTH_CHECK_FAILED" \/ Reviewable
      PROVE  IInv'
  BY <1>5, <1>6, <1>8 DEF DeadLetter, ToReview
<1>9. ASSUME DispatchEnds(d) \/ DispatchIsInvalid(d)
      PROVE  IInv'
  BY <1>6, <1>8, <1>9 DEF DispatchEnds, DispatchIsInvalid
<1>10. ASSUME DispatchFails(d)
      PROVE  IInv'
  <2>1. CASE DeadLetter(d)
    BY <1>8, <1>10, <2>1 DEF DispatchFails, Reviewable
  <2>2. CASE dispatch' = [dispatch EXCEPT ![d].failures = @ + 1] /\ UNCHANGED <<status, flow>>
    <3>1. \A e \in Sources : /\ dispatch'[e].status = dispatch[e].status
                             /\ dispatch'[e].to = dispatch[e].to
      BY <2>2, TypeParts DEF IInv, DispatchTypes, DispatchRows
    <3>2. job' = job
      BY <1>10 DEF DispatchFails
    <3>3. (Results /\ Recovers /\ DeliveredIsChecked)'
      BY <1>2, <2>2, <3>2 DEF IInv, Results, Recovers, DeliveredIsChecked, IsActive, Holds
    <3>4. Dispatches'
      BY <2>2, <3>1, <3>2, SourceParts DEF IInv, Dispatches, Told, IsActive
    <3>5. FailureIsFollowedUp'
      BY <1>2, <3>1 DEF FailureIsFollowedUp, Orphaned, PendingDispatch
    <3> QED BY <1>1, <1>3, <3>2, <3>3, <3>4, <3>5 DEF IInv
  <2> QED BY <1>10, <2>1, <2>2 DEF DispatchFails
<1> QED BY <1>7, <1>9, <1>10

LEMMA ClaimSafe ==
    ASSUME IInv,
           \/ \E j \in HealthJobs : ExpireLease(j) \/ RecoverExpired(j)
           \/ \E w \in Workers, j \in HealthJobs : Claim(w, j)
    PROVE  IInv'
<1>1. (TypeOK /\ Owners)'
  BY ClaimStepTypes DEF IInv
<1>2. /\ job \in [HealthJobs -> JobRows]
      /\ worker \in [Workers -> Memories]
  BY TypeParts DEF IInv, JobTypes, WorkerTypes
<1>3. ASSUME NEW j \in HealthJobs, ExpireLease(j) \/ RecoverExpired(j)
      PROVE  IInv'
  <2>1. /\ \A i \in HealthJobs : /\ IsActive(i)' <=> IsActive(i)
                                 /\ job'[i].status = "NONE" <=> job[i].status = "NONE"
                                 /\ job'[i].result = job[i].result
                                 /\ job'[i].status = "RUNNING" => job'[i].holder = job[i].holder
                                                                   /\ job[i].status = "RUNNING"
      /\ UNCHANGED <<flow, ready, check, dispatch, worker>>
    <3>1. /\ \A i \in HealthJobs \ {j} : job'[i] = job[i]
          /\ job[j].status = "RUNNING"
          /\ \/ job'[j] = [job[j] EXCEPT !.leased = FALSE]
             \/ job'[j] = [job[j] EXCEPT !.status = "QUEUED", !.holder = Nobody, !.leased = FALSE]
      BY <1>2, <1>3 DEF ExpireLease, RecoverExpired, Unclaimed
    <3>2. /\ job'[j].status \in {"RUNNING", "QUEUED"}
          /\ job'[j].status = "RUNNING" => job'[j].holder = job[j].holder
          /\ job'[j].result = job[j].result
      BY <1>2, <3>1 DEF JobRows
    <3> QED BY <1>3, <3>1, <3>2 DEF ExpireLease, RecoverExpired, IsActive
  <2>2. \A w \in Workers : Holds(w)' => Holds(w) /\ worker[w].job \in HealthJobs
    BY <2>1, JobOf DEF Holds, IInv
  <2>3. Places'
    BY <2>1, <2>2 DEF IInv, Places
  <2> QED BY <1>1, <2>1, <2>3, QuietSafe
<1>4. ASSUME NEW w \in Workers, NEW j \in HealthJobs, Claim(w, j)
      PROVE  IInv'
  <2>1. /\ \A i \in HealthJobs : /\ IsActive(i)' <=> IsActive(i)
                                 /\ job'[i].status = "NONE" <=> job[i].status = "NONE"
                                 /\ job'[i].result = job[i].result
                                 /\ i # j => job'[i] = job[i]
      /\ job'[j].holder = w
      /\ UNCHANGED <<flow, ready, check, dispatch>>
    <3>1. /\ \A i \in HealthJobs \ {j} : job'[i] = job[i]
          /\ job[j].status = "QUEUED"
          /\ job'[j] = [job[j] EXCEPT !.status = "RUNNING", !.holder = w, !.leased = TRUE]
      BY <1>2, <1>4 DEF Claim
    <3>2. job'[j].status = "RUNNING" /\ job'[j].holder = w /\ job'[j].result = job[j].result
      BY <1>2, <3>1 DEF JobRows
    <3>3. \A i \in HealthJobs : /\ IsActive(i)' <=> IsActive(i)
                                /\ job'[i].status = "NONE" <=> job[i].status = "NONE"
                                /\ job'[i].result = job[i].result
      BY <3>1, <3>2 DEF IsActive
    <3>4. UNCHANGED <<flow, ready, check, dispatch>>
      BY <1>4 DEF Claim
    <3> QED BY <3>1, <3>2, <3>3, <3>4
  <2>2. /\ \A v \in Workers \ {w} : worker'[v] = worker[v]
        /\ worker'[w].pc = "claimed"
    BY <1>2, <1>4 DEF Claim, Idle
  <2>3. \A v \in Workers \ {w} : Holds(v)' => Holds(v) /\ worker[v].job \in HealthJobs
    BY <2>1, <2>2, JobOf DEF Holds, IInv
  <2>4. Places'
    BY <2>1, <2>2, <2>3 DEF IInv, Places, Trying, Recording
  <2> QED BY <1>1, <2>1, <2>4, QuietSafe
<1> QED BY <1>3, <1>4

LEMMA AdminSafe ==
    ASSUME IInv, Admin
    PROVE  IInv'
<1>1. (TypeOK /\ Owners)'
  BY AdminStepTypes DEF IInv
<1>2. UNCHANGED <<check, dispatch, worker, faults>>
  BY DEF Admin, AdminRetry, AdminObserve, AdminRecover, ApproveDelivery, SetAside
<1>3. ASSUME job' = job
      PROVE  /\ (OneActive /\ InOrder /\ Places /\ Unheard)'
             /\ \A i \in HealthJobs : IsActive(i)' <=> IsActive(i)
  BY <1>2, <1>3 DEF IInv, OneActive, InOrder, Places, Dispatches, Unheard, IsActive, Holds
<1>4. CASE AdminRetry
  <2>1. ASSUME NEW j \in RetryJobs, Enqueue(RetryJobs, j), flow' = flow
        PROVE  IInv'
    BY <1>1, <1>2, <1>4, <2>1, MadeSafe, JobSets DEF Made, AdminRetry
  <2>2. ASSUME LimitReview, job' = job
        PROVE  IInv'
    BY <1>1, <1>3, <2>2, ReviewSafe DEF LimitReview, ToReview
  <2> QED BY <1>4, <2>1, <2>2 DEF AdminRetry
<1>5. CASE AdminObserve
  BY <1>1, <1>3, <1>5, ReviewSafe DEF AdminObserve, InReview
<1>6. CASE AdminRecover
  <2>1. PICK j \in RecoveryJobs : Enqueue(RecoveryJobs, j)
    BY <1>6 DEF AdminRecover
  <2> QED BY <1>1, <1>2, <1>6, <2>1, MadeSafe, JobSets DEF Made, AdminRecover, InReview
<1>7. CASE ApproveDelivery
  <2>1. /\ flow = "WAITING_ADMIN_DELIVERY_APPROVAL" /\ flow' = "ACTIVE"
        /\ UNCHANGED <<ready, job>>
    BY <1>7 DEF ApproveDelivery, Deliverable
  <2>2. (Results /\ Dispatches /\ Recovers /\ DeliveredIsChecked)'
    BY <1>2, <1>3, <2>1 DEF IInv, Results, Dispatches, Recovers, DeliveredIsChecked, Unheard
  <2>3. FailureIsFollowedUp'
    BY <2>1 DEF FailureIsFollowedUp, Orphaned
  <2> QED BY <1>1, <1>3, <2>1, <2>2, <2>3 DEF IInv
<1>8. ASSUME NEW key \in {"held", "blocked"}, SetAside(key)
      PROVE  IInv'
  <2>1. /\ flow = "WAITING_ADMIN_DELIVERY_APPROVAL" /\ UNCHANGED <<ready, job>>
        /\ flow' = flow \/ flow' = "PROVISIONING_MANUAL_REVIEW"
    BY <1>8 DEF SetAside, Deliverable
  <2>2. CASE flow' = flow
    BY <1>1, <1>2, <1>3, <2>1, <2>2, QuietSafe
  <2>3. CASE flow' = "PROVISIONING_MANUAL_REVIEW"
    BY <1>1, <1>3, <2>1, <2>3, ReviewSafe
  <2> QED BY <2>1, <2>2, <2>3
<1> QED BY <1>4, <1>5, <1>6, <1>7, <1>8 DEF Admin

\* A step of a worker that goes on with its job, and writes no job.
LEMMA GoingPlaces ==
    ASSUME IInv, NEW w \in Workers, worker[w].pc # "idle", NEW ps, Goes(w, ps), job' = job,
           ps \cap Trying # {} /\ Holds(w) => job[worker[w].job].result = "NONE",
           "finalizing" \in ps /\ Holds(w) /\ worker[w].job \in RetryJobs
             => job[worker[w].job].result # "NONE",
           ps \cap Recording # {} => worker[w].job \in RecoveryJobs
    PROVE  Places'
<1>1. PICK m \in Memories : /\ m.pc \in ps
                            /\ m.job = worker[w].job
                            /\ worker' = [worker EXCEPT ![w] = m]
  BY DEF Goes
<1>2. worker'[w] = m /\ \A v \in Workers \ {w} : worker'[v] = worker[v]
  BY <1>1, TypeParts DEF IInv, WorkerTypes
<1>3. \A v \in Workers : Holds(v)' => Holds(v)
  BY <1>1, <1>2 DEF Holds
<1>4. ASSUME NEW v \in Workers, v # w
      PROVE  /\ Holds(v)' /\ worker'[v].pc \in Trying => job'[worker'[v].job].result = "NONE"
             /\ Holds(v)' /\ worker'[v].pc = "finalizing" /\ worker'[v].job \in RetryJobs
                  => job'[worker'[v].job].result # "NONE"
             /\ worker'[v].pc \in Recording => worker'[v].job \in RecoveryJobs
  BY <1>2, <1>3, <1>4 DEF IInv, Places
<1>5. /\ Holds(w)' /\ worker'[w].pc \in Trying => job'[worker'[w].job].result = "NONE"
      /\ Holds(w)' /\ worker'[w].pc = "finalizing" /\ worker'[w].job \in RetryJobs
           => job'[worker'[w].job].result # "NONE"
      /\ worker'[w].pc \in Recording => worker'[w].job \in RecoveryJobs
  BY <1>1, <1>2, <1>3
<1> QED BY <1>4, <1>5 DEF Places

LEMMA LeavingPlaces ==
    ASSUME IInv, NEW w \in Workers, Leave(w), job' = job
    PROVE  Places'
<1>1. worker'[w].pc = "idle" /\ \A v \in Workers \ {w} : worker'[v] = worker[v]
  BY TypeParts DEF IInv, WorkerTypes, Leave, Idle
<1>2. \A v \in Workers : Holds(v)' => Holds(v) /\ v # w
  BY <1>1 DEF Holds
<1> QED BY <1>1, <1>2 DEF IInv, Places, Recording

\* The steps that write nothing but an observation, with the claim or without.
LEMMA QuietStep ==
    ASSUME IInv, NEW w \in Workers,
           \/ Start(w) \/ Observe(w) \/ RecordObservation(w) \/ ReadToCheck(w) \/ StepFails(w)
           \/ StartCheck(w) /\ job[worker[w].job].started
           \/ FenceRecovery(w) \/ FailThrows(w) \/ Abandon(w) \/ Crash(w)
    PROVE  IInv'
<1>1. (TypeOK /\ Owners)'
  BY WorkerStepTypes DEF IInv, Process
<1>2. UNCHANGED <<flow, check, dispatch, job>> /\ worker[w].pc # "idle"
  BY DEF Start, Observe, RecordObservation, ReadToCheck, StepFails, StartCheck, FenceRecovery,
         FailThrows, Abandon, Crash
<1>3. TypeOK /\ Owners /\ Places
  BY DEF IInv
<1>4. CASE Leave(w)
  BY <1>2, <1>4, LeavingPlaces, <1>1, QuietSafe DEF IsActive
<1>5. ASSUME Places'
      PROVE  IInv'
  BY <1>1, <1>2, <1>5, QuietSafe DEF IsActive
<1>6. CASE Start(w)
  BY <1>2, <1>3, <1>4, <1>5, <1>6, WorkerMoves, GoingPlaces DEF Trying, Recording
<1>7. CASE StepFails(w)
  BY <1>2, <1>3, <1>5, <1>7, WorkerMoves, GoingPlaces DEF Trying, Recording
<1>8. CASE FenceRecovery(w)
  BY <1>2, <1>3, <1>5, <1>8, WorkerMoves, GoingPlaces DEF Trying, Recording, FenceRecovery
<1>9. CASE \/ Observe(w) \/ RecordObservation(w) \/ ReadToCheck(w)
           \/ StartCheck(w) /\ job[worker[w].job].started
  <2>1. worker[w].pc \in Trying
    BY <1>9 DEF Observe, RecordObservation, ReadToCheck, StartCheck, Trying
  <2>2. Holds(w) => job[worker[w].job].result = "NONE"
    BY <1>3, <2>1 DEF Places
  <2>3. PICK p \in Trying : Goes(w, {p})
    BY <1>3, <1>9, WorkerMoves DEF Trying
  <2> QED BY <1>2, <1>5, <2>2, <2>3, GoingPlaces DEF Trying, Recording
<1> QED BY <1>4, <1>6, <1>7, <1>8, <1>9 DEF FailThrows, Abandon, Crash

\* A recovery puts the order to review, with the claim or without.
LEMMA ReviewStep ==
    ASSUME IInv, NEW w \in Workers, ReviewRecovery(w)
    PROVE  IInv'
<1>1. (TypeOK /\ Owners)'
  BY WorkerStepTypes DEF IInv, Process
<1>2. /\ job' = job /\ dispatch' = dispatch /\ flow' = "PROVISIONING_MANUAL_REVIEW"
      /\ worker[w].pc # "idle" /\ worker[w].job \in RecoveryJobs
  BY DEF IInv, Places, Recording, ReviewRecovery, ToReview
<1>3. Places'
  <2>1. CASE Leave(w)
    BY <1>2, <2>1, LeavingPlaces
  <2>2. CASE Goes(w, {"finalizing"})
    BY <1>2, <2>2, GoingPlaces, JobSets DEF Trying, Recording
  <2> QED BY <2>1, <2>2, WorkerMoves DEF IInv
<1>4. (OneActive /\ InOrder /\ Unheard)'
  BY <1>2 DEF IInv, OneActive, InOrder, IsActive, Dispatches, Unheard
<1> QED BY <1>1, <1>2, <1>3, <1>4, ReviewSafe

\* The steps of a worker that holds its claim and write the job.
LEMMA WorkingSafe ==
    ASSUME IInv, NEW w \in Workers, Fenced(w), NEW j, worker[w].job = j,
           \/ StartCheck(w) /\ ~job[j].started
           \/ KeepResult(w) \/ FailRetry(w) \/ Finalize(w)
    PROVE  IInv'
<1>1. (TypeOK /\ Owners)'
  BY WorkerStepTypes DEF IInv, Process
<1>2. /\ Holds(w) /\ j \in HealthJobs /\ IsActive(j) /\ job[j] \in JobRows
      /\ job[j].status = "RUNNING" /\ job[j].holder = w
      /\ \A i \in HealthJobs : IsActive(i) => i = j
  BY SoleHolder, JobOf DEF IInv, Holds, Fenced
<1>3. job \in [HealthJobs -> JobRows] /\ worker \in [Workers -> Memories] /\ worker[w] \in Memories
  BY TypeParts DEF IInv, JobTypes, WorkerTypes
\* Who holds a claim when the worker went on, and the job was written.
<1>4. ASSUME NEW ps, Goes(w, ps)
      PROVE  /\ \A v \in Workers \ {w} : worker'[v] = worker[v]
             /\ worker'[w].pc \in ps /\ worker'[w].job = j
  BY <1>3, <1>4 DEF Goes
<1>5. ASSUME NEW ps, Goes(w, ps), ps \cap Recording = {},
             \A i \in HealthJobs \ {j} : job'[i] = job[i], job'[j].holder = w,
             \/ job'[j].result = "NONE" /\ "finalizing" \notin ps
             \/ job'[j].result # "NONE" /\ ps \cap Trying = {}
      PROVE  Places'
  <2>1. \A v \in Workers : Holds(v)' => v = w
    BY <1>2, <1>4, <1>5, SoleHolderNext DEF IInv
  <2>2. \A v \in Workers : worker'[v].pc \in Recording => v # w
    BY <1>4, <1>5
  <2> QED BY <1>4, <1>5, <2>1, <2>2 DEF IInv, Places
\* The steps that write the job.
<1>6. ASSUME NEW r \in JobRows, job' = [job EXCEPT ![j] = r], r.status # "NONE"
       PROVE  /\ \A i \in HealthJobs \ {j} : job'[i] = job[i]
              /\ job'[j] = r
              /\ (OneActive /\ InOrder)'
              /\ \A i \in HealthJobs : IsActive(i)' => i = j
  <2>1. /\ \A i \in HealthJobs \ {j} : job'[i] = job[i]
        /\ job'[j] = r
    BY <1>2, <1>3, <1>6
  <2>2. Moved(j)
    BY <1>2, <1>6, <2>1 DEF Moved
  <2>3. (OneActive /\ InOrder)'
    BY <1>2, <2>2, MovedKeepsOrder DEF IInv
  <2>4. \A i \in HealthJobs : IsActive(i)' => i = j
    BY <1>2, <2>1 DEF IsActive
  <2> QED BY <2>1, <2>3, <2>4
<1>7. CASE StartCheck(w) /\ ~job[j].started
  <2> DEFINE r == [job[j] EXCEPT !.started = TRUE]
  <2>1. r \in JobRows
    BY <1>2, JobRowUpdates
  <2>2. r.status = "RUNNING" /\ r.holder = w /\ r.result = job[j].result
    BY <1>2 DEF JobRows
  <2>3. /\ job' = [job EXCEPT ![j] = r]
        /\ flow' = "HEALTH_CHECKING" /\ check' = [job |-> j, status |-> "RUNNING"]
        /\ worker[w].pc = "starting" /\ dispatch' = dispatch
    BY <1>7 DEF StartCheck
  <2>4. /\ \A i \in HealthJobs \ {j} : job'[i] = job[i]
        /\ job'[j] = r
        /\ (OneActive /\ InOrder)'
        /\ \A i \in HealthJobs : IsActive(i)' => i = j
    BY <1>6, <2>1, <2>2, <2>3
  <2>5. job[j].result = "NONE"
    BY <1>2, <2>3 DEF IInv, Places, Trying
  <2>6. Places'
    <3>1. Goes(w, {"probing"})
      BY <1>7, WorkerMoves DEF IInv
    <3> QED BY <1>5, <2>2, <2>4, <2>5, <3>1 DEF Trying, Recording
  <2>7. (Results /\ Recovers /\ DeliveredIsChecked /\ FailureIsFollowedUp)'
    BY <2>2, <2>3, <2>4, <2>5, JobSets
    DEF Results, Recovers, DeliveredIsChecked, FailureIsFollowedUp, Orphaned
  <2>8. \A i \in HealthJobs : job'[i].result = job[i].result
    BY <2>2, <2>4
  <2>9. Dispatches'
    BY <2>3, <2>8, JobSets DEF IInv, Dispatches
  <2> QED BY <1>1, <2>4, <2>6, <2>7, <2>9 DEF IInv
\* A retry's result and the dispatch that is written with it.
<1>8. ASSUME j \in RetryJobs, NEW s \in {"CHECK", "OBSERVATION"}, Leaves(<<s, j>>)
       PROVE  /\ \A e \in Sources : e # <<s, j>> => dispatch'[e] = dispatch[e]
              /\ job[j].result = "NONE" => dispatch'[<<s, j>>].status = "PENDING"
              /\ Told(j) => Told(j)'
  <2>1. <<s, j>> \in Sources /\ dispatch \in [Sources -> DispatchRows]
    BY <1>8, SourceParts, TypeParts DEF IInv, DispatchTypes
  <2>2. \/ dispatch' = dispatch /\ dispatch[<<s, j>>].status # "NONE"
        \/ /\ dispatch' = [dispatch EXCEPT ![<<s, j>>] = Pending]
           /\ dispatch[<<s, j>>].status = "NONE"
    BY <1>8 DEF Leaves
  <2>3. \A e \in Sources : e # <<s, j>> => dispatch'[e] = dispatch[e]
    BY <2>1, <2>2
  <2>4. job[j].result = "NONE" => dispatch[<<s, j>>].status = "NONE"
    BY <1>8 DEF IInv, Dispatches
  <2>5. \/ dispatch' = dispatch
        \/ dispatch'[<<s, j>>].status = "PENDING"
    BY <2>1, <2>2 DEF Pending, NoDispatch
  <2>6. Told(j) => Told(j)'
    BY <2>5 DEF Told
  <2>7. job[j].result = "NONE" => dispatch'[<<s, j>>].status = "PENDING"
    BY <2>1, <2>2, <2>4 DEF Pending, NoDispatch
  <2> QED BY <2>3, <2>6, <2>7
\* What a failed check of the job leaves, when it is written.
<1>9. ASSUME flow' = "HEALTH_CHECK_FAILED", (OneActive /\ InOrder /\ Places)',
              \A i \in HealthJobs \ {j} : job'[i] = job[i],
              job'[j].status = "RUNNING", job'[j].result = "FAILED",
              \A i \in HealthJobs : IsActive(i)' => i = j,
              \A i \in RetryJobs, s \in {"CHECK", "OBSERVATION"} :
                i # j => dispatch'[<<s, i>>] = dispatch[<<s, i>>],
              j \in RetryJobs => Told(j)',
              j \in RecoveryJobs => check'.job = j
       PROVE  IInv'
  <2>1. (Results /\ DeliveredIsChecked)'
    BY <1>9 DEF Results, DeliveredIsChecked
  <2>2. Dispatches'
    <3>1. \A i \in RetryJobs, s \in {"CHECK", "OBSERVATION"} :
            job'[i].result = "NONE" => dispatch'[<<s, i>>].status = "NONE"
      <4> SUFFICES ASSUME NEW i \in RetryJobs, NEW s \in {"CHECK", "OBSERVATION"},
                          job'[i].result = "NONE"
                   PROVE  dispatch'[<<s, i>>].status = "NONE"
        OBVIOUS
      <4>1. i # j
        BY <1>9
      <4>2. job'[i] = job[i] /\ dispatch'[<<s, i>>] = dispatch[<<s, i>>]
        BY <1>9, <4>1, JobSets
      <4> QED BY <4>2 DEF IInv, Dispatches
    <3>2. \A i \in RetryJobs : IsActive(i)' => Told(i)'
      <4> SUFFICES ASSUME NEW i \in RetryJobs, IsActive(i)'
                   PROVE  Told(i)'
        OBVIOUS
      <4>1. i = j
        BY <1>9, JobSets
      <4> QED BY <1>9, <4>1 DEF Told
    <3> QED BY <3>1, <3>2 DEF Dispatches
  <2>3. Recovers'
    BY <1>9, JobSets DEF Recovers
  <2>4. FailureIsFollowedUp'
    BY <1>2, <1>9 DEF FailureIsFollowedUp, Orphaned, Active, IsActive
  <2> QED BY <1>1, <1>9, <2>1, <2>2, <2>3, <2>4 DEF IInv
<1>10. CASE KeepResult(w)
  <2>1. PICK healthy \in BOOLEAN :
          /\ flow' = IF healthy THEN "WAITING_ADMIN_DELIVERY_APPROVAL" ELSE "HEALTH_CHECK_FAILED"
          /\ check' = [job |-> j, status |-> Verdict(healthy)]
          /\ job' = [job EXCEPT ![j] = [@ EXCEPT !.result = Verdict(healthy)]]
          /\ IF ~healthy /\ j \in RetryJobs THEN Leaves(<<"CHECK", j>>) ELSE dispatch' = dispatch
    BY <1>10 DEF KeepResult
  <2>2. /\ worker[w].pc = "probing" /\ flow = "HEALTH_CHECKING"
    BY <1>10 DEF KeepResult
  <2> DEFINE r == [job[j] EXCEPT !.result = Verdict(healthy)]
  <2>3. Verdict(healthy) \in {"OK", "FAILED"}
    BY DEF Verdict
  <2>4. r \in JobRows /\ r.status = "RUNNING" /\ r.holder = w /\ r.result = Verdict(healthy)
    <3>1. r \in JobRows
      BY <1>2, <2>3, JobRowUpdates
    <3>2. r.status = "RUNNING" /\ r.holder = w /\ r.result = Verdict(healthy)
      BY <1>2 DEF JobRows
    <3> QED BY <3>1, <3>2
  <2>5. job' = [job EXCEPT ![j] = r]
    BY <2>1
  <2>6. /\ \A i \in HealthJobs \ {j} : job'[i] = job[i]
        /\ job'[j] = r
        /\ (OneActive /\ InOrder)'
        /\ \A i \in HealthJobs : IsActive(i)' => i = j
    BY <1>6, <2>4, <2>5
  <2>7. Places'
    <3>1. Goes(w, {"failing", "reviewing", "finalizing"})
      BY <1>10, WorkerMoves DEF IInv
    <3> QED BY <1>5, <2>3, <2>4, <2>6, <3>1 DEF Trying, Recording
  <2>8. job[j].result = "NONE"
    BY <1>2, <2>2 DEF IInv, Places, Trying
  <2>9. CASE healthy
    <3>1. flow' = "WAITING_ADMIN_DELIVERY_APPROVAL" /\ dispatch' = dispatch
      BY <2>1, <2>9
    <3>2. check'.status = "OK" /\ check'.job = j /\ job'[j].result = "OK"
      BY <2>1, <2>4, <2>6, <2>9 DEF Verdict
    <3>3. Results'
      BY <2>3, <2>4, <2>6, <3>1 DEF Results
    <3>4. Dispatches'
      BY <2>3, <2>4, <2>6, <3>1, JobSets DEF IInv, Dispatches
    <3>5. (Recovers /\ DeliveredIsChecked /\ FailureIsFollowedUp)'
      BY <1>2, <3>1, <3>2 DEF Recovers, DeliveredIsChecked, FailureIsFollowedUp, Orphaned
    <3> QED BY <1>1, <2>6, <2>7, <3>3, <3>4, <3>5 DEF IInv
  <2>10. CASE ~healthy
    <3>1. /\ flow' = "HEALTH_CHECK_FAILED" /\ Verdict(healthy) = "FAILED"
          /\ j \in RetryJobs => Leaves(<<"CHECK", j>>)
          /\ j \notin RetryJobs => dispatch' = dispatch
      BY <2>1, <2>10 DEF Verdict
    <3>2. ASSUME j \in RetryJobs
          PROVE  Told(j)'
      BY <1>8, <2>8, <3>1, <3>2 DEF Told
    <3>3. \A i \in RetryJobs, s \in {"CHECK", "OBSERVATION"} :
            i # j => dispatch'[<<s, i>>] = dispatch[<<s, i>>]
      BY <1>8, <3>1, SourceParts
    <3>4. check'.job = j
      BY <2>1
    <3> QED BY <1>9, <2>4, <2>6, <2>7, <3>1, <3>2, <3>3, <3>4
  <2> QED BY <2>9, <2>10
<1>11. CASE FailRetry(w)
  <2>1. /\ j \in RetryJobs /\ Goes(w, {"finalizing"})
        /\ UNCHANGED <<status, ready, check, keys, faults>>
    BY <1>11, WorkerMoves DEF FailRetry, IInv
  <2>2. CASE flow = "ACTIVE" /\ UNCHANGED <<flow, job, dispatch>>
    <3>1. job[j].result # "NONE"
      BY <1>2, <2>2 DEF IInv, Results
    <3>2. Places'
      BY <1>2, <1>5, <2>1, <2>2, <3>1 DEF Trying, Recording
    <3> QED BY <1>1, <2>1, <2>2, <3>2, QuietSafe DEF IsActive
  <2>3. CASE /\ flow \in {"HEALTH_CHECKING", "HEALTH_CHECK_FAILED"}
             /\ flow' = "HEALTH_CHECK_FAILED"
             /\ job' = [job EXCEPT ![j] = [@ EXCEPT !.result = "FAILED"]]
             /\ Leaves(<<"OBSERVATION", j>>)
    <3> DEFINE r == [job[j] EXCEPT !.result = "FAILED"]
    <3>1. r \in JobRows /\ r.status = "RUNNING" /\ r.holder = w /\ r.result = "FAILED"
      <4>1. r \in JobRows
        BY <1>2, JobRowUpdates
      <4>2. r.status = "RUNNING" /\ r.holder = w /\ r.result = "FAILED"
        BY <1>2 DEF JobRows
      <4> QED BY <4>1, <4>2
    <3>2. job' = [job EXCEPT ![j] = r]
      BY <2>3
    <3>3. /\ \A i \in HealthJobs \ {j} : job'[i] = job[i]
          /\ job'[j] = r
          /\ (OneActive /\ InOrder)'
          /\ \A i \in HealthJobs : IsActive(i)' => i = j
      BY <1>6, <3>1, <3>2
    <3>4. Places'
      BY <1>5, <2>1, <3>1, <3>3 DEF Trying, Recording
    <3>5. Told(j)'
      <4>1. CASE job[j].result = "NONE"
        BY <1>8, <2>1, <2>3, <4>1 DEF Told
      <4>2. CASE job[j].result # "NONE"
        <5>1. Told(j)
          BY <1>2, <2>1, <2>3, <4>2 DEF IInv, Results, Dispatches
        <5> QED BY <1>8, <2>1, <2>3, <5>1
      <4> QED BY <4>1, <4>2
    <3>6. \A i \in RetryJobs, s \in {"CHECK", "OBSERVATION"} :
            i # j => dispatch'[<<s, i>>] = dispatch[<<s, i>>]
      BY <1>8, <2>1, <2>3, SourceParts
    <3> QED BY <1>9, <2>1, <2>3, <3>1, <3>3, <3>4, <3>5, <3>6, JobSets
  <2> QED BY <1>11, <2>2, <2>3 DEF FailRetry
<1>12. CASE Finalize(w)
  <2>1. PICK s \in {"SUCCEEDED", "FAILED"} :
          job' = [job EXCEPT ![j] = [@ EXCEPT !.status = s, !.holder = Nobody, !.leased = FALSE]]
    BY <1>12 DEF Finalize, Unclaimed
  <2>2. /\ worker[w].pc = "finalizing" /\ Leave(w)
        /\ UNCHANGED <<status, flow, ready, check, dispatch, keys, faults>>
    BY <1>12 DEF Finalize
  <2> DEFINE r == [job[j] EXCEPT !.status = s, !.holder = Nobody, !.leased = FALSE]
  <2>3. r \in JobRows /\ r.status = s /\ r.holder = Nobody /\ r.result = job[j].result
    <3>1. r \in JobRows
      BY <1>2, JobRowUpdates
    <3>2. r.status = s /\ r.holder = Nobody /\ r.result = job[j].result
      BY <1>2 DEF JobRows
    <3> QED BY <3>1, <3>2
  <2>4. /\ \A i \in HealthJobs \ {j} : job'[i] = job[i]
        /\ job'[j] = r
        /\ (OneActive /\ InOrder)'
        /\ \A i \in HealthJobs : IsActive(i)' => i = j
    BY <1>6, <2>1, <2>3
  <2>5. \A i \in HealthJobs : ~IsActive(i)'
    BY <2>3, <2>4 DEF IsActive
  <2>6. \A v \in Workers : ~Holds(v)'
    <3>1. \A v \in Workers \ {w} : worker'[v] = worker[v]
      BY <1>3, <2>2 DEF Leave
    <3>2. worker'[w].pc = "idle"
      BY <1>3, <2>2 DEF Leave, Idle
    <3>3. \A v \in Workers : Holds(v)' => v = w
      BY <1>2, <2>3, <2>4, <3>1, SoleHolderNext DEF IInv
    <3> QED BY <3>2, <3>3 DEF Holds
  <2>7. (Places /\ Results /\ Recovers)'
    <3>1. \A v \in Workers : worker'[v].pc \in Recording => worker'[v] = worker[v]
      BY <1>3, <2>2 DEF Leave, Idle, Recording
    <3> QED BY <2>5, <2>6, <3>1, JobSets DEF IInv, Places, Results, Recovers
  <2>8. Dispatches'
    <3>1. \A i \in RetryJobs : job'[i].result = job[i].result
      BY <2>3, <2>4, JobSets
    <3> QED BY <2>2, <2>5, <3>1, JobSets DEF IInv, Dispatches
  <2>9. DeliveredIsChecked'
    BY <2>2, <2>3, <2>4 DEF IInv, DeliveredIsChecked
  <2>10. FailureIsFollowedUp'
    <3> SUFFICES ASSUME Orphaned'
                 PROVE  \/ check'.job \in RecoveryJobs
                        \/ \E d \in Sources : IsLastRetry(d[2])' /\ dispatch'[d].to = d[2]
      BY DEF FailureIsFollowedUp
    <3>1. flow = "HEALTH_CHECK_FAILED" /\ ~PendingDispatch
      BY <2>2 DEF Orphaned, PendingDispatch
    <3>2. CASE j \in RecoveryJobs
      BY <1>2, <2>2, <3>1, <3>2 DEF IInv, Recovers
    <3>3. CASE j \in RetryJobs
      <4>1. job[j].result # "NONE"
        BY <1>2, <2>2, <3>3 DEF IInv, Places
      <4>2. Told(j)
        BY <1>2, <3>1, <3>3, <4>1 DEF IInv, Dispatches
      <4>3. PICK t \in {"CHECK", "OBSERVATION"} : dispatch[<<t, j>>].to = j
        BY <3>1, <3>3, <4>2, SourceParts DEF Told, PendingDispatch
      <4>4. IsLastRetry(j)
        BY <1>2, <3>3, LastAtWork DEF IInv
      <4>5. \A i \in HealthJobs : job'[i].status = "NONE" <=> job[i].status = "NONE"
        BY <1>2, <2>3, <2>4
      <4>6. IsLastRetry(j)'
        BY <4>4, <4>5, JobSets DEF IsLastRetry
      <4>7. <<t, j>> \in Sources /\ <<t, j>>[2] = j
        BY <3>3, SourceParts
      <4> QED BY <2>2, <4>3, <4>6, <4>7
    <3> QED BY <1>2, <3>2, <3>3, JobSets
  <2> QED BY <1>1, <2>4, <2>7, <2>8, <2>9, <2>10 DEF IInv
<1> QED BY <1>7, <1>10, <1>11, <1>12

-----------------------------------------------------------------------------
LEMMA InitSafe == Init => IInv
<1> SUFFICES ASSUME Init
             PROVE  IInv
  OBVIOUS
<1>1. TypeOK
  BY InitTypes
<1>2. /\ \A j \in HealthJobs : job[j] = NoJob
      /\ \A j \in HealthJobs : ~IsActive(j)
      /\ \A w \in Workers : worker[w].pc = "idle"
      /\ flow = "HEALTH_CHECK_FAILED"
  BY DEF Init, NoJob, IsActive, Idle
<1>3. /\ Owners /\ OneActive /\ Results /\ Recovers /\ DeliveredIsChecked
      /\ Places
  <2>1. Owners /\ OneActive /\ Results /\ Recovers /\ DeliveredIsChecked
    BY <1>2, JobSets DEF Owners, OneActive, Results, Recovers, DeliveredIsChecked, Holds
  <2>2. Places
    BY <1>2 DEF Places, Trying, Recording
  <2> QED BY <2>1, <2>2
<1>4. InOrder
  <2>1. \A j \in HealthJobs : job[j].status = "NONE" /\ job[j].result = "NONE"
    BY <1>2 DEF NoJob
  <2>2. RetryJobs \subseteq HealthJobs
    BY JobSets
  <2> QED BY <2>1, <2>2 DEF InOrder
<1>5. Dispatches
  <2>1. \A j \in RetryJobs, s \in {"CHECK", "OBSERVATION"} : dispatch[<<s, j>>] = NoDispatch
    BY JobSets, SourceParts DEF Init
  <2> QED BY <1>2, <2>1, JobSets DEF Dispatches, NoDispatch
<1>6. FailureIsFollowedUp
  <2>1. <<"CHECK", 0>> \in Sources /\ dispatch[<<"CHECK", 0>>].status = "PENDING"
    BY SourceParts DEF Init, Pending, NoDispatch
  <2> QED BY <2>1 DEF FailureIsFollowedUp, Orphaned, PendingDispatch
<1> QED BY <1>1, <1>3, <1>4, <1>5, <1>6 DEF IInv

LEMMA SafeStep ==
    ASSUME IInv, [Next]_vars
    PROVE  IInv'
<1>1. CASE UNCHANGED vars
  <2>1. (TypeOK /\ Owners)'
    BY <1>1, TypeStep DEF IInv
  <2>2. UNCHANGED <<flow, ready, check, dispatch, job, worker>>
    BY <1>1 DEF vars
  <2>3. Places'
    BY <2>2 DEF IInv, Places, Holds
  <2> QED BY <2>1, <2>2, <2>3, QuietSafe DEF IsActive
<1>2. ASSUME NEW w \in Workers, Process(w)
      PROVE  IInv'
  <2>1. CASE \/ StartCheck(w) /\ ~job[worker[w].job].started
             \/ KeepResult(w) \/ FailRetry(w) \/ Finalize(w)
    <3>1. Fenced(w)
      BY <2>1 DEF StartCheck, KeepResult, FailRetry, Finalize
    <3> QED BY <2>1, <3>1, WorkingSafe
  <2> QED BY <1>2, <2>1, QuietStep, ReviewStep DEF Process
<1>3. ASSUME NEW w \in Workers, Crash(w)
      PROVE  IInv'
  BY <1>3, QuietStep
<1>4. CASE Next
  BY <1>2, <1>3, <1>4, DispatchSafe, ClaimSafe, AdminSafe DEF Next, HandleDispatch
<1> QED BY <1>1, <1>4

LEMMA AlwaysSafe == Spec => []IInv
BY InitSafe, SafeStep, PTL DEF Spec

\* A server that awaits its delivery, or is delivered, passed its latest check:
\* its job kept a good result, and no worker whose lease ended, no dispatch
\* handled late and no command of an administrator puts another check or another
\* result in its place.
THEOREM OnlyCheckedIsDelivered == Spec => []DeliveredIsChecked
<1>1. IInv => DeliveredIsChecked
  BY DEF IInv
<1> QED BY <1>1, AlwaysSafe, PTL

\* From the commit that records a failed check, its dispatch or a job is there
\* to follow it up, except after the two failures FailureIsFollowedUp names.
THEOREM FailuresAreFollowedUp == Spec => []FailureIsFollowedUp
<1>1. IInv => FailureIsFollowedUp
  BY DEF IInv
<1> QED BY <1>1, AlwaysSafe, PTL

\* The partial unique index over the two operations keeps a second health job of
\* the order from being at work, whoever asks for one.
THEOREM OneHealthJobAtWork == Spec => []OneActive
<1>1. IInv => OneActive
  BY DEF IInv
<1> QED BY <1>1, AlwaysSafe, PTL

-----------------------------------------------------------------------------
\* Where a review leads.

\* A delivered order is in no review, and one that awaits its delivery is in
\* review only after a delivery that was set aside.
Standing ==
    /\ flow = "ACTIVE" => status = "ACTIVE"
    /\ flow = "WAITING_ADMIN_DELIVERY_APPROVAL" /\ status = "MANUAL_REVIEW" =>
         keys \cap {"held", "blocked"} # {}

\* A running check has its job at work, whose holder is not done with it.
Checking ==
    flow = "HEALTH_CHECKING" =>
      /\ \E j \in HealthJobs : IsActive(j) /\ job[j].started
      /\ \A w \in Workers : Holds(w) => worker[w].pc # "finalizing"

LEMMA StandingStep ==
    ASSUME Standing, Next
    PROVE  Standing'
<1>1. ASSUME NEW d \in Sources, HandleDispatch(d)
      PROVE  Standing'
  BY <1>1 DEF Standing, HandleDispatch, DispatchRetry, DispatchEnds, DispatchIsInvalid,
              DispatchFails, DeadLetter, Reviewable, ToReview, LimitReview
<1>2. ASSUME NEW j \in HealthJobs, ExpireLease(j) \/ RecoverExpired(j)
      PROVE  Standing'
  BY <1>2 DEF Standing, ExpireLease, RecoverExpired
<1>3. ASSUME NEW w \in Workers, NEW j \in HealthJobs, Claim(w, j)
      PROVE  Standing'
  BY <1>3 DEF Standing, Claim
<1>4. ASSUME NEW w \in Workers, Process(w) \/ Crash(w)
      PROVE  Standing'
  <2>1. CASE KeepResult(w)
    BY <2>1 DEF Standing, KeepResult
  <2>2. CASE StartCheck(w)
    BY <2>2 DEF Standing, StartCheck
  <2>3. CASE FailRetry(w)
    BY <2>3 DEF Standing, FailRetry
  <2>4. CASE ReviewRecovery(w)
    BY <2>4 DEF Standing, ReviewRecovery, ToReview
  <2> QED BY <1>4, <2>1, <2>2, <2>3, <2>4
          DEF Standing, Process, Start, Observe, RecordObservation, ReadToCheck, StepFails,
              FenceRecovery, FailThrows, Finalize, Abandon, Crash
<1>5. CASE Admin
  <2>1. ASSUME NEW key \in {"held", "blocked"}, SetAside(key)
        PROVE  Standing'
    BY <2>1 DEF Standing, SetAside, Deliverable
  <2> QED BY <1>5, <2>1 DEF Standing, Admin, AdminRetry, AdminObserve, AdminRecover,
                            ApproveDelivery, LimitReview, ToReview
<1> QED BY <1>1, <1>2, <1>3, <1>4, <1>5 DEF Next

\* A check goes on running while its job stays at work and nobody finishes.
LEMMA CheckingKept ==
    ASSUME Checking,
           flow' = "HEALTH_CHECKING" =>
             /\ flow = "HEALTH_CHECKING"
             /\ \A j \in HealthJobs : IsActive(j) /\ job[j].started =>
                                        IsActive(j)' /\ job'[j].started
             /\ \A w \in Workers : Holds(w)' /\ worker'[w].pc = "finalizing" =>
                                      Holds(w) /\ worker[w].pc = "finalizing"
    PROVE  Checking'
BY DEF Checking

LEMMA CheckingStep ==
    ASSUME IInv, IInv', Checking, Next
    PROVE  Checking'
<1>1. \A j \in HealthJobs : job[j] \in JobRows
  BY TypeParts DEF IInv, JobTypes
<1>2. \A w \in Workers : worker[w] \in Memories
  BY TypeParts DEF IInv, WorkerTypes
<1>3. ASSUME UNCHANGED <<flow, job, worker>>
      PROVE  Checking'
  BY <1>3 DEF Checking, IsActive, Holds
<1>4. ASSUME NEW d \in Sources, HandleDispatch(d)
      PROVE  Checking'
  <2>1. flow' # "HEALTH_CHECKING" \/ UNCHANGED <<flow, job, worker>>
    BY <1>4 DEF HandleDispatch, DispatchRetry, DispatchEnds, DispatchIsInvalid,
                DispatchFails, DeadLetter, ToReview, LimitReview
  <2> QED BY <1>3, <2>1 DEF Checking
<1>5. ASSUME NEW j \in HealthJobs, ExpireLease(j) \/ RecoverExpired(j)
      PROVE  Checking'
  <2>1. /\ UNCHANGED <<flow, worker>>
        /\ \A i \in HealthJobs \ {j} : job'[i] = job[i]
        /\ job[j].status = "RUNNING"
        /\ \/ job'[j] = [job[j] EXCEPT !.leased = FALSE]
           \/ job'[j] = [job[j] EXCEPT !.status = "QUEUED", !.holder = Nobody, !.leased = FALSE]
    BY <1>1, <1>5, TypeParts DEF IInv, JobTypes, ExpireLease, RecoverExpired, Unclaimed
  <2>2. /\ job[j] \in JobRows
        /\ job'[j].status \in {"QUEUED", "RUNNING"} /\ job'[j].started = job[j].started
        /\ job'[j].status = "RUNNING" => job'[j].holder = job[j].holder
    <3>1. job[j] \in JobRows
      BY <1>1
    <3> QED BY <2>1, <3>1 DEF JobRows
  <2>3. ASSUME NEW i \in HealthJobs
        PROVE  /\ IsActive(i) => IsActive(i)'
               /\ job'[i].started = job[i].started
               /\ job'[i].status = "RUNNING" => job'[i].holder = job[i].holder
                                               /\ job[i].status = "RUNNING"
    <3>1. CASE i = j
      BY <2>1, <2>2, <3>1 DEF IsActive
    <3>2. CASE i # j
      BY <2>1, <3>2 DEF IsActive
    <3> QED BY <3>1, <3>2
  <2>4. \A w \in Workers : Holds(w)' => Holds(w)
    BY <2>1, <2>3 DEF IInv, Owners, Holds
  <2> QED BY <2>1, <2>3, <2>4, CheckingKept
<1>6. ASSUME NEW w \in Workers, NEW j \in HealthJobs, Claim(w, j)
      PROVE  Checking'
  BY <1>6 DEF Checking, Claim, ClaimableFlow
<1>7. CASE Admin
  <2>1. flow' # "HEALTH_CHECKING" \/ UNCHANGED <<flow, job, worker>>
    BY <1>7 DEF Admin, AdminRetry, AdminObserve, AdminRecover, ApproveDelivery, SetAside,
                LimitReview, ToReview, InReview, Deliverable
  <2> QED BY <1>3, <2>1 DEF Checking
<1>8. ASSUME NEW w \in Workers, Leave(w), UNCHANGED <<flow, job>>
      PROVE  Checking'
  <2>1. worker'[w].pc = "idle" /\ \A v \in Workers \ {w} : worker'[v] = worker[v]
    BY <1>8, TypeParts DEF IInv, WorkerTypes, Leave, Idle
  <2>2. \A v \in Workers : Holds(v)' => Holds(v) /\ worker'[v] = worker[v]
    BY <1>8, <2>1 DEF Holds
  <2>3. \A i \in HealthJobs : (IsActive(i) <=> IsActive(i)') /\ job'[i] = job[i]
    BY <1>8 DEF IsActive
  <2> QED BY <1>8, <2>2, <2>3, CheckingKept
<1>9. ASSUME NEW w \in Workers, NEW ps, Goes(w, ps), "finalizing" \notin ps,
             worker[w].pc # "idle", UNCHANGED <<flow, job>>
      PROVE  Checking'
  <2>1. /\ worker'[w].pc \in ps
        /\ \A v \in Workers \ {w} : worker'[v] = worker[v]
    BY <1>9, TypeParts DEF IInv, WorkerTypes, Goes
  <2>2. \A v \in Workers : Holds(v)' /\ worker'[v].pc = "finalizing" =>
                             Holds(v) /\ worker[v].pc = "finalizing"
    BY <1>9, <2>1 DEF Holds
  <2>3. \A i \in HealthJobs : (IsActive(i) <=> IsActive(i)') /\ job'[i] = job[i]
    BY <1>9 DEF IsActive
  <2> QED BY <1>9, <2>2, <2>3, CheckingKept
\* A job with a result is not checked any more.
<1>10. ASSUME NEW w \in Workers, Start(w)
       PROVE  Checking'
  <2>1. CASE job[worker[w].job].result # "NONE"
    <3>1. worker[w].job \in HealthJobs /\ IsActive(worker[w].job)
      BY <1>10, JobOf DEF IInv, Start, Fenced, IsActive
    <3>2. flow # "HEALTH_CHECKING"
      BY <2>1, <3>1 DEF IInv, Results
    <3> QED BY <1>10, <3>2 DEF Checking, Start
  <2>2. CASE job[worker[w].job].result = "NONE"
    <3>1. Leave(w) \/ Goes(w, {"observing"})
      BY <1>10, <2>2, WorkerMoves DEF IInv
    <3> QED BY <1>8, <1>9, <1>10, <3>1 DEF Start
  <2> QED BY <2>1, <2>2
<1>11. ASSUME NEW w \in Workers, StartCheck(w), ~job[worker[w].job].started
       PROVE  Checking'
  <2> DEFINE j == worker[w].job
  <2>1. /\ j \in HealthJobs /\ Holds(w) /\ Fenced(w)
        /\ job'[j] = [job[j] EXCEPT !.started = TRUE]
        /\ \A i \in HealthJobs \ {j} : job'[i] = job[i]
    BY <1>11, JobOf, TypeParts DEF IInv, JobTypes, StartCheck, Fenced, Holds
  <2>2. job[j] \in JobRows /\ job[j].status = "RUNNING" /\ job[j].holder = w
    BY <1>1, <2>1 DEF Fenced
  <2>3. job'[j].status = "RUNNING" /\ job'[j].started /\ job'[j].holder = w
    BY <2>1, <2>2 DEF JobRows
  <2>4. /\ worker'[w].pc = "probing"
        /\ \A v \in Workers \ {w} : worker'[v] = worker[v]
    <3>1. Goes(w, {"probing"})
      BY <1>11, WorkerMoves DEF IInv
    <3> QED BY <3>1, TypeParts DEF IInv, WorkerTypes, Goes
  <2>5. \A v \in Workers : Holds(v)' => v = w
    BY <2>1, <2>3, <2>4, SoleHolderNext DEF IInv
  <2> QED BY <2>1, <2>3, <2>4, <2>5 DEF Checking, IsActive
\* The holder of a running check is not done: only a job with a result, or one
\* that is back in review, is finalized.
<1>12. ASSUME NEW w \in Workers, Finalize(w)
       PROVE  Checking'
  <2>1. Holds(w) /\ worker[w].pc = "finalizing" /\ flow' = flow
    BY <1>12 DEF Finalize, Fenced, Holds
  <2> QED BY <2>1 DEF Checking
<1>13. ASSUME NEW w \in Workers, KeepResult(w) \/ ReviewRecovery(w) \/ FailRetry(w)
       PROVE  Checking'
  BY <1>13 DEF Checking, KeepResult, ReviewRecovery, ToReview, FailRetry
<1>14. ASSUME NEW w \in Workers, Process(w) \/ Crash(w)
       PROVE  Checking'
  <2>1. CASE Abandon(w) \/ Crash(w) \/ FailThrows(w)
    BY <1>8, <2>1 DEF Abandon, Crash, FailThrows
  <2>2. CASE \/ Observe(w) \/ RecordObservation(w) \/ ReadToCheck(w) \/ StepFails(w)
             \/ FenceRecovery(w)
             \/ (StartCheck(w) /\ job[worker[w].job].started)
    <3>1. \/ Goes(w, {"observed"}) \/ Goes(w, {"checking"}) \/ Goes(w, {"starting"})
          \/ Goes(w, {"probing"}) \/ Goes(w, {"failing"})
          \/ Goes(w, {"recordingFailure", "recordingResult"})
      BY <2>2, WorkerMoves DEF IInv
    <3>2. UNCHANGED <<flow, job>> /\ worker[w].pc # "idle"
      BY <2>2 DEF Observe, RecordObservation, ReadToCheck, StepFails, FenceRecovery, StartCheck
    <3> QED BY <1>9, <3>1, <3>2
  <2>3. CASE StartCheck(w) /\ ~job[worker[w].job].started
    BY <1>11, <2>3
  <2>4. CASE Start(w) \/ Finalize(w) \/ KeepResult(w) \/ ReviewRecovery(w) \/ FailRetry(w)
    BY <1>10, <1>12, <1>13, <2>4
  <2> QED BY <1>14, <2>1, <2>2, <2>3, <2>4 DEF Process
<1> QED BY <1>4, <1>5, <1>6, <1>7, <1>14 DEF Next

LEMMA AlwaysKnown == Spec => [](IInv /\ Standing /\ Checking)
<1>1. Init => Standing /\ Checking
  BY DEF Init, Standing, Checking
<1>2. IInv /\ IInv' /\ Standing /\ Checking /\ [Next]_vars => (Standing /\ Checking)'
  <2>1. ASSUME UNCHANGED vars, Standing, Checking
        PROVE  (Standing /\ Checking)'
    BY <2>1 DEF vars, Standing, Checking, IsActive, Holds
  <2> QED BY <2>1, StandingStep, CheckingStep
<1> QED BY <1>1, <1>2, AlwaysSafe, PTL DEF Spec

\* An order in MANUAL_REVIEW is at work, or a command of the administrator is
\* accepted, or it is at one of the four dead ends DeadEndsAreKnown names: no
\* interleaving of the workers, the dispatches and the commands adds a fifth.
THEOREM ReviewDeadEndsAreKnown == Spec => []DeadEndsAreKnown
<1>1. IInv /\ Standing /\ Checking => DeadEndsAreKnown
  <2> SUFFICES ASSUME IInv, Standing, Checking, status = "MANUAL_REVIEW"
               PROVE  DeadEndsAreKnown
    BY DEF DeadEndsAreKnown, ReviewIsNoDeadEnd
  <2>1. CASE flow = "HEALTH_CHECKING"
    <3>1. PICK j \in HealthJobs : IsActive(j) /\ job[j].started
      BY <2>1 DEF Checking
    <3> QED BY <2>1, <3>1 DEF DeadEndsAreKnown, ReviewIsNoDeadEnd, AtWork, Jammed, Stranded,
                              IsActive
  <2>2. CASE flow = "HEALTH_CHECK_FAILED"
    BY <2>2 DEF DeadEndsAreKnown, ReviewIsNoDeadEnd, AtWork, ClaimableFlow, Jammed, Retryable,
                LimitAgain, Orphaned
  <2>3. CASE flow = "PROVISIONING_MANUAL_REVIEW"
    BY <2>3 DEF DeadEndsAreKnown, ReviewIsNoDeadEnd, AtWork, ClaimableFlow, Recoverable, InReview
  <2>4. CASE flow = "WAITING_ADMIN_DELIVERY_APPROVAL"
    BY <2>4 DEF Standing, DeadEndsAreKnown, SetAsideAgain
  <2>5. CASE flow = "ACTIVE"
    BY <2>5 DEF Standing
  <2> QED BY <2>1, <2>2, <2>3, <2>4, <2>5, TypeParts DEF IInv, OrderTypes
<1> QED BY <1>1, AlwaysKnown, PTL

-----------------------------------------------------------------------------
\* What a step may never do.

\* A delivered order is done with: nothing that is late, a worker with its check,
\* a dispatch on its way to the dead letters or a retry that failed, moves the
\* order or touches the check it was delivered on.  (An observation that is late
\* is still written: its row says nothing of what the order was delivered on.)
DeliveryIsFinal == [][flow = "ACTIVE" => UNCHANGED <<status, flow, check>>]_vars

\* A job with a good result leaves the order deliverable, delivered or in review.
GoodResults ==
    flow = "HEALTH_CHECK_FAILED" => \A j \in HealthJobs : IsActive(j) => job[j].result # "OK"

LEMMA DeliveryStep ==
    ASSUME IInv, Next, flow = "ACTIVE"
    PROVE  UNCHANGED <<status, flow, check>>
<1>1. ASSUME NEW d \in Sources, HandleDispatch(d)
      PROVE  UNCHANGED <<status, flow, check>>
  BY <1>1 DEF HandleDispatch, DispatchRetry, DispatchEnds, DispatchIsInvalid, DispatchFails,
              DeadLetter, Reviewable
<1>2. ASSUME NEW j \in HealthJobs, ExpireLease(j) \/ RecoverExpired(j)
      PROVE  UNCHANGED <<status, flow, check>>
  BY <1>2 DEF ExpireLease, RecoverExpired
<1>3. ASSUME NEW w \in Workers, NEW j \in HealthJobs, Claim(w, j)
      PROVE  UNCHANGED <<status, flow, check>>
  BY <1>3 DEF Claim
<1>4. ASSUME Admin
      PROVE  UNCHANGED <<status, flow, check>>
  BY <1>4 DEF Admin, AdminRetry, AdminObserve, AdminRecover, InReview, ApproveDelivery,
              SetAside, Deliverable
<1>5. ASSUME NEW w \in Workers, Process(w) \/ Crash(w)
      PROVE  UNCHANGED <<status, flow, check>>
  <2>1. CASE StartCheck(w)
    BY <2>1 DEF StartCheck, From
  <2>2. CASE KeepResult(w)
    BY <2>2 DEF KeepResult
  <2>3. CASE FailRetry(w) \/ ReviewRecovery(w)
    BY <2>3 DEF FailRetry, ReviewRecovery, Reviewable
  <2> QED BY <1>5, <2>1, <2>2, <2>3
          DEF Process, Start, Observe, RecordObservation, ReadToCheck, StepFails, FenceRecovery,
              FailThrows, Finalize, Abandon, Crash
<1> QED BY <1>1, <1>2, <1>3, <1>4, <1>5 DEF Next

\* Once a delivery is approved, no step of any actor changes the order's state or
\* the check it was approved on; only an observation may still be written, by a
\* worker that had passed its fence before.
THEOREM DeliveriesAreFinal == Spec => DeliveryIsFinal
<1>1. IInv /\ [Next]_vars => [flow = "ACTIVE" => UNCHANGED <<status, flow, check>>]_vars
  BY DeliveryStep
<1> QED BY <1>1, AlwaysSafe, PTL DEF Spec, DeliveryIsFinal

\* A step that leaves the results alone, and sends the order nowhere it could
\* fail, or makes a job.
LEMMA ResultsKept ==
    ASSUME GoodResults, flow' = "HEALTH_CHECK_FAILED" => flow = "HEALTH_CHECK_FAILED",
           \A i \in HealthJobs : /\ job'[i].result = job[i].result
                                 /\ IsActive(i)' => IsActive(i) \/ job[i].result = "NONE"
    PROVE  /\ \A i \in HealthJobs : job[i].result # "NONE" => job'[i].result = job[i].result
           /\ GoodResults'
BY DEF GoodResults

LEMMA ResultsStep ==
    ASSUME IInv, GoodResults, Next
    PROVE  /\ \A i \in HealthJobs : job[i].result # "NONE" => job'[i].result = job[i].result
           /\ GoodResults'
<1> DEFINE Stand == \A i \in HealthJobs : job[i].result # "NONE" => job'[i].result = job[i].result
<1>1. job \in [HealthJobs -> JobRows]
  BY TypeParts DEF IInv, JobTypes
<1>2. ASSUME job' = job, flow' = "HEALTH_CHECK_FAILED" => flow = "HEALTH_CHECK_FAILED"
      PROVE  Stand /\ GoodResults'
  BY <1>2, ResultsKept DEF IsActive
<1>3. ASSUME NEW j \in HealthJobs, Made(j),
             flow' = "HEALTH_CHECK_FAILED" => flow = "HEALTH_CHECK_FAILED"
      PROVE  Stand /\ GoodResults'
  <2>1. /\ job[j].result = "NONE" /\ job'[j].result = "NONE"
        /\ \A i \in HealthJobs : i # j => job'[i] = job[i]
    BY <1>1, <1>3 DEF Made, Enqueue, NoJob, IInv, InOrder
  <2>2. \A i \in HealthJobs : /\ job'[i].result = job[i].result
                              /\ IsActive(i)' => IsActive(i) \/ job[i].result = "NONE"
    BY <2>1 DEF IsActive
  <2> QED BY <1>3, <2>2, ResultsKept
\* A claim, a lease that ends, and the end of a job leave its result.
<1>4. ASSUME NEW j \in HealthJobs, IsActive(j), flow' = flow,
             NEW r \in JobRows, r.result = job[j].result, job' = [job EXCEPT ![j] = r]
      PROVE  Stand /\ GoodResults'
  <2>1. \A i \in HealthJobs : /\ job'[i].result = job[i].result
                              /\ IsActive(i)' => IsActive(i) \/ job[i].result = "NONE"
    BY <1>1, <1>4 DEF IsActive
  <2> QED BY <1>4, <2>1, ResultsKept
\* The holder records a result: there was none, or it is the same.
<1>5. ASSUME NEW j \in HealthJobs, NEW v \in {"OK", "FAILED"},
             job[j].result \in {"NONE", v},
             job' = [job EXCEPT ![j] = [@ EXCEPT !.result = v]],
             \A i \in HealthJobs : IsActive(i) => i = j,
             flow' = "HEALTH_CHECK_FAILED" => v = "FAILED"
      PROVE  Stand /\ GoodResults'
  <2>1. job[j] \in JobRows
    BY <1>1
  <2>2. /\ job'[j].result = v
        /\ \A i \in HealthJobs : i # j => job'[i] = job[i]
    BY <1>1, <1>5, <2>1 DEF JobRows
  <2>3. Stand
    BY <1>5, <2>2
  <2>4. GoodResults'
    BY <1>5, <2>2 DEF GoodResults, IsActive
  <2> QED BY <2>3, <2>4
<1>6. ASSUME NEW d \in Sources, HandleDispatch(d)
      PROVE  Stand /\ GoodResults'
  <2>1. flow' = flow \/ flow' = "PROVISIONING_MANUAL_REVIEW"
    BY <1>6 DEF HandleDispatch, DispatchRetry, DispatchEnds, DispatchIsInvalid, DispatchFails,
                DeadLetter, ToReview, LimitReview
  <2>2. job' = job \/ \E j \in RetryJobs : Enqueue(RetryJobs, j)
    BY <1>6 DEF HandleDispatch, DispatchRetry, DispatchEnds, DispatchIsInvalid, DispatchFails
  <2> QED BY <1>2, <1>3, <2>1, <2>2, JobSets DEF Made
<1>7. CASE Admin
  <2>1. flow' \in {flow, "PROVISIONING_MANUAL_REVIEW", "ACTIVE"}
    BY <1>7 DEF Admin, AdminRetry, AdminObserve, AdminRecover, ApproveDelivery, SetAside,
                ToReview, LimitReview
  <2>2. \/ job' = job
        \/ \E j \in RetryJobs : Enqueue(RetryJobs, j)
        \/ \E j \in RecoveryJobs : Enqueue(RecoveryJobs, j)
    BY <1>7 DEF Admin, AdminRetry, AdminObserve, AdminRecover, ApproveDelivery, SetAside
  <2> QED BY <1>2, <1>3, <2>1, <2>2, JobSets DEF Made
<1>8. ASSUME NEW j \in HealthJobs, ExpireLease(j) \/ RecoverExpired(j)
      PROVE  Stand /\ GoodResults'
  <2>1. IsActive(j) /\ flow' = flow /\ job[j] \in JobRows
    BY <1>1, <1>8 DEF ExpireLease, RecoverExpired, IsActive
  <2>2. CASE ExpireLease(j)
    <3> DEFINE r == [job[j] EXCEPT !.leased = FALSE]
    <3>1. r \in JobRows
      BY <2>1, JobRowUpdates
    <3>2. r.result = job[j].result
      BY <2>1 DEF JobRows
    <3>3. job' = [job EXCEPT ![j] = r]
      BY <2>2 DEF ExpireLease
    <3> HIDE DEF r
    <3> QED BY <1>4, <2>1, <3>1, <3>2, <3>3
  <2>3. CASE RecoverExpired(j)
    <3> DEFINE r == [job[j] EXCEPT !.status = "QUEUED", !.holder = Nobody, !.leased = FALSE]
    <3>1. r \in JobRows
      BY <2>1, JobRowUpdates
    <3>2. r.result = job[j].result
      BY <2>1 DEF JobRows
    <3>3. job' = [job EXCEPT ![j] = r]
      BY <2>3 DEF RecoverExpired, Unclaimed
    <3> HIDE DEF r
    <3> QED BY <1>4, <2>1, <3>1, <3>2, <3>3
  <2> QED BY <1>8, <2>2, <2>3
<1>9. ASSUME NEW w \in Workers, NEW j \in HealthJobs, Claim(w, j)
      PROVE  Stand /\ GoodResults'
  <2> DEFINE r == [job[j] EXCEPT !.status = "RUNNING", !.holder = w, !.leased = TRUE]
  <2>1. IsActive(j) /\ flow' = flow /\ job[j] \in JobRows
    BY <1>1, <1>9 DEF Claim, IsActive
  <2>2. r \in JobRows
    BY <2>1, JobRowUpdates
  <2>3. r.result = job[j].result
    BY <2>1 DEF JobRows
  <2>4. job' = [job EXCEPT ![j] = r]
    BY <1>9 DEF Claim
  <2> HIDE DEF r
  <2> QED BY <1>4, <2>1, <2>2, <2>3, <2>4
<1>10. ASSUME NEW w \in Workers, Process(w) \/ Crash(w)
       PROVE  Stand /\ GoodResults'
  <2>1. CASE \/ Start(w) \/ Observe(w) \/ RecordObservation(w) \/ ReadToCheck(w) \/ StepFails(w)
             \/ StartCheck(w) /\ job[worker[w].job].started
             \/ FenceRecovery(w) \/ FailThrows(w) \/ Abandon(w) \/ Crash(w)
    BY <1>2, <2>1 DEF Start, Observe, RecordObservation, ReadToCheck, StepFails, StartCheck,
                      FenceRecovery, FailThrows, Abandon, Crash
  <2>2. CASE ReviewRecovery(w)
    BY <1>2, <2>2 DEF ReviewRecovery, ToReview
  <2>3. CASE Fenced(w)
    <3>1. PICK j : j = worker[w].job
      OBVIOUS
    <3>2. /\ Holds(w) /\ j \in HealthJobs /\ IsActive(j) /\ job[j] \in JobRows
          /\ \A i \in HealthJobs : IsActive(i) => i = j
      BY <2>3, <3>1, SoleHolder, JobOf DEF IInv, Holds, Fenced
    <3>3. CASE StartCheck(w) /\ ~job[j].started
      <4> DEFINE r == [job[j] EXCEPT !.started = TRUE]
      <4>1. r \in JobRows
        BY <3>2, JobRowUpdates
      <4>2. r.result = job[j].result
        BY <3>2 DEF JobRows
      <4>3. job' = [job EXCEPT ![j] = r] /\ flow' \in {flow, "HEALTH_CHECKING"}
        BY <3>1, <3>3 DEF StartCheck
      <4> HIDE DEF r
      <4>4. \A i \in HealthJobs : /\ job'[i].result = job[i].result
                                  /\ IsActive(i)' => IsActive(i) \/ job[i].result = "NONE"
        BY <1>1, <3>2, <4>1, <4>2, <4>3 DEF IsActive
      <4> QED BY <4>3, <4>4, ResultsKept
    <3>4. CASE KeepResult(w)
      <4>1. PICK healthy \in BOOLEAN :
              /\ flow' = IF healthy THEN "WAITING_ADMIN_DELIVERY_APPROVAL" ELSE "HEALTH_CHECK_FAILED"
              /\ job' = [job EXCEPT ![j] = [@ EXCEPT !.result = Verdict(healthy)]]
        BY <3>1, <3>4 DEF KeepResult
      <4>2. job[j].result = "NONE"
        BY <3>1, <3>2, <3>4 DEF KeepResult, IInv, Places, Trying
      <4>3. /\ Verdict(healthy) \in {"OK", "FAILED"}
            /\ flow' = "HEALTH_CHECK_FAILED" => Verdict(healthy) = "FAILED"
        BY <4>1 DEF Verdict
      <4> QED BY <1>5, <3>2, <4>1, <4>2, <4>3
\* A failed step finds what its job recorded before: no good result, as the
\* order would await its delivery.
    <3>5. CASE FailRetry(w)
      <4>1. CASE UNCHANGED <<flow, job, dispatch>>
        BY <1>2, <4>1
      <4>2. CASE /\ flow \in {"HEALTH_CHECKING", "HEALTH_CHECK_FAILED"}
                 /\ job' = [job EXCEPT ![j] = [@ EXCEPT !.result = "FAILED"]]
        <5>1. job[j].result \in {"NONE", "FAILED"}
          BY <3>2, <4>2, JobRowUpdates DEF IInv, Results, GoodResults
        <5> QED BY <1>5, <3>2, <4>2, <5>1
      <4> QED BY <3>1, <3>5, <4>1, <4>2 DEF FailRetry
    <3>6. CASE Finalize(w)
      <4>1. PICK s \in {"SUCCEEDED", "FAILED"} :
              job' = [job EXCEPT ![j] = [@ EXCEPT !.status = s, !.holder = Nobody, !.leased = FALSE]]
        BY <3>1, <3>6 DEF Finalize, Unclaimed
      <4> DEFINE r == [job[j] EXCEPT !.status = s, !.holder = Nobody, !.leased = FALSE]
      <4>2. r \in JobRows
        BY <3>2, JobRowUpdates
      <4>3. r.result = job[j].result
        BY <3>2 DEF JobRows
      <4>4. job' = [job EXCEPT ![j] = r] /\ flow' = flow
        BY <3>6, <4>1 DEF Finalize
      <4> HIDE DEF r
      <4> QED BY <1>4, <3>2, <4>2, <4>3, <4>4
    <3> QED BY <1>10, <2>1, <2>2, <3>1, <3>3, <3>4, <3>5, <3>6 DEF Process
  <2>4. CASE ~Fenced(w)
    BY <1>10, <2>1, <2>2, <2>4 DEF Process, StartCheck, KeepResult, FailRetry, Finalize
  <2> QED BY <2>3, <2>4
<1> QED BY <1>6, <1>7, <1>8, <1>9, <1>10 DEF Next

\* A job that is taken over after its result was recorded finishes with that
\* result, and no failed step writes over it.
THEOREM HealthResultsStand == Spec => ResultsStand
<1>1. Init => GoodResults
  BY DEF Init, GoodResults, IsActive, NoJob
<1>2. IInv /\ GoodResults /\ [Next]_vars => GoodResults'
  <2>1. ASSUME GoodResults, UNCHANGED vars
        PROVE  GoodResults'
    BY <2>1 DEF vars, GoodResults, IsActive
  <2> QED BY <2>1, ResultsStep
<1>3. IInv /\ GoodResults /\ [Next]_vars =>
        [\A j \in HealthJobs : job[j].result # "NONE" => job'[j].result = job[j].result]_vars
  BY ResultsStep
<1> QED BY <1>1, <1>2, <1>3, AlwaysSafe, PTL DEF Spec, ResultsStand

=============================================================================
