---------------------- MODULE ProvisioningWorkerProofs ----------------------
(***************************************************************************)
(* Safety of provisioning, for any number of workers, attempts and claims. *)
(*                                                                         *)
(* None of the properties is inductive.  That one attempt makes one server *)
(* rests on the claim tokens (no two workers hold the same one), on sent,  *)
(* which a worker sets under its fence before its one call, and on the     *)
(* attempt of an active job never being the one confirmed absent; that the *)
(* order has one active job rests on the flow being quiet whenever a       *)
(* command queues one; that billing starts on a server rests on what the   *)
(* workers saw.  IInv says all of it; the refinement of ServerContract     *)
(* adds Settled, what a confirmed absence leaves to follow.                *)
(*                                                                         *)
(* StepCases divides the actions by what they do to the jobs, and most     *)
(* lemmas argue over these effects instead of over the actions.            *)
(***************************************************************************)
EXTENDS ProvisioningWorker, TLAPS

\* Flows in which no job is at work, and flows after the first health check.
Quiet == {"PAID", "PROVISION_APPROVED", "PROVISIONING_RECONCILING",
          "PROVISIONING_RETRYABLE", "PROVISIONING_MANUAL_REVIEW", "CANCELLED"}
Checked == {"HEALTH_CHECK_FAILED", "WAITING_ADMIN_DELIVERY_APPROVAL"}

\* Between createSentAt and the end of the call, and after a server was seen.
Sending == {"marked", "creating"}
Seen == {"persisting", "polling", "resuming"}

\* A claim token is the number of the last claim, and only a running job has one.
JobShape ==
    \A j \in Jobs :
        /\ job[j].status = "RUNNING" =>
               job[j].claims > 0 /\ job[j].token = job[j].claims
        /\ job[j].status # "RUNNING" => job[j].token = 0 /\ ~job[j].leased
        /\ job[j].status \in Active /\ ~job[j].leased => job[j].claims < MaxClaims
        /\ job[j].status = "NONE" => job[j] = NoJob

Holding(w) == worker[w].pc # "idle"

\* A token is drawn once.
Tokens ==
    /\ \A w \in Workers : Holding(w) => worker[w].token \in 1..job[worker[w].job].claims
    /\ \A v, w \in Workers :
           /\ Holding(v) /\ Holding(w)
           /\ worker[v].job = worker[w].job /\ worker[v].token = worker[w].token
           => v = w

\* The attempts made so far are the first n.
Prefix(n) == \A a \in Attempts : Exists(a) <=> a <= n

Order ==
    /\ OneActiveJob
    /\ StatusMatchesFlow
    /\ flow \in Quiet => ~ActiveJob
    /\ \A j \in Jobs : job[j].health # "NONE" => flow \in Checked
    /\ \A w \in Workers : worker[w].pc = "finalizing" => flow \in Checked
    /\ Exists(Poll) => instance
    /\ \E n \in 0..MaxAttempts : Prefix(n)
    /\ absence # 0 => Exists(absence)
    /\ \A a \in Attempts : job[a].status \in Active => absence # a

\* An attempt has one sender, and none once its call has left.
Sends ==
    /\ \A w \in Workers :
           worker[w].pc \in Sending \cup {"marking"} => worker[w].job \in Attempts
    /\ \A w \in Workers : worker[w].pc \in Sending => job[worker[w].job].sent
    /\ \A v, w \in Workers :
           /\ worker[v].pc \in Sending /\ worker[w].pc \in Sending
           /\ worker[v].job = worker[w].job
           => v = w
    /\ \A c \in servers \cup late :
           /\ job[c[1]].sent
           /\ \A w \in Workers : worker[w].pc \in Sending => worker[w].job # c[1]
    /\ CreateOnce

\* Whoever saw a server is right.
Billed ==
    /\ BilledServerExists
    /\ \A w \in Workers : worker[w].pc \in Seen => servers # {}

\* With a prompt provider a call ends under its fence, and a server is only
\* made when there is none.
Prompted ==
    Prompt =>
        /\ late = {}
        /\ \A w \in Workers : worker[w].pc = "creating" => Fenced(w)
        /\ absence # 0 => servers = {} /\ ~ActiveJob
        /\ \A a \in Attempts :
               job[a].status \in Active /\ ~job[a].sent => servers = {}
        /\ \A w \in Workers : worker[w].pc \in Sending /\ Fenced(w) => servers = {}
        /\ OneServer
        /\ RefundedHasNoServer

IInv == TypeOK /\ JobShape /\ Tokens /\ Order /\ Sends /\ Billed /\ Prompted

Row == [status : {"NONE"} \cup Active \cup Ended,
        claims : 0..MaxClaims, token : 0..MaxClaims,
        leased : BOOLEAN, sent : BOOLEAN, found : BOOLEAN,
        health : {"NONE", "OK", "FAILED"}]

WorkerRow == [pc : Errors \cup {"idle", "claimed", "marking", "marked", "creating",
                         "looking", "resuming", "persisting", "polling", "recorded",
                         "probing", "finalizing", "reconciling"},
              job : Jobs, token : 0..MaxClaims]

(***************************************************************************)
(* What one step does to a job and to a worker, field by field             *)
(***************************************************************************)

OnlyJob(j) ==
    /\ job' \in [Jobs -> Row]
    /\ \A i \in Jobs : i # j => job'[i] = job[i]

JobLeft(j, s) ==
    /\ OnlyJob(j)
    /\ job'[j].status = s /\ job'[j].token = 0 /\ ~job'[j].leased
    /\ job'[j].claims = job[j].claims
    /\ job'[j].sent = job[j].sent
    /\ job'[j].found = job[j].found
    /\ job'[j].health = job[j].health

JobExpired(j) ==
    /\ OnlyJob(j)
    /\ ~job'[j].leased
    /\ job'[j].status = job[j].status
    /\ job'[j].claims = job[j].claims
    /\ job'[j].token = job[j].token
    /\ job'[j].sent = job[j].sent
    /\ job'[j].found = job[j].found
    /\ job'[j].health = job[j].health

JobClaimed(j) ==
    /\ OnlyJob(j)
    /\ job'[j].status = "RUNNING" /\ job'[j].leased
    /\ job'[j].claims = job[j].claims + 1 /\ job'[j].token = job[j].claims + 1
    /\ job'[j].sent = job[j].sent
    /\ job'[j].found = job[j].found
    /\ job'[j].health = job[j].health

JobNoted(j) ==
    /\ OnlyJob(j)
    /\ job'[j].status = job[j].status
    /\ job'[j].claims = job[j].claims
    /\ job'[j].token = job[j].token
    /\ job'[j].leased = job[j].leased

JobQueued(j, known) ==
    /\ OnlyJob(j)
    /\ job'[j].status = "QUEUED" /\ job'[j].claims = 0 /\ job'[j].token = 0
    /\ ~job'[j].leased /\ ~job'[j].sent /\ job'[j].found = known
    /\ job'[j].health = "NONE"

OnlyWorker(w) ==
    /\ worker' \in [Workers -> WorkerRow]
    /\ \A v \in Workers : v # w => worker'[v] = worker[v]

Moved(w, pc) ==
    /\ OnlyWorker(w)
    /\ worker'[w].pc = pc
    /\ worker'[w].job = worker[w].job
    /\ worker'[w].token = worker[w].token

Gone(w) == OnlyWorker(w) /\ worker'[w].pc = "idle"

LEMMA PutRow ==
    ASSUME job \in [Jobs -> Row], NEW j \in Jobs, NEW r \in Row, job' = [job EXCEPT ![j] = r]
    PROVE  OnlyJob(j) /\ job'[j] = r
  BY DEF OnlyJob

LEMMA Typed ==
    ASSUME TypeOK
    PROVE  job \in [Jobs -> Row] /\ worker \in [Workers -> WorkerRow]
  BY DEF TypeOK, Row, WorkerRow

\* A row with one field replaced, field by field.
LEMMA RowStatus ==
    ASSUME NEW r \in Row, NEW s \in Active \cup Ended
    PROVE  LET n == [r EXCEPT !.status = s] IN
           /\ n \in Row /\ n.status = s /\ n.claims = r.claims /\ n.token = r.token
           /\ n.leased = r.leased /\ n.sent = r.sent /\ n.found = r.found
           /\ n.health = r.health
  BY DEF Row

LEMMA RowToken ==
    ASSUME NEW r \in Row, NEW t \in 0..MaxClaims
    PROVE  LET n == [r EXCEPT !.token = t] IN
           /\ n \in Row /\ n.token = t /\ n.status = r.status /\ n.claims = r.claims
           /\ n.leased = r.leased /\ n.sent = r.sent /\ n.found = r.found
           /\ n.health = r.health
  BY DEF Row

LEMMA RowClaims ==
    ASSUME NEW r \in Row, NEW t \in 0..MaxClaims
    PROVE  LET n == [r EXCEPT !.claims = t] IN
           /\ n \in Row /\ n.claims = t /\ n.status = r.status /\ n.token = r.token
           /\ n.leased = r.leased /\ n.sent = r.sent /\ n.found = r.found
           /\ n.health = r.health
  BY DEF Row

LEMMA RowLeased ==
    ASSUME NEW r \in Row, NEW b \in BOOLEAN
    PROVE  LET n == [r EXCEPT !.leased = b] IN
           /\ n \in Row /\ n.leased = b /\ n.status = r.status /\ n.claims = r.claims
           /\ n.token = r.token /\ n.sent = r.sent /\ n.found = r.found
           /\ n.health = r.health
  BY DEF Row

LEMMA LeftJob ==
    ASSUME TypeOK, NEW j \in Jobs, NEW s \in {"QUEUED"} \cup Ended, job' = Unclaimed(j, s)
    PROVE  JobLeft(j, s)
<1> DEFINE q == [job[j] EXCEPT !.status = s]
           p == [q EXCEPT !.token = 0]
           r == [p EXCEPT !.leased = FALSE]
<1>1. job[j] \in Row
  BY Typed
<1>2. /\ r \in Row /\ r.status = s /\ r.token = 0 /\ ~r.leased
      /\ r.claims = job[j].claims /\ r.sent = job[j].sent
      /\ r.found = job[j].found /\ r.health = job[j].health
  <2>1. s \in Active \cup Ended /\ 0 \in 0..MaxClaims
    BY ProvisioningAssumption DEF Active
  <2>2. /\ q \in Row /\ q.status = s
        /\ q.claims = job[j].claims /\ q.sent = job[j].sent
        /\ q.found = job[j].found /\ q.health = job[j].health
    BY <1>1, <2>1, RowStatus
  <2> HIDE DEF q
  <2>3. /\ p \in Row /\ p.status = s /\ p.token = 0
        /\ p.claims = q.claims /\ p.sent = q.sent
        /\ p.found = q.found /\ p.health = q.health
    BY <2>1, <2>2, RowToken
  <2> HIDE DEF p
  <2> QED
    BY <2>2, <2>3, RowLeased
<1>3. OnlyJob(j) /\ job'[j] = r
  <2> HIDE DEF r
  <2>1. job' = [job EXCEPT ![j] = r]
    BY DEF Unclaimed, r
  <2> QED
    BY <1>2, <2>1, PutRow, Typed
<1> QED
  BY <1>2, <1>3 DEF JobLeft

LEMMA ExpiredJob ==
    ASSUME TypeOK, NEW j \in Jobs, job' = [job EXCEPT ![j] = [@ EXCEPT !.leased = FALSE]]
    PROVE  JobExpired(j)
<1> DEFINE r == [job[j] EXCEPT !.leased = FALSE]
<1>1. job[j] \in Row
  BY Typed
<1>2. /\ r \in Row /\ r.status = job[j].status /\ r.token = job[j].token /\ ~r.leased
      /\ r.claims = job[j].claims /\ r.sent = job[j].sent
      /\ r.found = job[j].found /\ r.health = job[j].health
  BY <1>1 DEF Row
<1>3. OnlyJob(j) /\ job'[j] = r
  <2> HIDE DEF r
  <2>1. job' = [job EXCEPT ![j] = r]
    BY DEF r
  <2> QED
    BY <1>2, <2>1, PutRow, Typed
<1> QED
  BY <1>2, <1>3 DEF JobExpired

LEMMA ClaimedJob ==
    ASSUME TypeOK, JobShape, NEW w \in Workers, NEW j \in Jobs, Claim(w, j)
    PROVE  /\ JobClaimed(j)
           /\ OnlyWorker(w)
           /\ worker'[w].pc = "claimed" /\ worker'[w].job = j
           /\ worker'[w].token = job[j].claims + 1
<1> DEFINE n == job[j].claims + 1
           q == [job[j] EXCEPT !.status = "RUNNING"]
           p == [q EXCEPT !.claims = n]
           o == [p EXCEPT !.token = n]
           r == [o EXCEPT !.leased = TRUE]
           k == [pc |-> "claimed", job |-> j, token |-> job[j].claims + 1]
<1>1. job[j] \in Row /\ job[j].claims < MaxClaims
  BY Typed DEF Claim, Claimable, JobShape, Active
<1>2. /\ r \in Row /\ r.status = "RUNNING" /\ r.token = job[j].claims + 1 /\ r.leased
      /\ r.claims = job[j].claims + 1 /\ r.sent = job[j].sent
      /\ r.found = job[j].found /\ r.health = job[j].health
  <2>1. n \in 0..MaxClaims
    BY <1>1, ProvisioningAssumption DEF Row
  <2>2. /\ q \in Row /\ q.status = "RUNNING" /\ q.sent = job[j].sent
        /\ q.found = job[j].found /\ q.health = job[j].health
        /\ q.claims = job[j].claims
    BY <1>1, RowStatus DEF Active
  <2> HIDE DEF q
  <2>3. /\ p \in Row /\ p.status = "RUNNING" /\ p.claims = n
        /\ p.sent = q.sent /\ p.found = q.found /\ p.health = q.health
    BY <2>1, <2>2, RowClaims
  <2> HIDE DEF n
  <2> HIDE DEF p
  <2>4. /\ o \in Row /\ o.status = "RUNNING" /\ o.claims = n /\ o.token = n
        /\ o.sent = p.sent /\ o.found = p.found /\ o.health = p.health
    BY <2>1, <2>3, RowToken
  <2> HIDE DEF o
  <2>5. /\ r \in Row /\ r.status = "RUNNING" /\ r.claims = n /\ r.token = n /\ r.leased
        /\ r.sent = o.sent /\ r.found = o.found /\ r.health = o.health
    BY <2>4, RowLeased
  <2> HIDE DEF r
  <2> QED
    BY <2>2, <2>3, <2>4, <2>5 DEF n
<1>3. k \in WorkerRow
  BY <1>1, ProvisioningAssumption DEF WorkerRow, Row
<1>4. OnlyJob(j) /\ job'[j] = r
  <2>1. job' = [job EXCEPT ![j] = r]
    BY DEF Claim
  <2> HIDE DEF r
  <2> QED
    BY <1>2, <2>1, PutRow, Typed
<1>5. OnlyWorker(w) /\ worker'[w] = k
  <2> HIDE DEF k
  <2>1. worker' = [worker EXCEPT ![w] = k]
    BY DEF Claim, k
  <2> QED
    BY <1>3, <2>1, Typed DEF OnlyWorker
<1> QED
  BY <1>2, <1>4, <1>5 DEF JobClaimed

\* What a worker notes on its job leaves the lease alone.
LEMMA NotedJob ==
    ASSUME TypeOK, NEW j \in Jobs, NEW r \in Row, job' = [job EXCEPT ![j] = r],
           r.status = job[j].status, r.claims = job[j].claims,
           r.token = job[j].token, r.leased = job[j].leased
    PROVE  JobNoted(j) /\ job'[j] = r
  BY PutRow, Typed DEF JobNoted

LEMMA SentJob ==
    ASSUME TypeOK, NEW j \in Jobs, job' = [job EXCEPT ![j] = [@ EXCEPT !.sent = TRUE]]
    PROVE  /\ JobNoted(j) /\ job'[j].sent
           /\ job'[j].found = job[j].found /\ job'[j].health = job[j].health
<1> DEFINE r == [job[j] EXCEPT !.sent = TRUE]
<1>1. /\ r \in Row /\ r.status = job[j].status /\ r.token = job[j].token
      /\ r.claims = job[j].claims /\ r.leased = job[j].leased
      /\ r.sent /\ r.found = job[j].found /\ r.health = job[j].health
  BY Typed DEF Row
<1> HIDE DEF r
<1>2. job' = [job EXCEPT ![j] = r]
  BY DEF r
<1> QED
  BY <1>1, <1>2, NotedJob

LEMMA FoundJob ==
    ASSUME TypeOK, NEW j \in Jobs, job' = [job EXCEPT ![j] = [@ EXCEPT !.found = TRUE]]
    PROVE  /\ JobNoted(j) /\ job'[j].found
           /\ job'[j].sent = job[j].sent /\ job'[j].health = job[j].health
<1> DEFINE r == [job[j] EXCEPT !.found = TRUE]
<1>1. /\ r \in Row /\ r.status = job[j].status /\ r.token = job[j].token
      /\ r.claims = job[j].claims /\ r.leased = job[j].leased
      /\ r.sent = job[j].sent /\ r.found /\ r.health = job[j].health
  BY Typed DEF Row
<1> HIDE DEF r
<1>2. job' = [job EXCEPT ![j] = r]
  BY DEF r
<1> QED
  BY <1>1, <1>2, NotedJob

LEMMA ProbedJob ==
    ASSUME TypeOK, NEW j \in Jobs, NEW h \in {"OK", "FAILED"},
           job' = [job EXCEPT ![j] = [@ EXCEPT !.health = h]]
    PROVE  /\ JobNoted(j) /\ job'[j].health = h
           /\ job'[j].sent = job[j].sent /\ job'[j].found = job[j].found
<1> DEFINE r == [job[j] EXCEPT !.health = h]
<1>1. /\ r \in Row /\ r.status = job[j].status /\ r.token = job[j].token
      /\ r.claims = job[j].claims /\ r.leased = job[j].leased
      /\ r.sent = job[j].sent /\ r.found = job[j].found /\ r.health = h
  BY Typed DEF Row
<1> HIDE DEF r
<1>2. job' = [job EXCEPT ![j] = r]
  BY DEF r
<1> QED
  BY <1>1, <1>2, NotedJob

LEMMA QueuedJob ==
    ASSUME TypeOK, NEW j \in Jobs, NEW known \in BOOLEAN,
           job' = [job EXCEPT ![j] = Queued(known)]
    PROVE  JobQueued(j, known)
<1>1. /\ Queued(known) \in Row /\ Queued(known).status = "QUEUED"
      /\ Queued(known).claims = 0 /\ Queued(known).token = 0 /\ ~Queued(known).leased
      /\ ~Queued(known).sent /\ Queued(known).found = known
      /\ Queued(known).health = "NONE"
  <2> DEFINE q == [NoJob EXCEPT !.status = "QUEUED"]
             r == [q EXCEPT !.found = known]
  <2>1. NoJob \in Row
    BY ProvisioningAssumption DEF NoJob, Row
  <2>2. /\ q \in Row /\ q.status = "QUEUED" /\ q.claims = 0 /\ q.token = 0
        /\ ~q.leased /\ ~q.sent /\ q.health = "NONE"
    BY <2>1, RowStatus DEF NoJob, Active
  <2> HIDE DEF q
  <2>3. /\ r \in Row /\ r.status = "QUEUED" /\ r.claims = 0 /\ r.token = 0
        /\ ~r.leased /\ ~r.sent /\ r.found = known /\ r.health = "NONE"
    BY <2>2 DEF Row
  <2>4. Queued(known) = r
    BY DEF Queued, q
  <2> QED
    BY <2>3, <2>4
<1> QED
  BY <1>1, PutRow, Typed DEF JobQueued

LEMMA MovedWorker ==
    ASSUME TypeOK, NEW w \in Workers, NEW pc, GoTo(w, pc),
           pc \in Errors \cup {"creating", "looking", "resuming", "marking", "marked",
                               "persisting", "polling", "recorded", "probing",
                               "finalizing", "reconciling"}
    PROVE  Moved(w, pc)
<1> DEFINE k == [worker[w] EXCEPT !.pc = pc]
<1>1. k \in WorkerRow /\ k.pc = pc /\ k.job = worker[w].job /\ k.token = worker[w].token
  BY Typed DEF WorkerRow
<1> HIDE DEF k
<1>2. worker' = [worker EXCEPT ![w] = k]
  BY DEF GoTo, k
<1> QED
  BY <1>1, <1>2, Typed DEF Moved, OnlyWorker

LEMMA GoneWorker ==
    ASSUME TypeOK, NEW w \in Workers, Leave(w)
    PROVE  Gone(w)
<1>1. Idle \in WorkerRow /\ Idle.pc = "idle"
  BY ProvisioningAssumption DEF Idle, WorkerRow, Jobs, Poll
<1> QED
  BY <1>1, Typed DEF Leave, Gone, OnlyWorker

(***************************************************************************)
(* Every step does one of eight things to the jobs and the workers         *)
(***************************************************************************)

Enqueued ==
    \E j \in Jobs, known \in BOOLEAN :
        /\ ~ActiveJob /\ ~Exists(j) /\ (known <=> j = Poll)
        /\ JobQueued(j, known)
        /\ worker' = worker

LeaseEnded ==
    \E j \in Jobs :
        /\ job[j].status = "RUNNING" /\ job[j].leased /\ job[j].claims < MaxClaims
        /\ JobExpired(j)
        /\ worker' = worker

Recovered ==
    \E j \in Jobs :
        /\ job[j].status = "RUNNING" /\ ~job[j].leased
        /\ JobLeft(j, "QUEUED")
        /\ worker' = worker

Taken ==
    \E w \in Workers, j \in Jobs :
        /\ ~Holding(w) /\ job[j].status = "QUEUED"
        /\ JobClaimed(j)
        /\ OnlyWorker(w)
        /\ worker'[w].pc = "claimed" /\ worker'[w].job = j
        /\ worker'[w].token = job[j].claims + 1

Steps(w) == \E pc : pc # "idle" /\ Moved(w, pc)

Walked == \E w \in Workers : Holding(w) /\ job' = job /\ (Gone(w) \/ Steps(w))

Noted ==
    \E w \in Workers :
        Holding(w) /\ Fenced(w) /\ JobNoted(worker[w].job) /\ Steps(w)

Closed ==
    \E w \in Workers, s \in Ended :
        Holding(w) /\ Fenced(w) /\ JobLeft(worker[w].job, s) /\ Gone(w)

JobStep ==
    \/ job' = job /\ worker' = worker
    \/ Enqueued \/ LeaseEnded \/ Recovered \/ Taken \/ Walked \/ Noted \/ Closed

LEMMA Latest ==
    ASSUME NEW n \in 0..MaxAttempts, Prefix(n)
    PROVE  LatestCreate = n
<1>1. CASE n = 0
  BY <1>1 DEF LatestCreate, Prefix, Attempts
<1>2. CASE n # 0
  <2>1. n \in Attempts /\ Exists(n)
    BY <1>2, ProvisioningAssumption DEF Attempts, Prefix
  <2>2. \A b \in Attempts : Exists(b) => b <= n
    BY DEF Prefix
  <2>3. \A a \in Attempts : (Exists(a) /\ \A b \in Attempts : Exists(b) => b <= a) => a = n
    BY <2>1, <2>2, ProvisioningAssumption DEF Attempts
  <2> QED
    BY <2>1, <2>2, <2>3 DEF LatestCreate
<1> QED
  BY <1>1, <1>2

\* A retry queues the attempt after the latest, which does not exist yet.
LEMMA NextAttempt ==
    ASSUME NEW n \in 0..MaxAttempts, Prefix(n), Retry
    PROVE  /\ LatestCreate = n /\ n + 1 \in Attempts /\ ~Exists(n + 1)
           /\ job' = [job EXCEPT ![n + 1] = Queued(FALSE)]
<1>1. LatestCreate = n
  BY Latest
<1>2. n + 1 \in Attempts
  BY <1>1, ProvisioningAssumption DEF Retry, Attempts
<1> QED
  BY <1>1, <1>2, ProvisioningAssumption DEF Retry, Prefix

LEMMA EnqueueStep ==
    ASSUME IInv, Dispatch \/ Reconcile \/ Retry
    PROVE  (job' = job /\ worker' = worker) \/ Enqueued
<1> USE DEF IInv
<1>1. CASE Dispatch
  <2>1. CASE job' = job
    BY <1>1, <2>1 DEF Dispatch
  <2>2. CASE job' = [job EXCEPT ![1] = Queued(FALSE)]
    <3>1. 1 \in Jobs /\ 1 # Poll /\ 1 \in Attempts
      BY ProvisioningAssumption DEF Jobs, Attempts, Poll
    <3>2. ~ActiveJob /\ ~Exists(1)
      BY <1>1, <3>1 DEF Dispatch, Order, Quiet
    <3>3. JobQueued(1, FALSE) /\ worker' = worker
      BY <1>1, <2>2, <3>1, QueuedJob DEF Dispatch
    <3> QED
      BY <3>1, <3>2, <3>3 DEF Enqueued
  <2> QED
    BY <1>1, <2>1, <2>2 DEF Dispatch
<1>2. CASE Reconcile
  <2>1. CASE Exists(Poll)
    BY <1>2, <2>1 DEF Reconcile
  <2>2. CASE ~Exists(Poll)
    <3>1. Poll \in Jobs
      BY DEF Jobs
    <3>2. ~ActiveJob
      BY <1>2 DEF Reconcile, AcceptsReconciliation, Order, Quiet
    <3>3. JobQueued(Poll, TRUE) /\ worker' = worker
      BY <1>2, <2>2, <3>1, QueuedJob DEF Reconcile
    <3> QED
      BY <2>2, <3>1, <3>2, <3>3 DEF Enqueued
  <2> QED
    BY <2>1, <2>2
<1>3. CASE Retry
  <2>1. PICK n \in 0..MaxAttempts : Prefix(n)
    BY DEF Order
  <2>2. /\ n + 1 \in Attempts /\ ~Exists(n + 1)
        /\ job' = [job EXCEPT ![n + 1] = Queued(FALSE)]
    BY <1>3, <2>1, NextAttempt
  <2>3. n + 1 \in Jobs /\ n + 1 # Poll
    BY <2>2 DEF Jobs, Attempts, Poll
  <2>4. ~ActiveJob
    BY <1>3 DEF Retry, OffersRetry, Stopped, Order, Quiet
  <2>5. JobQueued(n + 1, FALSE) /\ worker' = worker
    BY <1>3, <2>2, <2>3, QueuedJob DEF Retry
  <2> QED
    BY <2>2, <2>3, <2>4, <2>5 DEF Enqueued
<1> QED
  BY <1>1, <1>2, <1>3

LEMMA LeaseStep ==
    ASSUME IInv, NEW j \in Jobs
    PROVE  (ExpireLease(j) => LeaseEnded) /\ (RecoverExpired(j) => Recovered)
<1> USE DEF IInv
<1>1. ExpireLease(j) => LeaseEnded
  BY ExpiredJob DEF ExpireLease, LeaseEnded
<1>2. RecoverExpired(j) => Recovered
  BY LeftJob DEF RecoverExpired, Recovered
<1> QED
  BY <1>1, <1>2

LEMMA ClaimStep ==
    ASSUME IInv, NEW w \in Workers, NEW j \in Jobs, Claim(w, j)
    PROVE  Taken
<1>1. ~Holding(w) /\ job[j].status = "QUEUED"
  BY DEF Claim, Claimable, Holding
<1> QED
  BY <1>1, ClaimedJob DEF IInv, Taken

\* The steps of a run that leave the jobs as they are.
LEMMA WalkStep ==
    ASSUME IInv, NEW w \in Workers,
           \/ Start(w) \/ CheckBeforeCreate(w) \/ CreateServer(w) \/ Look(w)
           \/ Resume(w) \/ PollFails(w) \/ StartHealthCheck(w) \/ Abandon(w) \/ Crash(w)
    PROVE  Walked
<1> USE DEF IInv
<1>1. Holding(w) /\ job' = job
  BY DEF Holding, Start, CheckBeforeCreate, CreateServer, Look, Resume, PollFails,
         StartHealthCheck, Abandon, Crash, Errors
<1>2. CASE Start(w)
  <2>1. \/ GoTo(w, "finalizing") \/ GoTo(w, "billing_contract_blocked")
        \/ GoTo(w, "resuming") \/ GoTo(w, "marking")
        \/ GoTo(w, "creating") \/ GoTo(w, "looking")
    BY <1>2 DEF Start, Route
  <2>2. Steps(w)
    BY <2>1, MovedWorker DEF Steps, Errors
  <2> QED
    BY <1>1, <2>2 DEF Walked
<1>3. CASE CheckBeforeCreate(w) \/ CreateServer(w) \/ Look(w) \/ Resume(w) \/ PollFails(w)
             \/ StartHealthCheck(w)
  <2>1. \E pc \in {"creating", "persisting", "reconciling", "polling", "probing"}
                   \cup Errors : GoTo(w, pc)
    BY <1>3 DEF CheckBeforeCreate, CreateServer, Look, Resume, PollFails,
                StartHealthCheck, Errors
  <2>2. Steps(w)
    BY <2>1, MovedWorker DEF Steps, Errors
  <2> QED
    BY <1>1, <2>2 DEF Walked
<1>4. CASE Abandon(w) \/ Crash(w)
  BY <1>1, <1>4, GoneWorker DEF Abandon, Crash, Walked
<1> QED
  BY <1>2, <1>3, <1>4

LEMMA NoteStep ==
    ASSUME IInv, NEW w \in Workers,
           MarkCreateSent(w) \/ PersistTask(w) \/ RecordInstance(w) \/ KeepHealthResult(w)
    PROVE  Noted
<1> USE DEF IInv
<1>1. Holding(w) /\ Fenced(w) /\ worker[w].job \in Jobs
  BY Typed DEF Holding, MarkCreateSent, PersistTask, RecordInstance, KeepHealthResult,
               WorkerRow
<1>2. JobNoted(worker[w].job)
  <2>1. CASE MarkCreateSent(w)
    BY <1>1, <2>1, SentJob DEF MarkCreateSent
  <2>2. CASE PersistTask(w) \/ RecordInstance(w)
    BY <1>1, <2>2, FoundJob DEF PersistTask, RecordInstance
  <2>3. CASE KeepHealthResult(w)
    <3>1. PICK h \in {"OK", "FAILED"} :
            job' = [job EXCEPT ![worker[w].job] = [@ EXCEPT !.health = h]]
      BY <2>3 DEF KeepHealthResult
    <3> QED
      BY <1>1, <3>1, ProbedJob
  <2> QED
    BY <2>1, <2>2, <2>3
<1>3. Steps(w)
  <2>1. GoTo(w, "marked") \/ GoTo(w, "polling") \/ GoTo(w, "recorded") \/ GoTo(w, "finalizing")
    BY DEF MarkCreateSent, PersistTask, RecordInstance, KeepHealthResult
  <2> QED
    BY <2>1, MovedWorker DEF Steps
<1> QED
  BY <1>1, <1>2, <1>3 DEF Noted

LEMMA CloseStep ==
    ASSUME IInv, NEW w \in Workers, Finalize(w) \/ StopToReconcile(w) \/ Fail(w)
    PROVE  Closed
<1> USE DEF IInv
<1>1. Holding(w) /\ Fenced(w) /\ worker[w].job \in Jobs
  BY Typed DEF Holding, Finalize, StopToReconcile, Fail, Errors, WorkerRow
<1>2. PICK s \in Ended : job' = Unclaimed(worker[w].job, s)
  <2>1. CASE Finalize(w) \/ StopToReconcile(w)
    BY <2>1 DEF Finalize, StopToReconcile, Ended
  <2>2. CASE Fail(w)
    <3>1. Outcome(worker[w].job, worker[w].pc)[1] \in Ended
      BY DEF Outcome, Ended
    <3> QED
      BY <2>2, <3>1 DEF Fail
  <2> QED
    BY <2>1, <2>2
<1>3. JobLeft(worker[w].job, s)
  BY <1>1, <1>2, LeftJob
<1>4. Gone(w)
  BY GoneWorker DEF Finalize, StopToReconcile, Fail
<1> QED
  BY <1>1, <1>3, <1>4 DEF Closed

LEMMA EveryStep ==
    ASSUME IInv, Next
    PROVE  JobStep
<1>1. CASE Approve \/ Hold \/ ConfirmNoResource \/ Refund
  BY <1>1 DEF Approve, Hold, ConfirmNoResource, Refund, JobStep
<1>2. CASE Dispatch \/ Reconcile \/ Retry
  BY <1>2, EnqueueStep DEF JobStep
<1>3. CASE \E j \in Jobs : ExpireLease(j) \/ RecoverExpired(j)
  BY <1>3, LeaseStep DEF JobStep
<1>4. CASE \E w \in Workers, j \in Jobs : Claim(w, j)
  BY <1>4, ClaimStep DEF JobStep
<1>5. CASE \E w \in Workers : Process(w) \/ Crash(w)
  BY <1>5, WalkStep, NoteStep, CloseStep DEF JobStep, Process
<1>6. CASE \E c \in late : ArriveLate(c)
  BY <1>6 DEF ArriveLate, JobStep
<1> QED
  BY <1>1, <1>2, <1>3, <1>4, <1>5, <1>6 DEF Next, Admin

\* The same, with the actions that have the effect.
LEMMA StepCases ==
    ASSUME IInv, Next
    PROVE  \/ job' = job \/ Recovered \/ Taken
           \/ LeaseEnded /\ \E j \in Jobs : ExpireLease(j)
           \/ Enqueued /\ (Dispatch \/ Reconcile \/ Retry)
           \/ /\ Noted
              /\ \E w \in Workers : \/ MarkCreateSent(w) \/ PersistTask(w)
                                    \/ RecordInstance(w) \/ KeepHealthResult(w)
           \/ /\ Closed
              /\ \E w \in Workers : Finalize(w) \/ StopToReconcile(w) \/ Fail(w)
<1>1. CASE Approve \/ Hold \/ ConfirmNoResource \/ Refund
  BY <1>1 DEF Approve, Hold, ConfirmNoResource, Refund
<1>2. CASE Dispatch \/ Reconcile \/ Retry
  BY <1>2, EnqueueStep
<1>3. CASE \E j \in Jobs : ExpireLease(j) \/ RecoverExpired(j)
  BY <1>3, LeaseStep
<1>4. CASE \E w \in Workers, j \in Jobs : Claim(w, j)
  BY <1>4, ClaimStep
<1>5. CASE \E w \in Workers : Process(w) \/ Crash(w)
  BY <1>5, WalkStep, NoteStep, CloseStep DEF Process, Walked
<1>6. CASE \E c \in late : ArriveLate(c)
  BY <1>6 DEF ArriveLate
<1> QED
  BY <1>1, <1>2, <1>3, <1>4, <1>5, <1>6 DEF Next, Admin

(***************************************************************************)
(* Types, leases and claim tokens                                          *)
(***************************************************************************)

LEMMA TypeStep ==
    ASSUME IInv, Next
    PROVE  TypeOK'
<1> USE DEF IInv
<1>1. job' \in [Jobs -> Row] /\ worker' \in [Workers -> WorkerRow]
  <2>1. JobStep
    BY EveryStep
  <2> QED
    BY <2>1, Typed DEF JobStep, Enqueued, LeaseEnded, Recovered, Taken, Walked, Noted,
         Closed, JobQueued, JobExpired, JobLeft, JobClaimed, JobNoted, OnlyJob,
         Steps, Moved, Gone, OnlyWorker
<1>2. servers' \subseteq Calls /\ late' \subseteq Calls
  <2>1. CASE \E w \in Workers : CreateServer(w) \/ Crash(w)
    <3>1. PICK w \in Workers : CreateServer(w) \/ Crash(w)
      BY <2>1
    <3>2. worker[w].pc = "creating" => Call(w) \in Calls
      <4>1. worker[w] \in WorkerRow
        BY Typed
      <4>2. ASSUME worker[w].pc = "creating"
            PROVE  worker[w].job \in Attempts /\ worker[w].token \in 1..MaxClaims
        <5>1. worker[w].job \in Attempts /\ worker[w].job \in Jobs
          BY <4>2 DEF Sends, Sending, Jobs
        <5>2. worker[w].token \in 1..job[worker[w].job].claims
          BY <4>2 DEF Tokens, Holding
        <5>3. job[worker[w].job].claims \in 0..MaxClaims
          BY <5>1, Typed DEF Row
        <5> QED
          BY <5>1, <5>2, <5>3, ProvisioningAssumption
      <4> QED
        BY <4>2 DEF Call, Calls
    <3>3. CASE CreateServer(w)
      BY <3>2, <3>3 DEF CreateServer, Executed, Delayed, NotExecuted, TypeOK
    <3>4. CASE Crash(w)
      BY <3>2, <3>4 DEF Crash, Executed, Delayed, NotExecuted, TypeOK
    <3> QED
      BY <3>1, <3>3, <3>4
  <2>2. CASE \E c \in late : ArriveLate(c)
    BY <2>2 DEF ArriveLate, TypeOK
  <2>3. CASE UNCHANGED <<servers, late>>
    BY <2>3 DEF TypeOK
  <2> QED
    BY <2>1, <2>2, <2>3 DEF Next, Admin, Process, Approve, Hold, Dispatch, ExpireLease,
         RecoverExpired, Claim, Start, MarkCreateSent, CheckBeforeCreate, Look, Resume,
         PersistTask, PollFails, RecordInstance, StartHealthCheck, KeepHealthResult,
         Finalize, StopToReconcile, Fail, Abandon, Reconcile, ConfirmNoResource, Retry,
         Refund
<1>3. absence' \in 0..MaxAttempts /\ instance' \in BOOLEAN
  <2>1. CASE ConfirmNoResource
    <3>1. PICK n \in 0..MaxAttempts : Prefix(n)
      BY DEF Order
    <3>2. LatestCreate = n
      BY <3>1, Latest
    <3> QED
      BY <2>1, <3>2 DEF ConfirmNoResource, TypeOK
  <2>2. CASE Retry
    BY <2>2, ProvisioningAssumption DEF Retry, TypeOK
  <2>3. CASE absence' = absence
    <3>1. instance' = instance \/ instance' = TRUE
      BY DEF Next, Admin, Process, Approve, Hold, Dispatch, ExpireLease,
         RecoverExpired, Claim, Start, MarkCreateSent, CheckBeforeCreate, Look, Resume,
         PersistTask, PollFails, RecordInstance, StartHealthCheck, KeepHealthResult,
         Finalize, StopToReconcile, Fail, Abandon, Reconcile, ConfirmNoResource, Retry,
         Refund, CreateServer, Crash, ArriveLate
    <3> QED
      BY <2>3, <3>1 DEF TypeOK
  <2> QED
    BY <2>1, <2>2, <2>3 DEF Next, Admin, Process, Approve, Hold, Dispatch, ExpireLease,
         RecoverExpired, Claim, Start, MarkCreateSent, CheckBeforeCreate, Look, Resume,
         PersistTask, PollFails, RecordInstance, StartHealthCheck, KeepHealthResult,
         Finalize, StopToReconcile, Fail, Abandon, Reconcile, Refund, CreateServer,
         Crash, ArriveLate
<1>4. status' \in {"WAITING_ADMIN_FUNDING", "FUNDING_CONFIRMED", "MANUAL_REVIEW",
                   "QUEUED", "PROVISIONING", "NEEDS_RECONCILIATION", "FAILED", "REFUNDED"}
      /\ flow' \in {"PAID", "PROVISION_APPROVED", "PROVISIONING_SUBMITTED", "PROVISIONING",
                    "PROVISIONING_RECONCILING", "PROVISIONING_RETRYABLE",
                    "PROVISIONING_MANUAL_REVIEW", "HEALTH_CHECKING", "HEALTH_CHECK_FAILED",
                    "WAITING_ADMIN_DELIVERY_APPROVAL", "CANCELLED"}
  <2>1. CASE UNCHANGED <<status, flow>>
    BY <2>1 DEF TypeOK
  <2>2. CASE Approve \/ Hold
    BY <2>2 DEF Approve, Hold, TypeOK
  <2>3. CASE Reconcile \/ ConfirmNoResource \/ Retry \/ Refund
    BY <2>3 DEF Reconcile, ConfirmNoResource, Retry, Refund
  <2>4. CASE Dispatch
    BY <2>4 DEF Dispatch
  <2>5. CASE \E w \in Workers, j \in Jobs : Claim(w, j)
    BY <2>5 DEF Claim, TypeOK
  <2>6. CASE \E w \in Workers : StartHealthCheck(w)
    BY <2>6 DEF StartHealthCheck, TypeOK
  <2>7. CASE \E w \in Workers : KeepHealthResult(w)
    BY <2>7 DEF KeepHealthResult
  <2>8. CASE \E w \in Workers : StopToReconcile(w)
    BY <2>8 DEF StopToReconcile
  <2>9. CASE \E w \in Workers : Fail(w)
    <3>1. PICK w \in Workers, error \in Errors :
            /\ status' = Outcome(worker[w].job, error)[2]
            /\ flow' = Outcome(worker[w].job, error)[3]
      BY <2>9 DEF Fail
    <3> QED
      BY <3>1 DEF Outcome
  <2>10. CASE \E j \in Jobs : ExpireLease(j) \/ RecoverExpired(j)
    BY <2>1, <2>10 DEF ExpireLease, RecoverExpired
  <2>11. CASE \/ \E w \in Workers : Crash(w)
              \/ \E c \in late : ArriveLate(c)
    BY <2>1, <2>11 DEF Crash, ArriveLate
  <2>12. CASE \E w \in Workers : Start(w) \/ MarkCreateSent(w) \/ CheckBeforeCreate(w)
                                 \/ CreateServer(w) \/ Look(w) \/ Resume(w)
    BY <2>1, <2>12 DEF Start, MarkCreateSent, CheckBeforeCreate, CreateServer, Look, Resume
  <2>13. CASE \E w \in Workers : PersistTask(w) \/ PollFails(w) \/ RecordInstance(w)
                                 \/ Finalize(w) \/ Abandon(w)
    BY <2>1, <2>13 DEF PersistTask, PollFails, RecordInstance, Finalize, Abandon
  <2> QED
    BY <2>2, <2>3, <2>4, <2>5, <2>6, <2>7, <2>8, <2>9, <2>10, <2>11, <2>12, <2>13
       DEF Next, Admin, Process
<1> QED
  BY <1>1, <1>2, <1>3, <1>4 DEF TypeOK, Row, WorkerRow

LEMMA ShapeStep ==
    ASSUME IInv, JobStep
    PROVE  JobShape'
<1> USE DEF IInv
<1>1. job \in [Jobs -> Row]
  BY Typed
<1>2. CASE job' = job
  BY <1>2 DEF JobShape
<1>3. CASE Enqueued
  BY <1>3, ProvisioningAssumption DEF Enqueued, JobQueued, OnlyJob, JobShape, Active
<1>4. CASE LeaseEnded
  BY <1>1, <1>4, ProvisioningAssumption DEF LeaseEnded, JobExpired, OnlyJob, JobShape, Active
<1>5. CASE Recovered
  BY <1>1, <1>5, ProvisioningAssumption DEF Recovered, JobLeft, OnlyJob, JobShape, Active
<1>6. CASE Taken
  <2>1. PICK j \in Jobs : JobClaimed(j)
    BY <1>6 DEF Taken
  <2>2. job[j].claims \in Nat
    BY <1>1, ProvisioningAssumption DEF Row
  <2>3. /\ job'[j].status = "RUNNING" /\ job'[j].leased
        /\ job'[j].claims = job[j].claims + 1 /\ job'[j].token = job[j].claims + 1
        /\ \A i \in Jobs : i # j => job'[i] = job[i]
    BY <2>1 DEF JobClaimed, OnlyJob
  <2> QED
    BY <2>2, <2>3 DEF JobShape
<1>7. CASE Noted
  <2>1. PICK w \in Workers : Fenced(w) /\ JobNoted(worker[w].job)
    BY <1>7 DEF Noted
  <2> DEFINE j == worker[w].job
  <2>2. job[j].status = "RUNNING" /\ job[j].leased
    BY <2>1 DEF Fenced, Owns
  <2>3. /\ job'[j].status = job[j].status /\ job'[j].leased = job[j].leased
        /\ job'[j].claims = job[j].claims /\ job'[j].token = job[j].token
        /\ \A i \in Jobs : i # j => job'[i] = job[i]
    BY <2>1 DEF JobNoted, OnlyJob
  <2> HIDE DEF j
  <2> QED
    BY <2>2, <2>3 DEF JobShape
<1>8. CASE Closed
  BY <1>1, <1>8 DEF Closed, JobLeft, OnlyJob, JobShape, Active, Ended
<1> QED
  BY <1>2, <1>3, <1>4, <1>5, <1>6, <1>7, <1>8 DEF JobStep, Walked

\* No step but a claim gives a worker a token, and a claim draws a new one.
LEMMA TokenStep ==
    ASSUME IInv, JobStep
    PROVE  Tokens'
<1> USE DEF IInv
<1>1. job \in [Jobs -> Row] /\ worker \in [Workers -> WorkerRow]
  BY Typed
<1>2. CASE Taken
  <2>1. PICK w \in Workers, j \in Jobs :
             /\ ~Holding(w)
             /\ JobClaimed(j)
             /\ OnlyWorker(w)
             /\ worker'[w].job = j
             /\ worker'[w].token = job[j].claims + 1
    BY <1>2 DEF Taken
  <2>2. job[j].claims \in Nat /\ job'[j].claims = job[j].claims + 1
    BY <1>1, <2>1, ProvisioningAssumption DEF Row, JobClaimed
  <2>3. \A v \in Workers : v # w /\ Holding(v)' =>
           /\ Holding(v) /\ worker'[v] = worker[v]
           /\ worker[v].token \in 1..job[worker[v].job].claims
           /\ worker[v].job \in Jobs
    BY <1>1, <2>1 DEF OnlyWorker, Holding, Tokens, WorkerRow
  <2>4. \A i \in Jobs : job[i].claims \in Nat /\ job'[i].claims \in Nat
                        /\ job'[i].claims >= job[i].claims
    BY <1>1, <2>1, <2>2, ProvisioningAssumption DEF Row, JobClaimed, OnlyJob
  <2>5. ASSUME NEW v \in Workers, Holding(v)'
        PROVE  worker'[v].token \in 1..job'[worker'[v].job].claims
    <3>1. CASE v = w
      BY <2>1, <2>2, <3>1
    <3>2. CASE v # w
      BY <2>3, <2>4, <2>5, <3>2
    <3> QED
      BY <3>1, <3>2
  <2>6. ASSUME NEW v \in Workers, NEW u \in Workers, Holding(v)', Holding(u)',
               worker'[v].job = worker'[u].job, worker'[v].token = worker'[u].token
        PROVE  v = u
    <3>1. \A x \in Workers : x # w /\ Holding(x)' /\ worker'[x].job = j
                             => worker'[x].token # job[j].claims + 1
      BY <2>2, <2>3
    <3>2. v # w /\ u # w => v = u
      BY <2>3, <2>6 DEF Tokens
    <3> QED
      BY <2>1, <2>6, <3>1, <3>2
  <2> QED
    BY <2>5, <2>6 DEF Tokens
<1>3. CASE ~Taken
  <2>1. \A v \in Workers : Holding(v)' =>
           /\ Holding(v)
           /\ worker'[v].job = worker[v].job /\ worker'[v].token = worker[v].token
    BY <1>1, <1>3 DEF JobStep, Enqueued, LeaseEnded, Recovered, Walked, Noted, Closed,
                      Steps, Moved, Gone, OnlyWorker, Holding
  <2>2. \A j \in Jobs : job'[j].claims = job[j].claims
                        \/ \A v \in Workers : ~(Holding(v) /\ worker[v].job = j)
    <3>1. CASE Enqueued
      <4>1. \A j \in Jobs : ~Exists(j) => job[j].claims = 0
        BY DEF Exists, JobShape, NoJob
      <4>2. \A v \in Workers : Holding(v) => Exists(worker[v].job)
        BY <1>1, <4>1 DEF Tokens, WorkerRow
      <4> QED
        BY <3>1, <4>2 DEF Enqueued, JobQueued, OnlyJob
    <3>2. CASE ~Enqueued
      BY <1>3, <3>2 DEF JobStep, LeaseEnded, Recovered, Walked, Noted, Closed,
           JobExpired, JobLeft, JobNoted, OnlyJob
    <3> QED
      BY <3>1, <3>2
  <2>3. \A v \in Workers : worker[v].job \in Jobs
    BY <1>1 DEF WorkerRow
  <2> QED
    BY <2>1, <2>2, <2>3 DEF Tokens
<1> QED
  BY <1>2, <1>3

(***************************************************************************)
(* What a job remembers: sent, found and health                            *)
(***************************************************************************)

\* The steps that change what a job remembers, and nothing else does.
LEMMA NoteFacts ==
    ASSUME IInv, NEW w \in Workers,
           MarkCreateSent(w) \/ PersistTask(w) \/ RecordInstance(w) \/ KeepHealthResult(w)
    PROVE  LET j == worker[w].job IN
           /\ \A i \in Jobs : i # j => job'[i] = job[i]
           /\ MarkCreateSent(w) => job'[j].sent
           /\ ~MarkCreateSent(w) => job'[j].sent = job[j].sent
           /\ ~KeepHealthResult(w) => job'[j].health = job[j].health
           /\ ~(PersistTask(w) \/ RecordInstance(w)) => job'[j].found = job[j].found
<1> DEFINE j == worker[w].job
<1>1. j \in Jobs
  BY Typed DEF IInv, WorkerRow
<1>2. CASE MarkCreateSent(w)
  BY <1>1, <1>2, SentJob DEF IInv, MarkCreateSent, JobNoted, OnlyJob
<1>3. CASE PersistTask(w) \/ RecordInstance(w)
  <2>1. ~MarkCreateSent(w) /\ ~KeepHealthResult(w)
    BY <1>3 DEF PersistTask, RecordInstance, MarkCreateSent, KeepHealthResult
  <2> QED
    BY <1>1, <1>3, <2>1, FoundJob DEF IInv, PersistTask, RecordInstance, JobNoted, OnlyJob
<1>4. CASE KeepHealthResult(w)
  <2>1. ~MarkCreateSent(w)
    BY <1>4 DEF MarkCreateSent, KeepHealthResult
  <2>2. PICK h \in {"OK", "FAILED"} :
          job' = [job EXCEPT ![j] = [@ EXCEPT !.health = h]]
    BY <1>4 DEF KeepHealthResult
  <2> QED
    BY <1>1, <2>1, <1>4, <2>2, ProbedJob DEF IInv, JobNoted, OnlyJob
<1> QED
  BY <1>2, <1>3, <1>4

LEMMA MemoryStep ==
    ASSUME IInv, Next, NEW j \in Jobs
    PROVE  /\ \/ job'[j].health \in {job[j].health, "NONE"}
              \/ \E w \in Workers : KeepHealthResult(w)
           /\ \/ job'[j].sent = job[j].sent
              \/ \E w \in Workers : MarkCreateSent(w) /\ worker[w].job = j
           /\ job[j].sent => job'[j].sent
           /\ \/ job'[j].found = job[j].found
              \/ \E w \in Workers : PersistTask(w) \/ RecordInstance(w)
              \/ j = Poll
<1>1. job \in [Jobs -> Row]
  BY Typed DEF IInv
<1>2. CASE job' = job
  BY <1>2
<1>3. CASE Enqueued
  <2>1. ~Exists(j) => ~job[j].sent /\ ~job[j].found
    BY DEF IInv, JobShape, Exists, NoJob
  <2>2. job[j].sent \in BOOLEAN /\ job[j].found \in BOOLEAN
    BY <1>1 DEF Row
  <2>3. PICK i \in Jobs, known \in BOOLEAN :
          ~Exists(i) /\ (known <=> i = Poll) /\ JobQueued(i, known)
    BY <1>3 DEF Enqueued
  <2>4. CASE i = j
    <3>1. job'[j] \in Row /\ ~job'[j].sent /\ job'[j].health = "NONE"
      BY <2>3, <2>4 DEF JobQueued, OnlyJob
    <3>2. j # Poll => ~job'[j].found
      BY <2>3, <2>4 DEF JobQueued
    <3>3. job'[j].sent \in BOOLEAN /\ job'[j].found \in BOOLEAN
      BY <3>1 DEF Row
    <3> QED
      BY <2>1, <2>2, <2>3, <2>4, <3>1, <3>2, <3>3
  <2>5. CASE i # j
    BY <2>3, <2>5 DEF JobQueued, OnlyJob
  <2> QED
    BY <2>4, <2>5
<1>4. CASE LeaseEnded
  BY <1>4 DEF LeaseEnded, JobExpired, OnlyJob
<1>5. CASE Recovered
  BY <1>5 DEF Recovered, JobLeft, OnlyJob
<1>6. CASE Taken
  BY <1>6 DEF Taken, JobClaimed, OnlyJob
<1>7. CASE Closed
  BY <1>7 DEF Closed, JobLeft, OnlyJob
<1>8. CASE \E w \in Workers : \/ MarkCreateSent(w) \/ PersistTask(w)
                              \/ RecordInstance(w) \/ KeepHealthResult(w)
  <2>1. PICK w \in Workers : \/ MarkCreateSent(w) \/ PersistTask(w)
                             \/ RecordInstance(w) \/ KeepHealthResult(w)
    BY <1>8
  <2>2. worker[w].job = j \/ job'[j] = job[j]
    BY <2>1, NoteFacts
  <2>3. CASE worker[w].job = j
    BY <2>1, <2>3, NoteFacts
  <2> QED
    BY <2>2, <2>3
<1> QED
  BY <1>2, <1>3, <1>4, <1>5, <1>6, <1>7, <1>8, StepCases

(***************************************************************************)
(* The order, its flow and its one active job                              *)
(***************************************************************************)

\* A job with a live fence is the one active job, and its flow is not quiet.
LEMMA Busy ==
    ASSUME IInv, NEW w \in Workers, Fenced(w)
    PROVE  /\ worker[w].job \in Jobs /\ job[worker[w].job].status = "RUNNING"
           /\ ActiveJob /\ flow \notin Quiet
           /\ \A i \in Jobs : job[i].status \in Active => i = worker[w].job
<1>1. worker[w].job \in Jobs /\ job[worker[w].job].status \in Active
  BY Typed DEF IInv, WorkerRow, Fenced, Owns, Active
<1> QED
  BY <1>1 DEF IInv, Order, OneActiveJob, ActiveJob, Fenced, Owns

\* Which jobs are active changes only when one is queued or closed.
LEMMA ActiveStep ==
    ASSUME IInv, Next
    PROVE  /\ OneActiveJob'
           /\ \A j \in Jobs : Exists(j) /\ job'[j].status \in Active
                            => job[j].status \in Active
           /\ ~Closed => (ActiveJob => ActiveJob')
           /\ Closed => ~ActiveJob'
<1>1. OneActiveJob
  BY DEF IInv, Order
<1>2. CASE Enqueued
  <2>1. PICK j \in Jobs, known \in BOOLEAN : ~ActiveJob /\ JobQueued(j, known)
    BY <1>2 DEF Enqueued
  <2>2. ~Closed
    <3>1. \A w \in Workers : Fenced(w) => ActiveJob
      BY Busy
    <3> QED
      BY <2>1, <3>1 DEF Closed
  <2>3. OneActiveJob'
    BY <2>1 DEF JobQueued, OnlyJob, OneActiveJob, ActiveJob
  <2>4. \A i \in Jobs : Exists(i) => job'[i] = job[i]
    <3>1. PICK k \in Jobs, seen \in BOOLEAN : ~Exists(k) /\ JobQueued(k, seen)
      BY <1>2 DEF Enqueued
    <3> QED
      BY <3>1 DEF JobQueued, OnlyJob
  <2> QED
    BY <1>2, <2>1, <2>2, <2>3, <2>4
<1>3. CASE Closed
  <2>1. PICK w \in Workers, s \in Ended : Fenced(w) /\ JobLeft(worker[w].job, s)
    BY <1>3 DEF Closed
  <2>2. s \notin Active
    BY DEF Ended, Active
  <2>3. \A i \in Jobs : job'[i].status \notin Active
    BY <2>1, <2>2, Busy DEF JobLeft, OnlyJob
  <2> QED
    BY <1>3, <2>3 DEF OneActiveJob, ActiveJob
<1>4. CASE ~Enqueued /\ ~Closed
  <2>1. \A j \in Jobs : job'[j].status \in Active <=> job[j].status \in Active
    <3>1. CASE LeaseEnded
      BY <3>1 DEF LeaseEnded, JobExpired, OnlyJob
    <3>2. CASE Recovered
      BY <3>2 DEF Recovered, JobLeft, OnlyJob, Active
    <3>3. CASE Taken
      BY <3>3 DEF Taken, JobClaimed, OnlyJob, Active
    <3>4. CASE Noted
      BY <3>4 DEF Noted, JobNoted, OnlyJob
    <3> QED
      BY <1>4, <3>1, <3>2, <3>3, <3>4, EveryStep DEF JobStep, Walked
  <2> QED
    BY <1>1, <1>4, <2>1 DEF OneActiveJob, ActiveJob
<1> QED
  BY <1>2, <1>3, <1>4

\* Once the health result is kept, no step of this module moves the flow.
LEMMA CheckedStays ==
    ASSUME IInv, Next, flow \in Checked
    PROVE  flow' = flow
<1>1. /\ flow # "PAID" /\ flow # "PROVISION_APPROVED" /\ flow # "PROVISIONING_SUBMITTED"
      /\ flow # "PROVISIONING" /\ flow # "PROVISIONING_RECONCILING"
      /\ flow # "PROVISIONING_RETRYABLE" /\ flow # "PROVISIONING_MANUAL_REVIEW"
      /\ flow # "HEALTH_CHECKING" /\ flow # "CANCELLED"
  BY DEF Checked
<1>2. status # "NEEDS_RECONCILIATION" /\ status # "FAILED"
  BY <1>1 DEF IInv, Order, StatusMatchesFlow
<1> QED
  BY <1>1, <1>2 DEF Next, Admin, Process, Approve, AwaitsApproval, Hold, Dispatch,
     ExpireLease, RecoverExpired, Claim, Start, MarkCreateSent, CheckBeforeCreate,
     CreateServer, Look, Resume, PersistTask, PollFails, RecordInstance,
     StartHealthCheck, KeepHealthResult, Finalize, StopToReconcile, Fail, Abandon,
     Crash, Reconcile, ConfirmNoResource, AcceptsReconciliation, OffersReconciliation,
     Stopped, Retry, OffersRetry, Refund, OffersRefund, ArriveLate

\* With no job at work, only a queued job changes the jobs.
LEMMA IdleStep ==
    ASSUME IInv, Next, ~ActiveJob
    PROVE  job' = job \/ ((Dispatch \/ Reconcile \/ Retry) /\ flow' \notin Quiet)
<1>1. \A w \in Workers : ~Fenced(w)
  BY Busy
<1>2. \A j \in Jobs : job[j].status # "RUNNING" /\ job[j].status # "QUEUED"
  BY DEF ActiveJob, Active
<1>3. CASE Dispatch \/ Reconcile \/ Retry
  BY <1>3 DEF Dispatch, Reconcile, Retry, Quiet
<1>4. CASE ~(Dispatch \/ Reconcile \/ Retry)
  BY <1>1, <1>2, <1>4 DEF Next, Admin, Process, Approve, Hold, ExpireLease,
     RecoverExpired, Claim, Claimable, Start, MarkCreateSent, CheckBeforeCreate,
     CreateServer, Look, Resume, PersistTask, PollFails, RecordInstance,
     StartHealthCheck, KeepHealthResult, Finalize, StopToReconcile, Fail, Abandon,
     Crash, ConfirmNoResource, Refund, ArriveLate
<1> QED
  BY <1>3, <1>4

\* The flow turns quiet from a quiet one, as the active job closes, or by a refund.
LEMMA TurnsQuiet ==
    ASSUME IInv, Next, flow' \in Quiet
    PROVE  flow \in Quiet \/ Closed \/ Refund
<1>1. CASE \E w \in Workers : StopToReconcile(w) \/ Fail(w)
  BY <1>1, CloseStep
<1>2. CASE ~\E w \in Workers : StopToReconcile(w) \/ Fail(w)
  BY <1>2 DEF Next, Admin, Process, Approve, AwaitsApproval, Hold, Dispatch,
     ExpireLease, RecoverExpired, Claim, Start, MarkCreateSent, CheckBeforeCreate,
     CreateServer, Look, Resume, PersistTask, PollFails, RecordInstance,
     StartHealthCheck, KeepHealthResult, Finalize, Abandon, Crash, Reconcile,
     ConfirmNoResource, AcceptsReconciliation, Retry, ArriveLate, Quiet, IInv, Order,
     StatusMatchesFlow
<1> QED
  BY <1>1, <1>2

LEMMA QuietStep ==
    ASSUME IInv, Next, flow' \in Quiet
    PROVE  ~ActiveJob'
<1>1. CASE Closed
  BY <1>1, ActiveStep
<1>2. CASE ~ActiveJob
  <2>1. job' = job
    BY <1>2, IdleStep
  <2> QED
    BY <1>2, <2>1 DEF ActiveJob
<1>3. flow \in Quiet \/ Refund => ~ActiveJob
  BY DEF Refund, IInv, Order
<1> QED
  BY <1>1, <1>2, <1>3, TurnsQuiet

\* The steps by which a worker goes on with its job.
GoesOn(w) ==
    \/ Start(w) \/ MarkCreateSent(w) \/ CheckBeforeCreate(w) \/ CreateServer(w)
    \/ Look(w) \/ Resume(w) \/ PersistTask(w) \/ PollFails(w) \/ RecordInstance(w)
    \/ StartHealthCheck(w) \/ KeepHealthResult(w)

LEMMA GoToPc ==
    ASSUME TypeOK, NEW w \in Workers, NEW pc, GoTo(w, pc)
    PROVE  worker'[w].pc = pc
<1>1. worker \in [Workers -> WorkerRow]
  BY Typed
<1>2. worker'[w] = [worker[w] EXCEPT !.pc = pc]
  BY <1>1 DEF GoTo
<1> QED
  BY <1>1, <1>2 DEF WorkerRow

\* What one worker holds after a step: as before, nothing, a new claim, or its
\* own next step's place with the same job and token.
LEMMA MoveStep ==
    ASSUME IInv, Next, NEW w \in Workers
    PROVE  \/ worker'[w] = worker[w]
           \/ worker'[w].pc = "idle"
           \/ worker'[w].pc = "claimed" /\ \E j \in Jobs : Claim(w, j)
           \/ /\ GoesOn(w)
              /\ worker'[w].job = worker[w].job /\ worker'[w].token = worker[w].token
<1> USE DEF IInv
<1>1. CASE worker' = worker
  BY <1>1
<1>2. CASE \E v \in Workers, j \in Jobs : Claim(v, j)
  <2>1. PICK v \in Workers, j \in Jobs : Claim(v, j)
    BY <1>2
  <2>2. OnlyWorker(v) /\ worker'[v].pc = "claimed"
    BY <2>1, ClaimedJob
  <2> QED
    BY <2>1, <2>2 DEF OnlyWorker
<1>3. CASE \E v \in Workers : Finalize(v) \/ StopToReconcile(v) \/ Fail(v)
                              \/ Abandon(v) \/ Crash(v)
  <2>1. PICK v \in Workers : Leave(v)
    BY <1>3 DEF Finalize, StopToReconcile, Fail, Abandon, Crash
  <2>2. Gone(v)
    BY <2>1, GoneWorker
  <2> QED
    BY <2>2 DEF Gone, OnlyWorker
<1>4. CASE \E v \in Workers : GoesOn(v)
  <2>1. PICK v \in Workers : GoesOn(v)
    BY <1>4
  <2>2. \E pc \in {"finalizing", "resuming", "marking", "creating", "looking", "marked",
                   "persisting", "reconciling", "polling", "recorded", "probing"}
                  \cup Errors : GoTo(v, pc)
    BY <2>1 DEF GoesOn, Start, Route, MarkCreateSent, CheckBeforeCreate, CreateServer, Look,
       Resume, PersistTask, PollFails, RecordInstance, StartHealthCheck,
       KeepHealthResult, Errors
  <2>3. PICK pc : Moved(v, pc)
    BY <2>2, MovedWorker
  <2> QED
    BY <2>1, <2>3 DEF Moved, OnlyWorker
<1> QED
  BY <1>1, <1>2, <1>3, <1>4 DEF Next, Admin, Process, GoesOn, Approve, Hold, Dispatch,
     ExpireLease, RecoverExpired, Reconcile, ConfirmNoResource, Retry, Refund, ArriveLate

LEMMA HealthStep ==
    ASSUME IInv, Next
    PROVE  /\ \A j \in Jobs : job'[j].health # "NONE" => flow' \in Checked
           /\ \A w \in Workers : worker'[w].pc = "finalizing" => flow' \in Checked
<1>1. CASE \E v \in Workers : KeepHealthResult(v)
  BY <1>1 DEF KeepHealthResult, Checked
<1>2. CASE ~\E v \in Workers : KeepHealthResult(v)
  <2>1. ASSUME NEW j \in Jobs, job'[j].health # "NONE"
        PROVE  flow' \in Checked
    <3>1. job[j].health # "NONE"
      BY <1>2, <2>1, MemoryStep
    <3>2. flow \in Checked
      BY <3>1 DEF IInv, Order
    <3> QED
      BY <3>2, CheckedStays
  <2>2. ASSUME NEW w \in Workers, worker'[w].pc = "finalizing"
        PROVE  flow' \in Checked
    <3>1. worker[w].pc = "finalizing" \/ (Start(w) /\ job[worker[w].job].health # "NONE")
      <4>1. CASE GoesOn(w)
        BY <1>2, <2>2, <4>1, GoToPc DEF GoesOn, Start, Route, MarkCreateSent,
           CheckBeforeCreate, CreateServer, Look, Resume, PersistTask, PollFails,
           RecordInstance, StartHealthCheck, IInv, Errors
      <4> QED
        BY <2>2, <4>1, MoveStep
    <3>2. worker[w].job \in Jobs
      BY Typed DEF IInv, WorkerRow
    <3>3. flow \in Checked
      BY <3>1, <3>2 DEF IInv, Order
    <3> QED
      BY <3>3, CheckedStays
  <2> QED
    BY <2>1, <2>2
<1> QED
  BY <1>1, <1>2

\* The first five conjuncts of StatusMatchesFlow speak of the order alone.
Paired ==
    /\ flow = "PROVISIONING_SUBMITTED" <=> status = "QUEUED"
    /\ flow = "PROVISIONING_RECONCILING" <=> status = "NEEDS_RECONCILIATION"
    /\ flow = "PROVISIONING_RETRYABLE" <=> status = "FAILED"
    /\ flow = "CANCELLED" <=> status = "REFUNDED"
    /\ status = "PROVISIONING" =>
         flow \in {"PROVISIONING", "HEALTH_CHECKING", "WAITING_ADMIN_DELIVERY_APPROVAL"}
    /\ InFlight => status \in {"QUEUED", "PROVISIONING"}

LEMMA PairedStep ==
    ASSUME IInv, Next
    PROVE  Paired'
<1>1. Paired
  BY DEF IInv, Order, StatusMatchesFlow, Paired
<1>2. CASE UNCHANGED <<status, flow>>
  BY <1>1, <1>2 DEF Paired, InFlight
<1>3. CASE Approve \/ Hold \/ Dispatch \/ Reconcile \/ ConfirmNoResource \/ Retry \/ Refund
  BY <1>1, <1>3 DEF Paired, InFlight, Approve, Hold, AwaitsApproval, Dispatch, Reconcile,
     ConfirmNoResource, AcceptsReconciliation, Retry, Refund
<1>4. CASE \E w \in Workers, j \in Jobs : Claim(w, j)
  <2>1. \/ UNCHANGED <<status, flow>>
        \/ flow = "PROVISIONING_SUBMITTED" /\ flow' = "PROVISIONING" /\ status' = "PROVISIONING"
    BY <1>1, <1>4 DEF Paired, Claim
  <2> QED
    BY <1>2, <2>1 DEF Paired, InFlight
<1>5. CASE \E w \in Workers : StartHealthCheck(w) \/ KeepHealthResult(w) \/ StopToReconcile(w)
  BY <1>1, <1>5 DEF Paired, InFlight, StartHealthCheck, KeepHealthResult, StopToReconcile
<1>6. CASE \E w \in Workers : Fail(w)
  BY <1>6 DEF Paired, InFlight, Fail, Outcome
<1> QED
  BY <1>2, <1>3, <1>4, <1>5, <1>6 DEF Next, Admin, Process, ExpireLease,
     RecoverExpired, Start, MarkCreateSent, CheckBeforeCreate, CreateServer,
     Look, Resume, PersistTask, PollFails, RecordInstance, Finalize, Abandon, Crash,
     ArriveLate

LEMMA KeepsActive ==
    ASSUME IInv, ActiveJob,
           job' = job \/ Enqueued \/ LeaseEnded \/ Recovered \/ Taken \/ Noted
    PROVE  ActiveJob'
<1>1. PICK j \in Jobs : job[j].status \in Active
  BY DEF ActiveJob
<1>2. job'[j].status \in Active
  <2>1. CASE job' = job
    BY <1>1, <2>1
  <2>2. CASE Enqueued
    BY <2>2 DEF Enqueued
  <2>3. CASE LeaseEnded
    BY <1>1, <2>3 DEF LeaseEnded, JobExpired, OnlyJob
  <2>4. CASE Recovered
    BY <1>1, <2>4 DEF Recovered, JobLeft, OnlyJob, Active
  <2>5. CASE Taken
    BY <1>1, <2>5 DEF Taken, JobClaimed, OnlyJob, Active
  <2>6. CASE Noted
    BY <1>1, <2>6 DEF Noted, JobNoted, OnlyJob
  <2> QED
    BY <2>1, <2>2, <2>3, <2>4, <2>5, <2>6
<1> QED
  BY <1>1, <1>2 DEF ActiveJob

\* Only the end of a worker's run closes the active job.
LEMMA ClosedBy ==
    ASSUME IInv, Next, Closed
    PROVE  \E w \in Workers : Finalize(w) \/ StopToReconcile(w) \/ Fail(w)
<1>1. ActiveJob /\ ~ActiveJob'
  <2>1. \E w \in Workers : Fenced(w)
    BY DEF Closed
  <2> QED
    BY <2>1, Busy, ActiveStep
<1>2. job' # job /\ ~Enqueued /\ ~LeaseEnded /\ ~Recovered /\ ~Taken /\ ~Noted
  BY <1>1, KeepsActive
<1> QED
  BY <1>2, StepCases

\* A flow in flight has a job to move it on: the job closes only once the flow
\* has left.
LEMMA InFlightStep ==
    ASSUME IInv, Next, InFlight'
    PROVE  ActiveJob'
<1>1. CASE Dispatch \/ Reconcile \/ Retry
  <2>1. CASE Dispatch
    <3>1. job' = [job EXCEPT ![1] = Queued(FALSE)]
      BY <2>1 DEF Dispatch, InFlight
    <3>2. 1 \in Jobs
      BY ProvisioningAssumption DEF Jobs, Attempts
    <3>3. JobQueued(1, FALSE)
      BY <3>1, <3>2, QueuedJob DEF IInv
    <3> QED
      BY <3>2, <3>3 DEF JobQueued, ActiveJob, Active
  <2>2. CASE Reconcile
    <3>1. ~Exists(Poll)
      BY <2>2 DEF Reconcile, AcceptsReconciliation, OffersReconciliation, IInv, Order
    <3>2. Poll \in Jobs /\ JobQueued(Poll, TRUE)
      BY <2>2, <3>1, QueuedJob DEF Reconcile, Jobs, IInv
    <3> QED
      BY <3>2 DEF JobQueued, ActiveJob, Active
  <2>3. CASE Retry
    <3>1. PICK n \in 0..MaxAttempts : Prefix(n)
      BY DEF IInv, Order
    <3>2. n + 1 \in Jobs /\ JobQueued(n + 1, FALSE)
      BY <2>3, <3>1, NextAttempt, QueuedJob DEF Jobs, IInv
    <3> QED
      BY <3>2 DEF JobQueued, ActiveJob, Active
  <2> QED
    BY <1>1, <2>1, <2>2, <2>3
<1>2. CASE InFlight /\ ~Closed
  BY <1>2, ActiveStep DEF IInv, Order, StatusMatchesFlow
<1>3. CASE InFlight /\ Closed
  <2>1. PICK w \in Workers : Finalize(w) \/ StopToReconcile(w) \/ Fail(w)
    BY <1>3, ClosedBy
  <2>2. CASE Finalize(w)
    BY <1>3, <2>2 DEF Finalize, IInv, Order, InFlight, Checked
  <2>3. CASE StopToReconcile(w) \/ Fail(w)
    BY <2>3 DEF StopToReconcile, Fail, Outcome, InFlight
  <2> QED
    BY <2>1, <2>2, <2>3
<1>4. CASE ~InFlight /\ ~(Dispatch \/ Reconcile \/ Retry)
  <2>1. CASE \E w \in Workers : Fail(w)
    BY <2>1, <1>4 DEF Fail, InFlight
  <2>2. CASE ~\E w \in Workers : Fail(w)
    BY <1>4, <2>2 DEF InFlight, Next, Admin, Process, Approve, Hold, ExpireLease, RecoverExpired,
     Claim, Start, MarkCreateSent, CheckBeforeCreate, CreateServer, Look, Resume,
     PersistTask, PollFails, RecordInstance, StartHealthCheck, KeepHealthResult,
     Finalize, StopToReconcile, Abandon, Crash, ConfirmNoResource, Refund, ArriveLate
  <2> QED
    BY <2>1, <2>2
<1> QED
  BY <1>1, <1>2, <1>3, <1>4

(***************************************************************************)
(* The create attempts of the order                                        *)
(***************************************************************************)

LEMMA ExistsStays ==
    ASSUME IInv, Next, NEW j \in Jobs, Exists(j)
    PROVE  Exists(j)'
<1>1. JobStep
  BY EveryStep
<1> QED
  BY <1>1 DEF JobStep, Enqueued, LeaseEnded, Recovered, Taken, Walked, Noted, Closed,
     JobQueued, JobExpired, JobLeft, JobClaimed, JobNoted, OnlyJob, Exists, Ended

\* Which job comes to be, and by which command.
LEMMA Appears ==
    ASSUME IInv, Next, NEW n \in 0..MaxAttempts, Prefix(n),
           NEW j \in Jobs, ~Exists(j), Exists(j)'
    PROVE  /\ \/ Dispatch /\ n = 0 /\ j = 1
              \/ Reconcile /\ j = Poll
              \/ Retry /\ j = n + 1
           /\ \A i \in Jobs : i # j => job'[i] = job[i]
<1>1. job[j].status = "NONE" /\ job'[j].status # "NONE"
  BY DEF Exists
<1>2. Dispatch \/ Reconcile \/ Retry
  <2>1. ~LeaseEnded /\ ~Recovered
    BY <1>1 DEF LeaseEnded, Recovered, JobExpired, JobLeft, OnlyJob
  <2>2. ~Taken
    BY <1>1 DEF Taken, JobClaimed, OnlyJob
  <2>3. ~Noted
    BY <1>1 DEF Noted, JobNoted, OnlyJob
  <2>4. ~Closed
    BY <1>1 DEF Closed, Fenced, Owns, JobLeft, OnlyJob
  <2> QED
    BY <1>1, <2>1, <2>2, <2>3, <2>4, StepCases
<1>3. job \in [Jobs -> Row]
  BY Typed DEF IInv
<1>4. ASSUME NEW i, NEW known, job' = [job EXCEPT ![i] = Queued(known)]
      PROVE  i = j /\ \A k \in Jobs : k # j => job'[k] = job[k]
  <2>1. \A k \in Jobs : k # i => job'[k] = job[k]
    BY <1>3, <1>4
  <2> QED
    BY <1>1, <2>1
<1>5. CASE Dispatch
  <2>1. job' = [job EXCEPT ![1] = Queued(FALSE)]
    BY <1>1, <1>5 DEF Dispatch
  <2>2. n = 0
    BY <1>5, ProvisioningAssumption DEF Dispatch, Prefix, Attempts
  <2> QED
    BY <1>4, <1>5, <2>1, <2>2
<1>6. CASE Reconcile
  <2>1. job' = [job EXCEPT ![Poll] = Queued(TRUE)]
    BY <1>1, <1>6 DEF Reconcile
  <2> QED
    BY <1>4, <1>6, <2>1
<1>7. CASE Retry
  <2>1. job' = [job EXCEPT ![n + 1] = Queued(FALSE)]
    BY <1>7, NextAttempt
  <2> QED
    BY <1>4, <1>7, <2>1
<1> QED
  BY <1>2, <1>5, <1>6, <1>7

\* Attempts are added at the end, one at a time.
LEMMA PrefixStep ==
    ASSUME IInv, Next, NEW n \in 0..MaxAttempts, Prefix(n)
    PROVE  \/ /\ Prefix(n)'
              /\ \A a \in Attempts : Exists(a)' <=> Exists(a)
           \/ /\ n + 1 \in Attempts /\ Prefix(n + 1)' /\ ~Exists(n + 1) /\ Exists(n + 1)'
              /\ (Dispatch /\ n = 0) \/ Retry
<1>1. Poll \in Jobs /\ Attempts \subseteq Jobs /\ Poll \notin Attempts
  BY DEF Jobs, Poll, Attempts
<1>2. CASE \A a \in Attempts : Exists(a)' => Exists(a)
  <2>1. \A a \in Attempts : Exists(a)' <=> Exists(a)
    BY <1>1, <1>2, ExistsStays
  <2> QED
    BY <2>1 DEF Prefix
<1>3. CASE \E a \in Attempts : Exists(a)' /\ ~Exists(a)
  <2>1. PICK a \in Attempts : Exists(a)' /\ ~Exists(a)
    BY <1>3
  <2>2. /\ a = n + 1 /\ \A i \in Jobs : i # a => job'[i] = job[i]
        /\ (Dispatch /\ n = 0) \/ Retry
    BY <1>1, <2>1, Appears
  <2>3. \A i \in Attempts : i # a => (Exists(i)' <=> Exists(i))
    BY <1>1, <2>2 DEF Exists
  <2>4. Prefix(n + 1)'
    <3>1. ASSUME NEW i \in Attempts
          PROVE  Exists(i)' <=> i <= n + 1
      <4>1. Exists(i) <=> i <= n
        BY DEF Prefix
      <4>2. i \in Nat
        BY DEF Attempts
      <4> QED
        BY <2>1, <2>2, <2>3, <4>1, <4>2
    <3> QED
      BY <3>1 DEF Prefix
  <2> QED
    BY <2>1, <2>2, <2>4
<1> QED
  BY <1>2, <1>3

LEMMA AttemptsStep ==
    ASSUME IInv, Next
    PROVE  /\ Exists(Poll)' => instance'
           /\ \E n \in 0..MaxAttempts : Prefix(n)'
<1>1. PICK n \in 0..MaxAttempts : Prefix(n)
  BY DEF IInv, Order
<1>2. Poll \in Jobs /\ Attempts \subseteq Jobs /\ Poll \notin Attempts
  BY DEF Jobs, Poll, Attempts
<1>3. Exists(Poll)' => instance'
  <2>1. instance => instance'
    BY DEF Next, Admin, Process, Approve, Hold, Dispatch, ExpireLease,
       RecoverExpired, Claim, Start, MarkCreateSent, CheckBeforeCreate, Look, Resume,
       PersistTask, PollFails, RecordInstance, StartHealthCheck, KeepHealthResult,
       Finalize, StopToReconcile, Fail, Abandon, Reconcile, ConfirmNoResource, Retry,
       Refund, CreateServer, Crash, ArriveLate
  <2>2. CASE Exists(Poll)
    BY <2>1, <2>2 DEF IInv, Order
  <2>3. CASE ~Exists(Poll) /\ Exists(Poll)'
    <3>1. Reconcile
      BY <1>1, <1>2, <2>3, Appears DEF Poll
    <3> QED
      BY <3>1 DEF Reconcile
  <2> QED
    BY <2>2, <2>3
<1>4. \E m \in 0..MaxAttempts : Prefix(m)'
  <2>1. n + 1 \in Attempts => n + 1 \in 0..MaxAttempts
    BY ProvisioningAssumption DEF Attempts
  <2> QED
    BY <1>1, <2>1, PrefixStep
<1> QED
  BY <1>3, <1>4

\* A confirmed absence is of an ended attempt.
LEMMA AbsenceStep ==
    ASSUME IInv, Next
    PROVE  /\ absence' # 0 => Exists(absence)'
           /\ \A a \in Attempts : job'[a].status \in Active => absence' # a
<1>1. PICK n \in 0..MaxAttempts : Prefix(n)
  BY DEF IInv, Order
<1>2. Attempts \subseteq Jobs /\ Poll \notin Attempts
  BY DEF Jobs, Attempts, Poll
<1>3. absence \in 0..MaxAttempts
  BY DEF IInv, TypeOK
<1>4. CASE absence' = absence
  <2>1. absence # 0 => absence \in Attempts /\ Exists(absence)
    BY <1>3 DEF IInv, Order, Attempts
  <2>2. absence' # 0 => Exists(absence)'
    BY <1>2, <1>4, <2>1, ExistsStays
  <2>3. ASSUME NEW a \in Attempts, job'[a].status \in Active
        PROVE  absence # a
    <3>1. CASE Exists(a)
      <4>1. job[a].status \in Active
        BY <1>2, <2>3, <3>1, ActiveStep
      <4> QED
        BY <4>1 DEF IInv, Order
    <3>2. CASE ~Exists(a)
      BY <3>2, <2>1 DEF Attempts
    <3> QED
      BY <3>1, <3>2
  <2> QED
    BY <1>4, <2>2, <2>3
<1>5. CASE ConfirmNoResource
  <2>1. absence' = n /\ n # 0 /\ job' = job
    BY <1>1, <1>5, Latest DEF ConfirmNoResource
  <2>2. ~ActiveJob
    BY <1>5 DEF ConfirmNoResource, AcceptsReconciliation, IInv, Order, Quiet
  <2>3. n \in Attempts /\ Exists(n)
    BY <1>1, <2>1 DEF Attempts, Prefix
  <2> QED
    BY <1>2, <2>1, <2>2, <2>3 DEF ActiveJob, Exists
<1>6. CASE Retry
  <2>1. absence' = 0
    BY <1>6 DEF Retry
  <2>2. 0 \notin Attempts
    BY DEF Attempts
  <2> QED
    BY <2>1, <2>2
<1> QED
  BY <1>4, <1>5, <1>6 DEF Next, Admin, Process, Approve, Hold, Dispatch, ExpireLease,
     RecoverExpired, Claim, Start, MarkCreateSent, CheckBeforeCreate, Look, Resume,
     PersistTask, PollFails, RecordInstance, StartHealthCheck, KeepHealthResult,
     Finalize, StopToReconcile, Fail, Abandon, Reconcile, Refund, CreateServer, Crash,
     ArriveLate

(***************************************************************************)
(* Create calls, servers and bills                                         *)
(***************************************************************************)

\* Servers and late calls change by a create call, or as a late call arrives.
LEMMA CallStep ==
    ASSUME IInv, Next
    PROVE  \/ UNCHANGED <<servers, late>>
           \/ \E c \in late : servers' = servers \cup {c} /\ late' = late \ {c}
           \/ \E w \in Workers :
                /\ worker[w].pc = "creating"
                /\ CreateServer(w) \/ Crash(w)
                /\ Executed(w) \/ Delayed(w)
                /\ job' = job
                /\ worker'[w].pc \notin Sending \cup {"marking"}
                /\ \A v \in Workers : v # w => worker'[v] = worker[v]
<1>1. CASE \E w \in Workers : CreateServer(w) \/ Crash(w)
  <2>1. PICK w \in Workers : CreateServer(w) \/ Crash(w)
    BY <1>1
  <2>2. CASE NotExecuted(w)
    BY <2>2 DEF NotExecuted
  <2>3. CASE ~NotExecuted(w)
    <3>1. worker[w].pc = "creating" /\ (Executed(w) \/ Delayed(w)) /\ job' = job
      BY <2>1, <2>3 DEF CreateServer, Crash
    <3>2. worker'[w].pc \notin Sending \cup {"marking"} /\ OnlyWorker(w)
      <4>1. CASE CreateServer(w)
        <5>1. PICK pc \in {"persisting", "reconciling"} \cup Errors : GoTo(w, pc)
          BY <4>1 DEF CreateServer, Errors
        <5>2. Moved(w, pc)
          BY <5>1, MovedWorker DEF IInv
        <5> QED
          BY <5>2 DEF Moved, Sending, Errors
      <4>2. CASE Crash(w)
        BY <4>2, GoneWorker DEF Crash, Gone, Sending, IInv
      <4> QED
        BY <2>1, <4>1, <4>2
    <3> QED
      BY <2>1, <3>1, <3>2 DEF OnlyWorker
  <2> QED
    BY <2>2, <2>3
<1>2. CASE \E c \in late : ArriveLate(c)
  BY <1>2 DEF ArriveLate
<1> QED
  BY <1>1, <1>2 DEF Next, Admin, Process, Approve, Hold, Dispatch, ExpireLease,
     RecoverExpired, Claim, Start, MarkCreateSent, CheckBeforeCreate, Look, Resume,
     PersistTask, PollFails, RecordInstance, StartHealthCheck, KeepHealthResult,
     Finalize, StopToReconcile, Fail, Abandon, Reconcile, ConfirmNoResource, Retry, Refund

\* How a worker gets to the create call of its attempt.
LEMMA SendingStep ==
    ASSUME IInv, Next, NEW w \in Workers, worker'[w].pc \in Sending \cup {"marking"}
    PROVE  /\ worker'[w].job = worker[w].job
           /\ \/ worker'[w] = worker[w]
              \/ worker'[w].pc = "marking" /\ Start(w) /\ worker[w].job \in Attempts
              \/ worker'[w].pc = "marked" /\ MarkCreateSent(w)
              \/ worker'[w].pc = "creating" /\ CheckBeforeCreate(w)
<1>1. CASE worker'[w] = worker[w]
  BY <1>1
<1>2. CASE worker'[w].pc = "idle" \/ worker'[w].pc = "claimed"
  BY <1>2 DEF Sending
<1>3. CASE GoesOn(w) /\ worker'[w].job = worker[w].job
  <2>1. CASE Start(w)
    <3>1. worker[w].job \in Jobs /\ Fenced(w)
      BY <2>1, Busy DEF Start
    <3>2. worker'[w].pc = Route(worker[w].job)
      BY <2>1, GoToPc DEF Start, IInv, Sending
    <3>3. Route(worker[w].job) # "creating" /\ Route(worker[w].job) # "marked"
      <4>1. worker[w].job = Poll => instance
        BY <3>1, Busy DEF IInv, Order, Exists
      <4>2. worker[w].job \in Attempts => absence # worker[w].job
        BY <3>1, Busy DEF IInv, Order, Active
      <4> QED
        BY <3>1, <4>1, <4>2 DEF Route, Jobs
    <3>4. worker'[w].pc = "marking" => worker[w].job \in Attempts
      BY <3>1, <3>2, Busy DEF Route, IInv, Order, Exists, Jobs
    <3> QED
      BY <1>3, <2>1, <3>2, <3>3, <3>4 DEF Sending
  <2>2. CASE MarkCreateSent(w)
    BY <1>3, <2>2, GoToPc DEF MarkCreateSent, IInv
  <2>3. CASE CheckBeforeCreate(w)
    BY <1>3, <2>3, GoToPc DEF CheckBeforeCreate, IInv, Sending
  <2>4. CASE \/ CreateServer(w) \/ Look(w) \/ Resume(w) \/ PersistTask(w) \/ PollFails(w)
             \/ RecordInstance(w) \/ StartHealthCheck(w) \/ KeepHealthResult(w)
    <3>1. \E pc \in {"persisting", "reconciling", "polling", "recorded", "probing",
                     "finalizing"} \cup Errors : GoTo(w, pc)
      BY <2>4 DEF CreateServer, Look, Resume, PersistTask, PollFails, RecordInstance,
         StartHealthCheck, KeepHealthResult, Errors
    <3> QED
      BY <3>1, GoToPc DEF IInv, Sending, Errors
  <2> QED
    BY <1>3, <2>1, <2>2, <2>3, <2>4 DEF GoesOn
<1> QED
  BY <1>1, <1>2, <1>3, MoveStep

LEMMA SendsStep ==
    ASSUME IInv, Next
    PROVE  Sends'
<1>1. \A w \in Workers :
         worker'[w].pc \in Sending \cup {"marking"} => worker'[w].job \in Attempts
  BY SendingStep DEF IInv, Sends, Sending, MarkCreateSent, CheckBeforeCreate
<1>2. ASSUME NEW w \in Workers, worker'[w].pc \in Sending
      PROVE  job'[worker'[w].job].sent
  <2>1. worker'[w].job = worker[w].job /\ worker[w].job \in Jobs
    BY <1>2, SendingStep, Typed DEF IInv, WorkerRow
  <2>2. job[worker[w].job].sent \/ MarkCreateSent(w)
    BY <1>2, SendingStep DEF IInv, Sends, Sending, CheckBeforeCreate
  <2>3. MarkCreateSent(w) => job'[worker[w].job].sent
    BY NoteFacts
  <2> QED
    BY <2>1, <2>2, <2>3, MemoryStep
<1>3. ASSUME NEW v \in Workers, NEW w \in Workers, worker'[v].pc \in Sending,
             worker'[w].pc \in Sending, worker'[v].job = worker'[w].job
      PROVE  v = w
  <2>1. worker'[v].job = worker[v].job /\ worker'[w].job = worker[w].job
    BY <1>3, SendingStep
  <2>2. CASE worker[v].pc \in Sending /\ worker[w].pc \in Sending
    BY <1>3, <2>1, <2>2 DEF IInv, Sends
  <2>3. \A u \in Workers : worker'[u].pc \in Sending =>
           worker[u].pc \in Sending \/ MarkCreateSent(u)
    BY SendingStep DEF Sending, CheckBeforeCreate
  <2>4. \A u, x \in Workers : MarkCreateSent(u) /\ worker[x].pc \in Sending
                              => worker[x].job # worker[u].job
    BY DEF MarkCreateSent, IInv, Sends
  <2>5. MarkCreateSent(v) /\ MarkCreateSent(w) => v = w
    <3>1. MarkCreateSent(v) /\ MarkCreateSent(w) =>
             worker[v].token = worker[w].token /\ Holding(v) /\ Holding(w)
      BY <2>1, <1>3 DEF MarkCreateSent, Fenced, Owns, Holding
    <3> QED
      BY <2>1, <1>3, <3>1 DEF IInv, Tokens
  <2> QED
    BY <1>3, <2>1, <2>2, <2>3, <2>4, <2>5
<1>4. ASSUME NEW c \in servers' \cup late'
      PROVE  /\ job'[c[1]].sent
             /\ \A w \in Workers : worker'[w].pc \in Sending => worker'[w].job # c[1]
  <2>1. CASE c \in servers \cup late
    <3>1. c[1] \in Jobs /\ job[c[1]].sent
      BY <2>1 DEF IInv, Sends, TypeOK, Calls, Jobs
    <3>2. job'[c[1]].sent
      BY <3>1, MemoryStep
    <3>3. ASSUME NEW w \in Workers, worker'[w].pc \in Sending, worker'[w].job = c[1]
          PROVE  FALSE
      <4>1. worker[w].job = c[1] /\ (worker[w].pc \in Sending \/ MarkCreateSent(w))
        BY <3>3, SendingStep DEF Sending, CheckBeforeCreate
      <4>2. ~MarkCreateSent(w)
        BY <3>1, <4>1 DEF MarkCreateSent
      <4> QED
        BY <2>1, <4>1, <4>2 DEF IInv, Sends
    <3> QED
      BY <3>2, <3>3
  <2>2. CASE c \notin servers \cup late
    <3>1. PICK w \in Workers :
             /\ worker[w].pc = "creating"
             /\ Executed(w) \/ Delayed(w)
             /\ job' = job
             /\ worker'[w].pc \notin Sending
             /\ \A v \in Workers : v # w => worker'[v] = worker[v]
      BY <2>2, CallStep
    <3>2. c = Call(w)
      BY <2>2, <3>1 DEF Executed, Delayed
    <3>3. c[1] = worker[w].job
      BY <3>2 DEF Call
    <3> QED
      BY <3>1, <3>3 DEF IInv, Sends, Sending
  <2> QED
    BY <2>1, <2>2
<1>5. CreateOnce'
  <2>1. ASSUME NEW c \in servers' \cup late', NEW d \in servers' \cup late', c[1] = d[1]
        PROVE  c = d
    <3>1. CASE c \in servers \cup late /\ d \in servers \cup late
      BY <2>1, <3>1 DEF IInv, Sends, CreateOnce
    <3>2. CASE ~(c \in servers \cup late /\ d \in servers \cup late)
      <4>1. PICK w \in Workers : worker[w].pc = "creating" /\ (Executed(w) \/ Delayed(w))
        BY <3>2, CallStep
      <4>2. \A e \in servers' \cup late' : e \in servers \cup late \/ e = Call(w)
        BY <4>1 DEF Executed, Delayed
      <4>3. \A e \in servers \cup late : e[1] # Call(w)[1]
        BY <4>1 DEF IInv, Sends, Sending, Call
      <4> QED
        BY <2>1, <3>2, <4>2, <4>3
    <3> QED
      BY <3>1, <3>2
  <2> QED
    BY <2>1 DEF CreateOnce
<1> QED
  BY <1>1, <1>2, <1>3, <1>4, <1>5 DEF Sends

LEMMA ServersStay ==
    ASSUME IInv, Next, servers # {}
    PROVE  servers' # {}
<1>1. servers \subseteq servers'
  BY CallStep DEF Executed, Delayed
<1> QED
  BY <1>1

LEMMA BilledStep ==
    ASSUME IInv, Next
    PROVE  Billed'
<1>1. CASE servers # {}
  BY <1>1, ServersStay DEF Billed, BilledServerExists
<1>2. CASE servers = {}
  <2>1. ~instance /\ \A j \in Jobs : ~job[j].found
    BY <1>2 DEF IInv, Billed, BilledServerExists
  <2>2. \A w \in Workers : worker[w].pc \notin Seen
    BY <1>2 DEF IInv, Billed
  <2>3. ~(Reconcile \/ \E w \in Workers : PersistTask(w) \/ RecordInstance(w))
    BY <1>2, <2>2 DEF Reconcile, TheServer, PersistTask, RecordInstance, Seen
  <2>4. ~instance'
    BY <2>1, <2>3 DEF Next, Admin, Process, Approve, Hold, Dispatch, ExpireLease,
       RecoverExpired, Claim, Start, MarkCreateSent, CheckBeforeCreate, Look, Resume,
       PollFails, StartHealthCheck, KeepHealthResult, Finalize, StopToReconcile, Fail,
       Abandon, ConfirmNoResource, Retry, Refund, CreateServer, Crash, ArriveLate
  <2>5. ASSUME NEW j \in Jobs
        PROVE  ~job'[j].found
    <3>1. CASE j # Poll
      BY <2>1, <2>3, <3>1, MemoryStep
    <3>2. CASE j = Poll
      <4>1. ~Exists(Poll)
        BY <2>1 DEF IInv, Order
      <4>2. ~Exists(Poll)'
        BY <2>4, <3>2, AttemptsStep
      <4>3. job'[Poll] = NoJob
        BY <4>2, EveryStep, ShapeStep, <3>2 DEF Exists, JobShape
      <4> QED
        BY <3>2, <4>3 DEF NoJob
    <3> QED
      BY <3>1, <3>2
  <2>6. ASSUME NEW w \in Workers, worker'[w].pc \in Seen
        PROVE  servers' # {}
    <3>1. GoesOn(w)
      BY <2>2, <2>6, MoveStep DEF Seen
    <3>2. CASE Start(w)
      <4>1. worker[w].job \in Jobs
        BY <3>2, Busy DEF Start
      <4>2. \/ GoTo(w, "finalizing") \/ GoTo(w, "billing_contract_blocked")
            \/ GoTo(w, "marking") \/ GoTo(w, "creating") \/ GoTo(w, "looking")
        BY <2>1, <3>2, <4>1 DEF Start, Route
      <4> QED
        BY <2>6, <4>2, GoToPc DEF Seen, IInv
    <3>3. CASE CreateServer(w)
      <4>1. Executed(w) \/ \E pc \in {"reconciling"} \cup Errors : GoTo(w, pc)
        BY <3>3 DEF CreateServer, Errors
      <4>2. ~\E pc \in {"reconciling"} \cup Errors : GoTo(w, pc)
        BY <2>6, GoToPc DEF Seen, Errors, IInv
      <4> QED
        BY <4>1, <4>2 DEF Executed
    <3>4. CASE Look(w)
      BY <1>2, <2>6, <3>4, GoToPc DEF Look, TheServer, Seen, IInv
    <3>5. CASE \/ MarkCreateSent(w) \/ CheckBeforeCreate(w) \/ Resume(w) \/ PersistTask(w)
               \/ PollFails(w) \/ RecordInstance(w) \/ StartHealthCheck(w)
               \/ KeepHealthResult(w)
      <4>1. \E pc \in {"marked", "creating", "billing_contract_blocked", "probing",
                       "finalizing"} : GoTo(w, pc)
        BY <2>2, <2>3, <3>5 DEF MarkCreateSent, CheckBeforeCreate, Resume, PollFails,
           StartHealthCheck, KeepHealthResult, Seen
      <4> QED
        BY <2>6, <4>1, GoToPc DEF Seen, IInv
    <3> QED
      BY <3>1, <3>2, <3>3, <3>4, <3>5 DEF GoesOn
  <2> QED
    BY <2>4, <2>5, <2>6 DEF Billed, BilledServerExists
<1> QED
  BY <1>1, <1>2

(***************************************************************************)
(* With a prompt provider: one server per order, and none behind a refund  *)
(***************************************************************************)

\* No step gives a fence back to a worker that lost it.
LEMMA FenceLost ==
    ASSUME IInv, Next, NEW w \in Workers, worker'[w] = worker[w], Holding(w), Fenced(w)'
    PROVE  Fenced(w)
<1> DEFINE j == worker[w].job
<1>1. j \in Jobs /\ worker[w].token \in 1..job[j].claims
  BY Typed DEF IInv, Tokens, WorkerRow
<1>2. job'[j].status = "RUNNING" /\ job'[j].token = worker[w].token /\ job'[j].leased
  BY DEF Fenced, Owns
<1> HIDE DEF j
<1>3. CASE job'[j] = job[j]
  BY <1>2, <1>3 DEF Owns, Fenced, j
<1>4. CASE job'[j] # job[j]
  <2>1. CASE Recovered
    BY <1>1, <1>2, <1>4, <2>1 DEF Recovered, JobLeft, OnlyJob
  <2>2. CASE Taken
    <3>1. job'[j].token = job[j].claims + 1
      BY <1>1, <1>4, <2>2 DEF Taken, JobClaimed, OnlyJob
    <3>2. job'[j].token = worker[w].token
      BY <1>2
    <3>3. job[j].claims \in Nat
      BY <1>1, Typed, ProvisioningAssumption DEF IInv, Row
    <3> QED
      BY <1>1, <3>1, <3>2, <3>3
  <2>3. CASE LeaseEnded
    BY <1>1, <1>2, <1>4, <2>3 DEF LeaseEnded, JobExpired, OnlyJob
  <2>4. CASE Enqueued
    BY <1>1, <1>2, <1>4, <2>4 DEF Enqueued, JobQueued, OnlyJob
  <2>5. CASE Noted
    BY <1>1, <1>2, <1>4, <2>5 DEF Noted, JobNoted, OnlyJob, Owns, Fenced, j
  <2>6. CASE Closed
    BY <1>1, <1>2, <1>4, <2>6 DEF Closed, JobLeft, OnlyJob, Ended
  <2> QED
    BY <1>4, <2>1, <2>2, <2>3, <2>4, <2>5, <2>6, StepCases
<1> QED
  BY <1>3, <1>4

\* A prompt create call keeps its fence: its lease does not end, and nobody
\* else may end its job.
LEMMA FenceKept ==
    ASSUME IInv, Next, Prompt, NEW w \in Workers, worker'[w] = worker[w],
           worker[w].pc = "creating", Fenced(w)
    PROVE  Fenced(w)'
<1> DEFINE j == worker[w].job
<1>1. j \in Jobs /\ job[j].status = "RUNNING" /\ job[j].leased /\ ActiveJob
  BY Busy DEF Fenced, Owns
<1>2. SUFFICES /\ job'[j].status = job[j].status
               /\ job'[j].token = job[j].token /\ job'[j].leased = job[j].leased
  BY DEF Fenced, Owns
<1> HIDE DEF j
<1>3. CASE job'[j] = job[j]
  BY <1>3
<1>4. CASE job'[j] # job[j]
  <2>1. ~Recovered
    BY <1>1, <1>4 DEF Recovered, JobLeft, OnlyJob
  <2>2. ~Taken
    BY <1>1, <1>4 DEF Taken, JobClaimed, OnlyJob
  <2>3. ~\E i \in Jobs : ExpireLease(i)
    <3>1. ASSUME NEW i \in Jobs, ExpireLease(i)
          PROVE  FALSE
      <4>1. i # j
        BY <3>1 DEF ExpireLease, Fenced, j
      <4>2. JobExpired(i)
        BY <3>1, ExpiredJob DEF ExpireLease, IInv
      <4> QED
        BY <1>1, <1>4, <4>1, <4>2 DEF JobExpired, OnlyJob
    <3> QED
      BY <3>1
  <2>4. ~Enqueued
    BY <1>1 DEF Enqueued
  <2>5. CASE Noted
    BY <1>1, <1>4, <2>5 DEF Noted, JobNoted, OnlyJob
  <2>6. CASE Closed
    <3>1. PICK v \in Workers, s \in Ended :
             Holding(v) /\ Fenced(v) /\ JobLeft(worker[v].job, s) /\ Gone(v)
      BY <2>6 DEF Closed
    <3>2. worker[v].job = j
      BY <1>1, <3>1, Busy DEF Active
    <3>3. worker[v].token = worker[w].token
      BY <3>1, <3>2 DEF Fenced, Owns, j
    <3>4. v = w
      BY <3>1, <3>2, <3>3 DEF IInv, Tokens, Holding, j
    <3> QED
      BY <3>1, <3>4 DEF Gone
  <2> QED
    BY <1>4, <2>1, <2>2, <2>3, <2>4, <2>5, <2>6, StepCases
<1> QED
  BY <1>3, <1>4

\* What the safety check of retry and refund tells: the provider has nothing.
LEMMA SafeMeansNone ==
    ASSUME IInv, Prompt, ResourceSafe
    PROVE  servers = {} /\ ~instance
<1>1. ~instance
  BY DEF ResourceSafe
<1>2. CASE absence # 0
  BY <1>1, <1>2 DEF IInv, Prompted
<1>3. CASE absence = 0
  <2>1. \A j \in Jobs : ~job[j].sent
    BY <1>3 DEF ResourceSafe, MayHaveResource
  <2>2. \A c \in servers : c[1] \in Jobs
    BY DEF IInv, TypeOK, Calls, Jobs
  <2> QED
    BY <1>1, <2>1, <2>2 DEF IInv, Sends
<1> QED
  BY <1>2, <1>3

\* New servers come only from the active job, and it has none yet.
LEMMA PromptCall ==
    ASSUME IInv, Next, Prompt
    PROVE  /\ late' = {}
           /\ \/ servers' = servers
              \/ \E w \in Workers :
                   /\ worker[w].pc = "creating" /\ Fenced(w)
                   /\ servers = {} /\ servers' = {Call(w)}
                   /\ job' = job
                   /\ worker'[w].pc \notin Sending
<1>1. late = {} /\ \A w \in Workers : worker[w].pc = "creating" =>
                                         Fenced(w) /\ servers = {}
  BY DEF IInv, Prompted, Sending
<1> QED
  BY <1>1, CallStep DEF Executed, Delayed

LEMMA PromptedStep ==
    ASSUME IInv, Next, Prompt
    PROVE  Prompted'
<1>1. late' = {}
  BY PromptCall
<1>2. ASSUME NEW w \in Workers, worker'[w].pc = "creating"
      PROVE  Fenced(w)'
  <2>1. CASE worker'[w] = worker[w]
    <3>1. worker[w].pc = "creating" /\ Fenced(w)
      BY <1>2, <2>1 DEF IInv, Prompted
    <3> QED
      BY <2>1, <3>1, FenceKept
  <2>2. CASE CheckBeforeCreate(w)
    <3>1. Fenced(w) /\ job' = job
      BY <2>2 DEF CheckBeforeCreate
    <3>2. worker'[w].job = worker[w].job /\ worker'[w].token = worker[w].token
      BY <1>2, <2>2, MoveStep
    <3> QED
      BY <3>1, <3>2 DEF Fenced, Owns
  <2> QED
    BY <1>2, <2>1, <2>2, SendingStep DEF Sending
<1>3. absence' # 0 => servers' = {} /\ ~ActiveJob'
  <2>1. CASE absence' = absence /\ absence # 0
    <3>1. servers = {} /\ ~ActiveJob
      BY <2>1 DEF IInv, Prompted
    <3>2. servers' = {}
      BY <3>1, PromptCall, Busy
    <3>3. ~Dispatch
      <4>1. absence \in Attempts
        BY <2>1 DEF IInv, TypeOK, Attempts
      <4>2. Exists(absence)
        BY <2>1 DEF IInv, Order
      <4> QED
        BY <4>1, <4>2 DEF Dispatch
    <3>4. ~Reconcile
      BY <3>1 DEF Reconcile, TheServer
    <3>5. ~Retry
      BY <2>1 DEF Retry
    <3>6. job' = job
      BY <3>1, <3>3, <3>4, <3>5, IdleStep
    <3> QED
      BY <3>1, <3>2, <3>6 DEF ActiveJob
  <2>2. CASE ConfirmNoResource
    BY <2>2 DEF ConfirmNoResource, AcceptsReconciliation, IInv, Order, Quiet, ActiveJob
  <2>3. CASE Retry
    BY <2>3 DEF Retry
  <2> QED
    BY <2>1, <2>2, <2>3 DEF Next, Admin, Process, Approve, Hold, Dispatch, ExpireLease,
       RecoverExpired, Claim, Start, MarkCreateSent, CheckBeforeCreate, Look, Resume,
       PersistTask, PollFails, RecordInstance, StartHealthCheck, KeepHealthResult,
       Finalize, StopToReconcile, Fail, Abandon, Reconcile, Refund, CreateServer, Crash,
       ArriveLate
<1>4. \A a \in Attempts :
         job'[a].status \in Active /\ ~job'[a].sent => servers' = {}
  <2>1. ASSUME NEW a \in Attempts, job'[a].status \in Active, ~job'[a].sent
        PROVE  servers' = {}
    <3>1. a \in Jobs /\ a # Poll
      BY DEF Jobs, Attempts, Poll
    <3>2. CASE Exists(a)
      <4>1. job[a].status \in Active /\ ~job[a].sent
        BY <2>1, <3>1, <3>2, ActiveStep, MemoryStep
      <4>2. servers = {}
        BY <4>1 DEF IInv, Prompted
      <4>3. \A w \in Workers : ~(worker[w].pc = "creating" /\ Fenced(w))
        BY <3>1, <4>1, Busy DEF IInv, Sends, Sending
      <4> QED
        BY <4>2, <4>3, PromptCall
    <3>3. CASE ~Exists(a)
      <4>1. PICK n \in 0..MaxAttempts : Prefix(n)
        BY DEF IInv, Order
      <4>2. Exists(a)'
        BY <2>1 DEF Exists, Active
      <4>3. Dispatch \/ Retry
        BY <3>1, <3>3, <4>1, <4>2, Appears
      <4>4. CASE Dispatch
        <5>1. \A b \in Attempts : ~job[b].sent
          BY <4>4 DEF Dispatch, Exists, IInv, JobShape, NoJob, Jobs
        <5>2. servers = {}
          BY <5>1 DEF IInv, Sends, TypeOK, Calls
        <5> QED
          BY <4>4, <5>2 DEF Dispatch
      <4>5. CASE Retry
        BY <4>5, SafeMeansNone DEF Retry, OffersRetry
      <4> QED
        BY <4>3, <4>4, <4>5
    <3> QED
      BY <3>2, <3>3
  <2> QED
    BY <2>1
<1>5. \A w \in Workers : worker'[w].pc \in Sending /\ Fenced(w)' => servers' = {}
  <2>1. ASSUME NEW w \in Workers, worker'[w].pc \in Sending, Fenced(w)'
        PROVE  servers' = {}
    <3>1. CASE worker'[w] = worker[w]
      <4>1. worker[w].pc \in Sending /\ Fenced(w)
        BY <2>1, <3>1, FenceLost DEF Sending, Holding
      <4>2. servers = {}
        BY <4>1 DEF IInv, Prompted
      <4>3. ASSUME NEW v \in Workers, worker[v].pc = "creating", Fenced(v),
                   worker'[v].pc \notin Sending
            PROVE  FALSE
        <5>1. worker[v].job = worker[w].job
          BY <4>1, <4>3, Busy DEF Active
        <5>2. v = w
          BY <4>1, <4>3, <5>1 DEF IInv, Sends, Sending
        <5> QED
          BY <2>1, <4>3, <5>2
      <4> QED
        BY <4>2, <4>3, PromptCall
    <3>2. CASE MarkCreateSent(w)
      <4>1. job[worker[w].job].status \in Active /\ ~job[worker[w].job].sent
        BY <3>2 DEF MarkCreateSent, Fenced, Owns, Active
      <4>2. worker[w].job \in Attempts
        BY <3>2 DEF MarkCreateSent, IInv, Sends
      <4> QED
        BY <3>2, <4>1, <4>2 DEF MarkCreateSent, IInv, Prompted
    <3>3. CASE CheckBeforeCreate(w)
      BY <3>3 DEF CheckBeforeCreate, IInv, Prompted, Sending
    <3> QED
      BY <2>1, <3>1, <3>2, <3>3, SendingStep DEF Sending
  <2> QED
    BY <2>1
<1>6. OneServer'
  BY PromptCall DEF OneServer, IInv, Prompted
<1>7. RefundedHasNoServer'
  <2>1. SUFFICES ASSUME status' = "REFUNDED"
                 PROVE  servers' = {} /\ ~instance'
                        /\ \A w \in Workers : worker'[w].pc # "creating"
    BY DEF RefundedHasNoServer
  <2>2. ~ActiveJob'
    BY <2>1, PairedStep, QuietStep DEF Paired, Quiet
  <2>3. \A w \in Workers : worker'[w].pc # "creating"
    <3>1. worker' \in [Workers -> WorkerRow]
      BY EveryStep, TypeStep DEF TypeOK, WorkerRow
    <3> QED
      BY <1>2, <2>2, <3>1 DEF ActiveJob, Active, Fenced, Owns, WorkerRow
  <2>4. CASE Refund
    BY <2>3, <2>4, SafeMeansNone DEF Refund, OffersRefund, OffersRetry
  <2>5. CASE ~Refund
    <3>1. status = "REFUNDED"
      <4>1. CASE \E w \in Workers : Fail(w)
        BY <2>1, <4>1 DEF Fail, Outcome
      <4> QED
        BY <2>1, <2>5, <4>1 DEF Next, Admin, Process, Approve, Hold, Dispatch, ExpireLease,
           RecoverExpired, Claim, Start, MarkCreateSent, CheckBeforeCreate, Look, Resume,
           PersistTask, PollFails, RecordInstance, StartHealthCheck, KeepHealthResult,
           Finalize, StopToReconcile, Abandon, Reconcile, ConfirmNoResource, Retry,
           CreateServer, Crash, ArriveLate
    <3>2. servers = {} /\ ~instance
      BY <3>1 DEF IInv, Prompted, RefundedHasNoServer
    <3>3. \A w \in Workers : ~Fenced(w)
      BY <3>1, Busy DEF IInv, Order, StatusMatchesFlow, Quiet
    <3>4. servers' = {}
      BY <3>2, <3>3, PromptCall
    <3>5. ~instance'
      BY <3>1, <3>2, <3>3 DEF Next, Admin, Process, Approve, Hold, Dispatch, ExpireLease,
         RecoverExpired, Claim, Start, MarkCreateSent, CheckBeforeCreate, Look, Resume,
         PersistTask, PollFails, RecordInstance, StartHealthCheck, KeepHealthResult,
         Finalize, StopToReconcile, Fail, Abandon, Reconcile, AcceptsReconciliation,
         ConfirmNoResource, Retry, Refund, CreateServer, Crash, ArriveLate
    <3> QED
      BY <2>3, <3>4, <3>5
  <2> QED
    BY <2>4, <2>5
<1> QED
  BY <1>1, <1>2, <1>3, <1>4, <1>5, <1>6, <1>7 DEF Prompted

(***************************************************************************)
(* The invariant                                                           *)
(***************************************************************************)

LEMMA InitInv == Init => IInv
<1> SUFFICES ASSUME Init PROVE IInv
  OBVIOUS
<1> USE DEF Init
<1>1. TypeOK
  <2>1. NoJob \in Row /\ Idle \in WorkerRow
    BY ProvisioningAssumption DEF NoJob, Row, Idle, WorkerRow, Jobs, Poll
  <2>2. job \in [Jobs -> Row] /\ worker \in [Workers -> WorkerRow]
    BY <2>1
  <2>3. servers \subseteq Calls /\ late \subseteq Calls /\ absence \in 0..MaxAttempts
    BY ProvisioningAssumption
  <2> QED
    BY <2>2, <2>3 DEF TypeOK, Row, WorkerRow
<1>2. JobShape /\ Tokens
  BY ProvisioningAssumption DEF JobShape, Tokens, Holding, NoJob, Idle, Active
<1>3. Order
  <2>1. Prefix(0)
    BY DEF Prefix, Exists, Attempts, Jobs, NoJob
  <2>2. OneActiveJob /\ ~ActiveJob /\ ~Exists(Poll)
    BY DEF OneActiveJob, ActiveJob, Active, NoJob, Exists, Jobs, Poll
  <2>3. StatusMatchesFlow
    BY DEF StatusMatchesFlow, InFlight
  <2> QED
    BY <2>1, <2>2, <2>3, ProvisioningAssumption
       DEF Order, NoJob, Idle, Active, Jobs, Attempts
<1>4. Sends /\ Billed /\ Prompted
  BY DEF Sends, Billed, Prompted, CreateOnce, BilledServerExists, OneServer,
         RefundedHasNoServer, NoJob, Idle, Sending, Seen, Active
<1> QED
  BY <1>1, <1>2, <1>3, <1>4 DEF IInv
LEMMA NextInv == IInv /\ Next => IInv'
<1> SUFFICES ASSUME IInv, Next PROVE IInv'
  OBVIOUS
<1>1. TypeOK' /\ JobShape' /\ Tokens'
  BY TypeStep, EveryStep, ShapeStep, TokenStep
<1>2. Order'
  <2>1. OneActiveJob'
    BY ActiveStep
  <2>2. StatusMatchesFlow'
    BY PairedStep, InFlightStep DEF Paired, StatusMatchesFlow
  <2>3. (flow \in Quiet => ~ActiveJob)'
    BY QuietStep
  <2> QED
    BY <2>1, <2>2, <2>3, HealthStep, AttemptsStep, AbsenceStep DEF Order
<1>3. Sends' /\ Billed'
  BY SendsStep, BilledStep
<1>4. Prompted'
  BY PromptedStep DEF Prompted
<1> QED
  BY <1>1, <1>2, <1>3, <1>4 DEF IInv

LEMMA StutterInv == IInv /\ UNCHANGED vars => IInv'
<1> SUFFICES ASSUME IInv, UNCHANGED vars PROVE IInv'
  OBVIOUS
<1> USE DEF vars
<1>1. TypeOK' /\ JobShape'
  BY DEF IInv, TypeOK, JobShape
<1>2. Tokens'
  BY DEF IInv, Tokens, Holding
<1>3. Order'
  BY DEF IInv, Order, OneActiveJob, StatusMatchesFlow, InFlight, ActiveJob, Exists, Prefix
<1>4. Sends' /\ Billed'
  BY DEF IInv, Sends, CreateOnce, Billed, BilledServerExists
<1>5. Prompted'
  BY DEF IInv, Prompted, Fenced, Owns, ActiveJob, OneServer, RefundedHasNoServer
<1> QED
  BY <1>1, <1>2, <1>3, <1>4, <1>5 DEF IInv

\* The inductive invariant: tokens, active job, flow, calls and bills agree.
THEOREM AlwaysInv == Spec => []IInv
<1>1. IInv /\ [Next]_vars => IInv'
  BY NextInv, StutterInv
<1> QED
  BY InitInv, <1>1, PTL DEF Spec

(***************************************************************************)
(* The theorems                                                            *)
(***************************************************************************)

\* The state of every job and worker is well typed: no claim beyond the bound.
THEOREM TypesHold == Spec => []TypeOK
<1>1. IInv => TypeOK
  BY DEF IInv
<1> QED
  BY AlwaysInv, <1>1, PTL

\* One create attempt makes at most one server, whatever leases expire,
\* workers crash or calls come late (submitProvisioningOnce).
THEOREM OneServerPerAttempt == Spec => []CreateOnce
<1>1. IInv => CreateOnce
  BY DEF IInv, Sends
<1> QED
  BY AlwaysInv, <1>1, PTL

\* Dispatch, reconciliation and retry never put two jobs of an order to work.
THEOREM OneJobAtWork == Spec => []OneActiveJob
<1>1. IInv => OneActiveJob
  BY DEF IInv, Order
<1> QED
  BY AlwaysInv, <1>1, PTL

\* The order's status and its flow state stay one of the known pairs, and an
\* order in flight has a job that can move it on.
THEOREM StatusAndFlowAgree == Spec => []StatusMatchesFlow
<1>1. IInv => StatusMatchesFlow
  BY DEF IInv, Order
<1> QED
  BY AlwaysInv, <1>1, PTL

\* Usage billing starts only on a server that exists.
THEOREM BillsAreForServers == Spec => []BilledServerExists
<1>1. IInv => BilledServerExists
  BY DEF IInv, Billed
<1> QED
  BY AlwaysInv, <1>1, PTL

\* A job that ended for an operator is not ended otherwise by a stale worker.
THEOREM EndedJobsStay == Spec => EndedStaysEnded
<1> DEFINE A == \A j \in Jobs : job[j].status \in Ended => job'[j].status = job[j].status
<1>1. IInv /\ Next => A
  <2> SUFFICES ASSUME IInv, Next, NEW j \in Jobs, job[j].status \in Ended
               PROVE  job'[j].status = job[j].status
    OBVIOUS
  <2>1. job[j].status # "RUNNING" /\ job[j].status # "QUEUED" /\ Exists(j)
    BY DEF Ended, Exists
  <2>2. CASE Enqueued
    BY <2>1, <2>2 DEF Enqueued, JobQueued, OnlyJob
  <2>3. CASE LeaseEnded \/ Recovered
    BY <2>1, <2>3 DEF LeaseEnded, Recovered, JobExpired, JobLeft, OnlyJob
  <2>4. CASE Taken
    BY <2>1, <2>4 DEF Taken, JobClaimed, OnlyJob
  <2>5. CASE Noted
    BY <2>1, <2>5 DEF Noted, JobNoted, OnlyJob
  <2>6. CASE Closed
    BY <2>1, <2>6 DEF Closed, Fenced, Owns, JobLeft, OnlyJob
  <2> QED
    BY <2>2, <2>3, <2>4, <2>5, <2>6, StepCases
<1>2. UNCHANGED vars => A
  BY DEF vars
<1>3. IInv /\ [Next]_vars => [A]_vars
  BY <1>1, <1>2
<1> HIDE DEF A
<1>4. Spec => [][A]_vars
  BY AlwaysInv, <1>3, PTL DEF Spec
<1> QED
  BY <1>4 DEF EndedStaysEnded, A

\* With a prompt provider an order never has two servers, over all its retries.
THEOREM OneServerPerOrder == ASSUME Prompt PROVE Spec => []OneServer
<1>1. IInv => OneServer
  BY DEF IInv, Prompted
<1> QED
  BY AlwaysInv, <1>1, PTL

\* With a prompt provider a refunded order has no server and gets none.
THEOREM RefundLeavesNoServer == ASSUME Prompt PROVE Spec => []RefundedHasNoServer
<1>1. IInv => RefundedHasNoServer
  BY DEF IInv, Prompted
<1> QED
  BY AlwaysInv, <1>1, PTL

(***************************************************************************)
(* The contract                                                            *)
(***************************************************************************)

\* An attempt confirmed to have left no server is followed by a retry or a
\* refund only, and only the latest attempt is at work.
Settled ==
    /\ absence # 0 => flow \in {"PROVISIONING_RETRYABLE", "CANCELLED"} /\ ~Adopted
    /\ \A a \in Attempts : job[a].status \in Active => a = LatestCreate

LEMMA LatestNext ==
    ASSUME NEW n \in 0..MaxAttempts, Prefix(n)'
    PROVE  LatestCreate' = n
<1>1. CASE n = 0
  BY <1>1 DEF LatestCreate, Prefix, Attempts
<1>2. CASE n # 0
  <2>1. n \in Attempts /\ Exists(n)'
    BY <1>2, ProvisioningAssumption DEF Attempts, Prefix
  <2>2. \A b \in Attempts : Exists(b)' => b <= n
    BY DEF Prefix
  <2>3. \A a \in Attempts : (Exists(a)' /\ \A b \in Attempts : Exists(b)' => b <= a) => a = n
    BY <2>1, <2>2, ProvisioningAssumption DEF Attempts
  <2> QED
    BY <2>1, <2>2, <2>3 DEF LatestCreate
<1> QED
  BY <1>1, <1>2

LEMMA LatestMoves ==
    ASSUME IInv, Next
    PROVE  \E n \in 0..MaxAttempts :
             /\ LatestCreate = n /\ Prefix(n)
             /\ \/ /\ LatestCreate' = n
                   /\ \A a \in Attempts : Exists(a)' <=> Exists(a)
                \/ /\ LatestCreate' = n + 1 /\ n + 1 \in Attempts
                   /\ ~Exists(n + 1) /\ Exists(n + 1)' /\ Prefix(n + 1)'
                   /\ (Dispatch /\ n = 0) \/ Retry
<1>1. PICK n \in 0..MaxAttempts : Prefix(n)
  BY DEF IInv, Order
<1>2. LatestCreate = n
  BY <1>1, Latest
<1>3. CASE Prefix(n)' /\ \A a \in Attempts : Exists(a)' <=> Exists(a)
  BY <1>1, <1>2, <1>3, LatestNext
<1>4. CASE /\ n + 1 \in Attempts /\ Prefix(n + 1)' /\ ~Exists(n + 1) /\ Exists(n + 1)'
           /\ (Dispatch /\ n = 0) \/ Retry
  <2>1. n + 1 \in 0..MaxAttempts
    BY <1>4 DEF Attempts
  <2>2. LatestCreate' = n + 1
    BY <1>4, <2>1, LatestNext
  <2> QED
    BY <1>1, <1>2, <1>4, <2>2
<1> QED
  BY <1>1, <1>3, <1>4, PrefixStep

LEMMA AdoptedStep ==
    ASSUME IInv, Next
    PROVE  /\ Adopted => Adopted'
           /\ Adopted' => \/ Adopted \/ Reconcile
                          \/ \E w \in Workers : PersistTask(w) \/ RecordInstance(w)
<1>1. instance => instance'
  BY DEF Next, Admin, Process, Approve, Hold, Dispatch, ExpireLease,
     RecoverExpired, Claim, Start, MarkCreateSent, CheckBeforeCreate, Look, Resume,
     PersistTask, PollFails, RecordInstance, StartHealthCheck, KeepHealthResult,
     Finalize, StopToReconcile, Fail, Abandon, Reconcile, ConfirmNoResource, Retry,
     Refund, CreateServer, Crash, ArriveLate
<1>2. CASE \E w \in Workers : PersistTask(w) \/ RecordInstance(w)
  <2>1. PICK w \in Workers : PersistTask(w) \/ RecordInstance(w)
    BY <1>2
  <2>2. worker[w].job \in Jobs
    BY Typed DEF IInv, WorkerRow
  <2>3. job'[worker[w].job].found
    BY <2>1, <2>2, FoundJob DEF IInv, PersistTask, RecordInstance
  <2> QED
    BY <1>2, <2>2, <2>3 DEF Adopted
<1>3. CASE Reconcile
  BY <1>3 DEF Reconcile, Adopted
<1>4. CASE ~Reconcile /\ ~\E w \in Workers : PersistTask(w) \/ RecordInstance(w)
  <2>1. instance' => instance
    BY <1>4 DEF Next, Admin, Process, Approve, Hold, Dispatch, ExpireLease,
       RecoverExpired, Claim, Start, MarkCreateSent, CheckBeforeCreate, Look, Resume,
       PollFails, StartHealthCheck, KeepHealthResult, Finalize, StopToReconcile, Fail,
       Abandon, ConfirmNoResource, Retry, Refund, CreateServer, Crash, ArriveLate
  <2>2. Poll \in Jobs
    BY DEF Jobs
  <2>3. job[Poll].found => instance
    BY <2>2 DEF IInv, JobShape, Order, Exists, NoJob
  <2>4. job'[Poll].found => instance'
    <3>1. IInv'
      BY NextInv
    <3> QED
      BY <2>2, <3>1 DEF IInv, JobShape, Order, Exists, NoJob
  <2>5. \A j \in Jobs : j # Poll => job'[j].found = job[j].found
    BY <1>4, MemoryStep
  <2> QED
    BY <1>1, <2>1, <2>3, <2>4, <2>5 DEF Adopted
<1> QED
  BY <1>2, <1>3, <1>4

LEMMA RefundedStep ==
    ASSUME IInv, Next
    PROVE  status' = "REFUNDED" <=> status = "REFUNDED" \/ Refund
<1>1. CASE Refund
  BY <1>1 DEF Refund
<1>2. CASE \E w \in Workers : Fail(w)
  <2>1. status # "REFUNDED"
    BY <1>2 DEF Fail, IInv, Order, StatusMatchesFlow
  <2>2. status' # "REFUNDED" /\ ~Refund
    BY <1>2 DEF Fail, Outcome, Refund
  <2> QED
    BY <2>1, <2>2
<1>3. CASE ~Refund /\ ~\E w \in Workers : Fail(w)
  <2>1. status = "REFUNDED" => flow = "CANCELLED"
    BY DEF IInv, Order, StatusMatchesFlow
  <2> QED
    BY <1>3, <2>1 DEF Next, Admin, Process, Approve, AwaitsApproval, Hold, Dispatch,
       ExpireLease, RecoverExpired, Claim, Start, MarkCreateSent, CheckBeforeCreate, Look,
       Resume, PersistTask, PollFails, RecordInstance, StartHealthCheck,
       KeepHealthResult, Finalize, StopToReconcile, Abandon, Reconcile,
       ConfirmNoResource, AcceptsReconciliation, Retry, OffersRetry, Stopped,
       CreateServer, Crash, ArriveLate
<1> QED
  BY <1>1, <1>2, <1>3

LEMMA AbsenceMoves ==
    ASSUME Next
    PROVE  absence' = absence \/ ConfirmNoResource \/ Retry
  BY DEF Next, Admin, Process, Approve, Hold, Dispatch, ExpireLease,
     RecoverExpired, Claim, Start, MarkCreateSent, CheckBeforeCreate, Look, Resume,
     PersistTask, PollFails, RecordInstance, StartHealthCheck, KeepHealthResult,
     Finalize, StopToReconcile, Fail, Abandon, Reconcile, Refund, CreateServer, Crash,
     ArriveLate

LEMMA SettledStep ==
    ASSUME IInv, Settled, Next
    PROVE  Settled'
<1>1. absence' # 0 => flow' \in {"PROVISIONING_RETRYABLE", "CANCELLED"} /\ ~Adopted'
  <2>1. CASE absence' = absence /\ absence # 0 /\ ~Retry /\ ~ConfirmNoResource
    <3>1. flow \in {"PROVISIONING_RETRYABLE", "CANCELLED"} /\ ~Adopted
      BY <2>1 DEF Settled
    <3>2. ~ActiveJob
      BY <3>1 DEF IInv, Order, Quiet
    <3>3. \A w \in Workers : ~Fenced(w)
      BY <3>2, Busy
    <3>4. \A j \in Jobs : job[j].status # "QUEUED"
      BY <3>2 DEF ActiveJob, Active
    <3>5. ~Reconcile
      BY <3>1 DEF Reconcile, AcceptsReconciliation
    <3>6. ~Adopted'
      BY <3>1, <3>3, <3>5, AdoptedStep DEF PersistTask, RecordInstance
    <3>7. flow' \in {"PROVISIONING_RETRYABLE", "CANCELLED"}
      BY <2>1, <3>1, <3>3, <3>4, <3>5 DEF Next, Admin, Process, Approve, AwaitsApproval,
         Hold, Dispatch, ExpireLease, RecoverExpired, Claim, Claimable, Start,
         MarkCreateSent, CheckBeforeCreate, Look, Resume, PersistTask, PollFails,
         RecordInstance, StartHealthCheck, KeepHealthResult, Finalize, StopToReconcile,
         Fail, Abandon, Refund, CreateServer, Crash, ArriveLate
    <3> QED
      BY <3>6, <3>7
  <2>2. CASE ConfirmNoResource
    <3>1. ~Adopted
      BY <2>2 DEF ConfirmNoResource, IInv, Billed, BilledServerExists, Adopted
    <3> QED
      BY <2>2, <3>1 DEF ConfirmNoResource, Adopted
  <2>3. CASE Retry
    BY <2>3 DEF Retry
  <2> QED
    BY <2>1, <2>2, <2>3, AbsenceMoves
<1>2. ASSUME NEW a \in Attempts, job'[a].status \in Active
      PROVE  a = LatestCreate'
  <2>1. a \in Jobs /\ a \in Nat /\ Exists(a)'
    BY <1>2, ProvisioningAssumption DEF Jobs, Attempts, Exists, Active
  <2>2. PICK n \in 0..MaxAttempts :
          /\ LatestCreate = n /\ Prefix(n)
          /\ \/ /\ LatestCreate' = n
                /\ \A b \in Attempts : Exists(b)' <=> Exists(b)
             \/ /\ LatestCreate' = n + 1 /\ n + 1 \in Attempts
                /\ ~Exists(n + 1) /\ Exists(n + 1)' /\ Prefix(n + 1)'
                /\ (Dispatch /\ n = 0) \/ Retry
    BY LatestMoves
  <2>3. CASE Exists(a)
    <3>1. job[a].status \in Active
      BY <1>2, <2>1, <2>3, ActiveStep
    <3>2. a = LatestCreate /\ ~Retry
      BY <3>1 DEF Settled, Retry
    <3>3. ~Dispatch
      BY <2>3 DEF Dispatch
    <3> QED
      BY <2>2, <3>2, <3>3
  <2>4. CASE ~Exists(a)
    <3>1. LatestCreate' = n + 1 /\ a <= n + 1 /\ ~(a <= n)
      BY <2>1, <2>2, <2>4 DEF Prefix
    <3> QED
      BY <2>1, <3>1, ProvisioningAssumption
  <2> QED
    BY <2>3, <2>4
<1> QED
  BY <1>1, <1>2 DEF Settled

\* A call is one of the attempts made so far.
LEMMA CallsOfAttempts ==
    ASSUME IInv, NEW c \in servers \cup late
    PROVE  c[1] \in 1..LatestCreate
<1>1. PICK n \in 0..MaxAttempts : Prefix(n)
  BY DEF IInv, Order
<1>2. LatestCreate = n
  BY <1>1, Latest
<1>3. c[1] \in Attempts /\ job[c[1]].sent
  BY DEF IInv, TypeOK, Calls, Sends
<1>4. Exists(c[1])
  BY <1>3 DEF IInv, JobShape, Exists, NoJob, Jobs
<1>5. c[1] <= n /\ c[1] \in Nat /\ c[1] >= 1
  BY <1>1, <1>3, <1>4, ProvisioningAssumption DEF Prefix, Attempts
<1> QED
  BY <1>2, <1>5

\* What retry and refund ask: nothing taken over, and nothing at work.
LEMMA SafeIsClear ==
    ASSUME IInv, Settled, ResourceSafe
    PROVE  ~Adopted /\ (Confirmed \/ (servers = {} /\ late = {}))
<1>1. CASE \A j \in Jobs : ~MayHaveResource(j)
  <2>1. \A c \in servers \cup late : c[1] \in Jobs /\ job[c[1]].sent
    BY DEF IInv, TypeOK, Calls, Jobs, Sends
  <2>2. servers = {} /\ late = {}
    BY <1>1, <2>1 DEF MayHaveResource
  <2> QED
    BY <1>1, <2>2 DEF ResourceSafe, MayHaveResource, Adopted
<1>2. CASE LatestCreate # 0 /\ absence = LatestCreate
  BY <1>2 DEF Settled, Confirmed
<1> QED
  BY <1>1, <1>2 DEF ResourceSafe

\* Whoever holds a fence is at work on the latest attempt of an open order.
LEMMA AtWork ==
    ASSUME IInv, Settled, NEW w \in Workers, Fenced(w)
    PROVE  /\ absence = 0 /\ ~Confirmed /\ status # "REFUNDED"
           /\ worker[w].job \in Attempts => worker[w].job = LatestCreate
<1>1. /\ flow \notin Quiet /\ job[worker[w].job].status \in Active
  BY Busy DEF Active
<1>2. absence = 0
  BY <1>1 DEF Settled, Quiet
<1>3. status # "REFUNDED"
  BY <1>1 DEF IInv, Order, StatusMatchesFlow, Quiet
<1> QED
  BY <1>1, <1>2, <1>3 DEF Settled, Confirmed

\* Dispatch and retry start an attempt.
LEMMA AttemptStep ==
    ASSUME IInv, Settled, NEW n \in 0..MaxAttempts,
           LatestCreate = n, LatestCreate' = n + 1, Prefix(n),
           (Dispatch /\ n = 0) \/ Retry, Next
    PROVE  Contract!Attempt
<1>1. ~Adopted /\ status # "REFUNDED" /\ (Confirmed \/ (servers = {} /\ late = {}))
  <2>1. CASE Dispatch /\ n = 0
    <3>1. servers = {} /\ late = {}
      BY <2>1, CallsOfAttempts
    <3> QED
      BY <2>1, <3>1 DEF Dispatch, IInv, Billed, BilledServerExists, Adopted
  <2>2. CASE Retry
    BY <2>2, SafeIsClear DEF Retry, OffersRetry, Stopped
  <2> QED
    BY <2>1, <2>2
<1>2. ~Confirmed'
  <2>1. CASE Dispatch /\ n = 0
    <3>1. absence = 0
      <4>1. absence # 0 => absence \in Attempts /\ Exists(absence)
        BY DEF IInv, TypeOK, Order, Attempts
      <4> QED
        BY <2>1, <4>1 DEF Dispatch
    <3> QED
      BY <2>1, <3>1 DEF Dispatch, Confirmed
  <2>2. CASE Retry
    BY <2>2 DEF Retry, Confirmed
  <2> QED
    BY <2>1, <2>2
<1>3. ~Adopted'
  <2>1. CASE Dispatch
    <3>1. flow \in Quiet /\ ~Reconcile
      BY <2>1 DEF Dispatch, Quiet, Reconcile, AcceptsReconciliation
    <3>2. \A w \in Workers : ~Fenced(w)
      BY <3>1, Busy
    <3> QED
      BY <1>1, <3>1, <3>2, AdoptedStep DEF PersistTask, RecordInstance
  <2>2. CASE Retry
    <3>1. flow \in Quiet /\ ~Reconcile
      BY <2>2 DEF Retry, OffersRetry, Stopped, Quiet, Reconcile
    <3>2. \A w \in Workers : ~Fenced(w)
      BY <3>1, Busy
    <3> QED
      BY <1>1, <3>1, <3>2, AdoptedStep DEF PersistTask, RecordInstance
  <2> QED
    BY <2>1, <2>2
<1>4. status' # "REFUNDED" /\ UNCHANGED <<servers, late>>
  BY DEF Dispatch, Retry
<1> QED
  BY <1>1, <1>2, <1>3, <1>4
     DEF Contract!Attempt, Contract!Open, Contract!Clear, Confirmed, Adopted

\* A refund and a confirmed absence change nothing else.
LEMMA SettleStep ==
    ASSUME IInv, Settled, Next, LatestCreate' = LatestCreate
    PROVE  /\ Refund => Contract!Refund
           /\ ConfirmNoResource => Contract!ConfirmAbsent
<1>1. ASSUME Refund PROVE Contract!Refund
  <2>1. ~Adopted /\ (Confirmed \/ (servers = {} /\ late = {}))
    BY <1>1, SafeIsClear DEF Refund, OffersRefund, OffersRetry
  <2>2. status # "REFUNDED" /\ status' = "REFUNDED"
    BY <1>1 DEF Refund, OffersRefund, OffersRetry, Stopped
  <2> QED
    BY <1>1, <2>1, <2>2
       DEF Refund, Contract!Refund, Contract!Open, Contract!Clear, Confirmed,
           Adopted
<1>2. ASSUME ConfirmNoResource PROVE Contract!ConfirmAbsent
  <2>1. servers = {} /\ LatestCreate # 0
    BY <1>2 DEF ConfirmNoResource
  <2>2. ~Adopted
    BY <2>1 DEF IInv, Billed, BilledServerExists, Adopted
  <2>3. status # "REFUNDED" /\ status' # "REFUNDED"
    BY <1>2 DEF ConfirmNoResource, AcceptsReconciliation
  <2> QED
    BY <1>2, <2>1, <2>2, <2>3
       DEF ConfirmNoResource, Contract!ConfirmAbsent, Contract!Open, Confirmed,
           Adopted
<1> QED
  BY <1>1, <1>2

\* A create call is made, lost on its way for now, or arrives.
Calling(w) ==
    /\ worker[w].pc = "creating"
    /\ CreateServer(w) \/ Crash(w)
    /\ Executed(w) \/ Delayed(w)

LEMMA CallingStep ==
    ASSUME IInv, Settled, Next, NEW w \in Workers, Calling(w),
           LatestCreate' = LatestCreate, UNCHANGED <<status, instance, absence, job>>
    PROVE  Contract!Next
<1> DEFINE a == worker[w].job
<1>1. a \in Attempts /\ job[a].sent
  BY DEF Calling, IInv, Sends, Sending
<1>2. a \in 1..LatestCreate
  <2>1. PICK n \in 0..MaxAttempts : Prefix(n)
    BY DEF IInv, Order
  <2>2. LatestCreate = n
    BY <2>1, Latest
  <2>3. Exists(a)
    BY <1>1 DEF IInv, JobShape, Exists, NoJob, Jobs
  <2>4. a <= n /\ a \in Nat /\ a >= 1
    BY <1>1, <2>1, <2>3, ProvisioningAssumption DEF Prefix, Attempts
  <2> QED
    BY <2>2, <2>4
<1>3. \A c \in servers \cup late : c[1] # a
  BY DEF Calling, IInv, Sends, Sending
<1>4. Call(w) \in Calls /\ Call(w)[1] = a
  <2>1. worker[w].token \in 1..MaxClaims
    <3>1. worker[w].token \in 1..job[a].claims /\ job[a].claims \in 0..MaxClaims
      BY <1>1, Typed DEF Calling, IInv, Tokens, Holding, Row, Jobs
    <3> QED
      BY <3>1, ProvisioningAssumption
  <2> QED
    BY <1>1, <2>1 DEF Call, Calls
<1>5. Contract!Uncalled(Call(w))
  BY <1>2, <1>3, <1>4 DEF Contract!Uncalled
<1>6. CASE Executed(w)
  <2>1. Prompt => /\ a = LatestCreate /\ servers = {} /\ ~Adopted
                  /\ status # "REFUNDED" /\ ~Confirmed
    <3>1. SUFFICES ASSUME Prompt
                   PROVE  /\ a = LatestCreate /\ servers = {} /\ ~Adopted
                          /\ status # "REFUNDED" /\ ~Confirmed
      OBVIOUS
    <3>2. Fenced(w) /\ servers = {}
      BY <3>1 DEF Calling, IInv, Prompted, Sending
    <3>3. ~Adopted
      BY <3>2 DEF IInv, Billed, BilledServerExists, Adopted
    <3> QED
      BY <1>1, <3>2, <3>3, AtWork
  <2> HIDE DEF a
  <2>2. Contract!Make(Call(w))
    BY <1>4, <1>5, <1>6, <2>1 DEF Contract!Make, Contract!Open, Executed, Confirmed, Adopted
  <2> QED
    BY <1>4, <2>2 DEF Contract!Next
<1>7. CASE Delayed(w)
  <2>1. Contract!Delay(Call(w))
    BY <1>5, <1>7 DEF Contract!Delay, Delayed, Confirmed, Adopted
  <2> QED
    BY <1>4, <2>1 DEF Contract!Next
<1> QED
  BY <1>6, <1>7 DEF Calling

LEMMA ArrivalStep ==
    ASSUME IInv, NEW c \in late, ArriveLate(c), LatestCreate' = LatestCreate
    PROVE  Contract!Next
<1>1. ~Prompt /\ c \in Calls
  BY DEF IInv, TypeOK, Prompted
<1>2. Contract!Arrive(c)
  BY <1>1 DEF ArriveLate, Contract!Arrive, Confirmed, Adopted
<1> QED
  BY <1>1, <1>2 DEF Contract!Next

\* The server found, or adopted by the administrator, is one that exists.
LEMMA AdoptStep ==
    ASSUME IInv, Settled, Next, ~Adopted, Adopted', LatestCreate' = LatestCreate
    PROVE  Contract!Adopt
<1>1. /\ servers # {} /\ absence = 0 /\ status # "REFUNDED" /\ status' # "REFUNDED"
      /\ UNCHANGED <<servers, late, absence>>
  <2>1. CASE Reconcile
    <3>1. servers # {}
      BY <2>1 DEF Reconcile, TheServer
    <3>2. absence = 0
      BY <2>1 DEF Reconcile, AcceptsReconciliation, Settled
    <3> QED
      BY <2>1, <3>1, <3>2 DEF Reconcile, AcceptsReconciliation
  <2>2. CASE \E w \in Workers : PersistTask(w) \/ RecordInstance(w)
    <3>1. PICK w \in Workers : PersistTask(w) \/ RecordInstance(w)
      BY <2>2
    <3>2. Fenced(w) /\ worker[w].pc \in Seen
      BY <3>1 DEF PersistTask, RecordInstance, Seen
    <3>3. servers # {}
      BY <3>2 DEF IInv, Billed
    <3>4. absence = 0 /\ status # "REFUNDED"
      BY <3>2, AtWork
    <3> QED
      BY <3>1, <3>3, <3>4 DEF PersistTask, RecordInstance
  <2> QED
    BY <2>1, <2>2, AdoptedStep
<1>2. ~Confirmed /\ ~Confirmed'
  BY <1>1 DEF Confirmed
<1> QED
  BY <1>1, <1>2 DEF Contract!Adopt, Contract!Open, Confirmed, Adopted

LEMMA CallsMove ==
    ASSUME IInv, Next
    PROVE  \/ UNCHANGED <<servers, late>>
           \/ \E c \in late : ArriveLate(c)
           \/ \E w \in Workers :
                Calling(w) /\ UNCHANGED <<status, instance, absence, job>>
<1>1. CASE \E w \in Workers : CreateServer(w) \/ Crash(w)
  BY <1>1 DEF CreateServer, Crash, NotExecuted, Calling
<1> QED
  BY <1>1 DEF Next, Admin, Process, Approve, Hold, Dispatch, ExpireLease,
     RecoverExpired, Claim, Start, MarkCreateSent, CheckBeforeCreate, Look, Resume,
     PersistTask, PollFails, RecordInstance, StartHealthCheck, KeepHealthResult,
     Finalize, StopToReconcile, Fail, Abandon, Reconcile, ConfirmNoResource, Retry,
     Refund

LEMMA ContractStep ==
    ASSUME IInv, Settled, Next
    PROVE  [Contract!Next]_(Contract!state)
<1>1. PICK n \in 0..MaxAttempts :
        /\ LatestCreate = n /\ Prefix(n)
        /\ \/ /\ LatestCreate' = n
              /\ \A b \in Attempts : Exists(b)' <=> Exists(b)
           \/ /\ LatestCreate' = n + 1 /\ n + 1 \in Attempts
              /\ ~Exists(n + 1) /\ Exists(n + 1)' /\ Prefix(n + 1)'
              /\ (Dispatch /\ n = 0) \/ Retry
  BY LatestMoves
<1>2. CASE LatestCreate' = n + 1 /\ ((Dispatch /\ n = 0) \/ Retry)
  BY <1>1, <1>2, AttemptStep DEF Contract!Next
<1>3. CASE LatestCreate' = LatestCreate
  <2>1. ~Retry
    <3>1. Retry => LatestCreate' = n + 1
      <4>1. ASSUME Retry PROVE ~Exists(n + 1) /\ Exists(n + 1)' /\ n + 1 \in Attempts
        <5>1. /\ n + 1 \in Attempts /\ ~Exists(n + 1)
              /\ job' = [job EXCEPT ![n + 1] = Queued(FALSE)]
          BY <1>1, <4>1, NextAttempt
        <5>2. n + 1 \in Jobs
          BY <5>1 DEF Jobs
        <5>3. job'[n + 1].status = "QUEUED"
          BY <5>1, <5>2, QueuedJob DEF IInv, JobQueued
        <5> QED
          BY <5>1, <5>3 DEF Exists
      <4> QED
        BY <1>1, <4>1
    <3> QED
      BY <1>1, <1>3, <3>1, ProvisioningAssumption
  <2>2. CASE Refund \/ ConfirmNoResource
    BY <1>3, <2>2, SettleStep DEF Contract!Next
  <2>3. CASE \E w \in Workers : Calling(w) /\ UNCHANGED <<status, instance, absence, job>>
    BY <1>3, <2>3, CallingStep
  <2>4. CASE \E c \in late : ArriveLate(c)
    BY <1>3, <2>4, ArrivalStep
  <2>5. CASE ~Adopted /\ Adopted'
    BY <1>3, <2>5, AdoptStep DEF Contract!Next
  <2>6. CASE /\ UNCHANGED <<servers, late>> /\ ~Refund /\ ~ConfirmNoResource
             /\ ~(~Adopted /\ Adopted')
    <3>1. absence' = absence
      BY <2>1, <2>6, AbsenceMoves
    <3>2. status' = "REFUNDED" <=> status = "REFUNDED"
      BY <2>6, RefundedStep
    <3>3. Adopted' <=> Adopted
      BY <2>6, AdoptedStep
    <3> QED
      BY <1>3, <2>6, <3>1, <3>2, <3>3 DEF Contract!state, Confirmed, Adopted
  <2> QED
    BY <2>2, <2>3, <2>4, <2>5, <2>6, CallsMove
<1> QED
  BY <1>1, <1>2, <1>3

\* An order's server as ServerContract promises it: one attempt after another, each
\* with one server at most, and nothing after an adoption or a refund; with a prompt
\* provider one server in all.
THEOREM ProvisioningImplementsContract == Spec => ImplementsContract
<1>1. Init => Settled /\ Contract!Init
  <2> SUFFICES ASSUME Init PROVE Settled /\ Contract!Init
    OBVIOUS
  <2>1. Prefix(0) /\ ~Adopted
    BY DEF Init, Prefix, Exists, Attempts, Jobs, NoJob, Adopted
  <2>2. LatestCreate = 0
    BY <2>1, Latest, ProvisioningAssumption
  <2>3. Settled
    BY DEF Init, Settled, NoJob, Active, Attempts, Jobs
  <2> QED
    BY <2>1, <2>2, <2>3
       DEF Init, Contract!Init, Confirmed, Adopted
<1>2. IInv /\ Settled /\ [Next]_vars => Settled' /\ [Contract!Next]_(Contract!state)
  <2>1. ASSUME IInv, Settled, UNCHANGED vars
        PROVE  Settled' /\ UNCHANGED Contract!state
    <3>1. LatestCreate' = LatestCreate
      BY <2>1 DEF vars, LatestCreate, Exists
    <3> QED
      BY <2>1, <3>1
         DEF vars, Settled, Contract!state, Confirmed, Adopted
  <2> QED
    BY <2>1, SettledStep, ContractStep
<1> QED
  BY AlwaysInv, <1>1, <1>2, PTL DEF Spec, ImplementsContract, Contract!Spec

=============================================================================
