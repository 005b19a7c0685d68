------------------------------ MODULE BillingRuns ------------------------------
(***************************************************************************)
(* Pay-as-you-go billing.  A service starts with a policy snapshot that    *)
(* says whether its usage is settled by the hour or by the day, a resource *)
(* version and an open usage interval; an administrator may schedule a new *)
(* policy for a coming period, and every change the provider confirms      *)
(* starts a new resource version.  Workers settle the closed periods: one  *)
(* Serializable transaction per period writes the period's BillingRun, an  *)
(* invoice per policy snapshot, the wallet debits and the dunning cases.   *)
(*                                                                         *)
(* The transaction's first statement waits for the period's advisory lock, *)
(* so its snapshot is older than the lock: Begin reads, Acquire comes      *)
(* later, and what others commit to a row the transaction has yet to write *)
(* makes it fail ("stale").  A row it has written is locked until it ends. *)
(*                                                                         *)
(* Time is counted in ticks; an hour is HourLength of them, a day is       *)
(* DayLength.  Amounts are Rate per tick of an ACTIVE resource: rounding,  *)
(* minimum charges and components other than compute are left out, except  *)
(* that a plan without a rate card for each of them goes to review.        *)
(***************************************************************************)
EXTENDS Integers, Sequences, FiniteSets, Functions

CONSTANTS
    Services,        \* cloud instances, numbered as their ids sort
    Users,           \* their owners
    Owner,           \* the user of each service
    Plans,           \* infrastructure plans
    Plan,            \* the plan of each service
    RatedPlans,      \* plans with a card for every component but compute
    Workers,         \* billing workers
    HourLength,      \* ticks in an hour
    DayLength,       \* ticks in a day
    Horizon,         \* bound: the last tick
    OffSecond,       \* ticks that stand for a moment between two whole seconds
    Lag,             \* ticks a confirmation may be recorded after its moment
    Rate,            \* price of a tick of compute
    Opening,         \* wallet balance at the start
    Amounts,         \* what other products move in a wallet
    Corrections,     \* what adjustments debit or, below 0, credit
    MinimumCredit,   \* balance a cadence change asks for
    GracePeriods,    \* periods before an unpaid invoice is reviewed
    LowPeriods,      \* periods a balance must last not to be low
    CatchUpLimit,    \* periods one catch-up takes on
    MaximumAttempts, \* tries of one settlement transaction
    Starts,          \* bound: moments at which services start
    Changing,        \* bound: services whose policy or resources may change
    MaxPolicies,     \* bound: policy snapshots of a service
    MaxVersions,     \* bound: resource versions of a service
    MaxMoves,        \* bound: movements and adjustments in wallets
    MaxFaults        \* bound: crashes, timeouts and lost connections

Cadences == {"HOURLY", "DAILY"}
Length(c) == IF c = "HOURLY" THEN HourLength ELSE DayLength
Ticks == 0..Horizon
Never == Horizon + 1   \* effectiveTo: null

\* A period: its cadence and its first tick.
Periods == {p \in Cadences \X Ticks : p[2] % Length(p[1]) = 0}
End(p) == p[2] + Length(p[1])
PeriodContaining(c, t) == <<c, t - (t % Length(c))>>

\* An invoice's unique key: service, policy snapshot, period.
Keys == Services \X (1..MaxPolicies) \X Periods

RunStatuses == {"NONE", "FAILED", "PARTIAL", "COMPLETED"}
TerminalRun == {"PARTIAL", "COMPLETED"}
SettledInvoice == {"PAID", "PARTIALLY_PAID", "UNPAID"}
InvoiceStatuses == SettledInvoice \cup {"ABSENT", "UNDER_REVIEW"}

ASSUME ConstantsAssumption ==
    /\ Services \subseteq Nat /\ IsFiniteSet(Services)
    /\ Owner \in [Services -> Users] /\ Plan \in [Services -> Plans]
    /\ Starts \subseteq Ticks /\ Changing \subseteq Services /\ RatedPlans \subseteq Plans
    /\ HourLength \in Nat \ {0} /\ DayLength \in Nat \ {0} /\ DayLength % HourLength = 0
    /\ Horizon \in Nat /\ Lag \in Nat
    /\ OffSecond \subseteq {t \in Ticks : t % HourLength # 0}
    /\ Rate \in Nat \ {0} /\ Opening \in [Users -> Nat] /\ Amounts \subseteq Int
    /\ Corrections \subseteq Int \ {0}
    /\ MinimumCredit \in Nat /\ GracePeriods \in Nat /\ LowPeriods \in Nat
    /\ CatchUpLimit \in Nat \ {0} /\ MaximumAttempts \in Nat \ {0}
    /\ MaxPolicies \in Nat \ {0} /\ MaxVersions \in Nat \ {0}
    /\ MaxMoves \in Nat /\ MaxFaults \in Nat

VARIABLES
    clock,      \* now
    policy,     \* ServiceBillingPolicySnapshot rows of each service, in order
    resource,   \* its ResourceVersion rows, in order
    usage,      \* its UsageInterval rows
    run,        \* BillingRun.status of each period
    invoice,    \* BillingInvoice under each key
    adjustment, \* BillingAdjustment of an invoice under review: what it moved
    wallet,     \* Wallet.availableBalance
    received,   \* what other products have moved into the wallet
    low,        \* the snapshot whose LOW_BALANCE case the service has, 0 without
    dunning,    \* its OUTSTANDING_INVOICE and SUSPENSION_REVIEW cases
    worker,     \* each worker: its place in the billing cycle and its transaction
    late,       \* services with a confirmation recorded after its period closed
    moves,      \* counter for MaxMoves
    faults      \* counter for MaxFaults

timeline == <<policy, resource, usage, late>>
books == <<run, invoice, low>>
money == <<wallet, received, adjustment, moves>>
vars == <<clock, timeline, books, money, dunning, worker, faults>>

NoInvoice == [status |-> "ABSENT", from |-> 0, to |-> 0, total |-> 0, paid |-> 0]
NoAdjustment == [amount |-> 0, settled |-> 0]
NoCases == [outstanding |-> "NONE", graceEndsAt |-> 0, suspension |-> "NONE"]
\* A worker outside a transaction, and one that has nothing to do.
Placed(pc, c, now, todo, attempt) ==
    [pc |-> pc, cadence |-> c, now |-> now, todo |-> todo, attempt |-> attempt,
     lines |-> {}, bills |-> {}, balance |-> Opening, stale |-> FALSE]
IdleWorker == Placed("idle", "HOURLY", 0, {}, 1)

Init ==
    /\ clock = 0
    /\ policy = [s \in Services |-> << >>]
    /\ resource = [s \in Services |-> << >>]
    /\ usage = [s \in Services |-> {}]
    /\ run = [p \in Periods |-> "NONE"]
    /\ invoice = [k \in Keys |-> NoInvoice]
    /\ adjustment = [k \in Keys |-> NoAdjustment]
    /\ wallet = Opening
    /\ received = [u \in Users |-> 0]
    /\ low = [s \in Services |-> 0]
    /\ dunning = [s \in Services |-> NoCases]
    /\ worker = [w \in Workers |-> IdleWorker]
    /\ late = {}
    /\ moves = 0
    /\ faults = 0

(***************************************************************************)
(* The timeline of a service                                               *)
(***************************************************************************)

Later(a, b) == IF a < b THEN b ELSE a
Earlier(a, b) == IF a < b THEN a ELSE b

Covers(x, t) == x.from <= t /\ t < x.to
Overlaps(x, p) == x.from < End(p) /\ x.to > p[2]

Started(s) == policy[s] # << >>
Current(s) == resource[s][Len(resource[s])]

\* An hour has ended between t and now: its run may be over.
HourHasEnded(t) == End(PeriodContaining("HOURLY", t)) <= clock

\* A confirmation of moment t is recorded now.  A new card is its plan's.
Confirmable(t) == t <= clock /\ t >= clock - Lag
Delayed(s, t) ==
    late' = IF HourHasEnded(t) THEN late \cup {x \in Services : Plan[x] = Plan[s]}
            ELSE late

\* The provider confirms the server; usage is billed from then on.
StartInitialUsageBilling(s, c, t) ==
    /\ ~Started(s)
    /\ t \in Starts /\ Confirmable(t)
    /\ policy' = [policy EXCEPT ![s] = <<[cadence |-> c, from |-> t, to |-> Never]>>]
    /\ resource' = [resource EXCEPT ![s] = <<[active |-> TRUE, from |-> t, to |-> Never]>>]
    /\ usage' = [usage EXCEPT ![s] =
           {[policy |-> 1, resource |-> 1, from |-> t, to |-> Never]}]
    /\ Delayed(s, t)
    /\ UNCHANGED <<clock, books, money, dunning, worker, faults>>

\* Bug: an interval that starts later is left with the version before.
MutantSplitAt(i, r, t) ==
    IF i.resource = r - 1 /\ i.from < t /\ i.to > t THEN [i EXCEPT !.to = t] ELSE i

\* What a new resource version r from t on does to an interval of the one before.
SplitAt(i, r, t) ==
    IF i.resource # r - 1 THEN i
    ELSE IF i.from >= t THEN [i EXCEPT !.resource = r]
    ELSE IF i.to > t THEN [i EXCEPT !.to = t]
    ELSE i

\* An upgrade (active) or a termination is confirmed.
RecordProviderConfirmedResourceVersion(s, active, t) ==
    LET r == Len(resource[s]) + 1
        split == {SplitAt(i, r, t) : i \in usage[s]}
    IN  /\ Started(s) /\ s \in Changing /\ r <= MaxVersions
        /\ t \in Ticks /\ Confirmable(t) /\ t > Current(s).from
        /\ \E v \in DOMAIN policy[s] :
             LET next == [policy |-> v, resource |-> r, from |-> t, to |-> policy[s][v].to]
                 scheduled == \E i \in split :
                    i.resource = r /\ i.policy = v /\ Covers(i, t)
             IN  /\ Covers(policy[s][v], t)
                 /\ usage' = [usage EXCEPT ![s] =
                        split \cup (IF scheduled THEN {} ELSE {next})]
        /\ resource' = [resource EXCEPT ![s] =
               Append([resource[s] EXCEPT ![r - 1].to = t],
                      [active |-> active, from |-> t, to |-> Never])]
        /\ Delayed(s, t)
        /\ UNCHANGED <<clock, policy, books, money, dunning, worker, faults>>

\* Bug: the period that is already running, or over, may change its policy.
MutantScheduleServiceBillingCadenceChange(s, c, t) ==
    LET v == Len(policy[s])
    IN  /\ Started(s) /\ s \in Changing /\ v < MaxPolicies /\ Current(s).active
        /\ t > policy[s][v].from /\ PeriodContaining(policy[s][v].cadence, t)[2] = t
        /\ policy' = [policy EXCEPT ![s] =
               Append([@ EXCEPT ![v].to = t], [cadence |-> c, from |-> t, to |-> Never])]
        /\ \E open \in usage[s] :
             /\ open.to = Never /\ open.from < t
             /\ usage' = [usage EXCEPT ![s] =
                    (@ \ {open}) \cup {[open EXCEPT !.to = t],
                                       [open EXCEPT !.policy = v + 1, !.from = t]}]
        /\ UNCHANGED <<clock, resource, late, books, money, dunning, worker, faults>>

\* An administrator schedules policy c from t on, the start of a period to come.
ScheduleServiceBillingCadenceChange(s, c, t) ==
    LET v == Len(policy[s])
        current == policy[s][v]
        next == [cadence |-> c, from |-> t, to |-> Never]
    IN  /\ Started(s) /\ s \in Changing /\ v < MaxPolicies
        /\ Current(s).active
        /\ t \in Ticks
        /\ PeriodContaining(current.cadence, t) = <<current.cadence, t>>
        /\ t >= End(PeriodContaining(current.cadence, clock))
        /\ wallet[Owner[s]] >= MinimumCredit
        /\ \A x \in DOMAIN policy[s] : policy[s][x].from <= clock
        /\ policy' = [policy EXCEPT ![s] = Append([policy[s] EXCEPT ![v].to = t], next)]
        /\ \E open \in usage[s] :
             /\ open.to = Never
             /\ usage' = [usage EXCEPT ![s] =
                    (@ \ {open}) \cup {[open EXCEPT !.to = t],
                                       [open EXCEPT !.policy = v + 1, !.from = t]}]
        /\ UNCHANGED <<clock, resource, late, books, money, dunning, worker, faults>>

(***************************************************************************)
(* What a period charges for one policy snapshot                           *)
(***************************************************************************)

Window(s, v, p) == [from |-> Later(p[2], policy[s][v].from),
                    to |-> Earlier(End(p), policy[s][v].to)]

\* The parts of the window the snapshot's usage intervals account for.
BoundedIntervals(s, v, w) ==
    {u \in {[active |-> resource[s][i.resource].active,
             from |-> Later(Later(w.from, i.from), resource[s][i.resource].from),
             to |-> Earlier(Earlier(w.to, i.to), resource[s][i.resource].to)] :
              i \in {j \in usage[s] : j.policy = v}} : u.from < u.to}

\* They follow one another through the window without a gap or an overlap.
ValidCoverage(w, intervals) ==
    \A t \in w.from..(w.to - 1) : Cardinality({u \in intervals : Covers(u, t)}) = 1

\* Each service started on the plan gave it a compute card, in force for good.
Cards(plan) == {x \in Services : Plan[x] = plan /\ Started(x)}
CardStart(x) == policy[x][1].from
InForce(plan, t) == {x \in Cards(plan) : CardStart(x) <= t}

\* An interval is charged in slices between the starts of cards.
Slices(plan, u) ==
    LET cuts == {u.from, u.to} \cup {CardStart(x) : x \in Cards(plan)}
        bounds == {t \in cuts : u.from <= t /\ t <= u.to}
    IN  {z \in bounds \X bounds :
            z[1] < z[2] /\ \A t \in bounds : ~(z[1] < t /\ t < z[2])}

Unratable(plan, z) == plan \notin RatedPlans \/ Cardinality(InForce(plan, z[1])) # 1
WholeSeconds(z) == z[1] \notin OffSecond /\ z[2] \notin OffSecond

\* The first slice that cannot be charged decides: it is reviewed when a card
\* is missing or doubled, and throws when it is no number of whole seconds.
Outcome(s, intervals, w) ==
    LET plan == Plan[s]
        slices == UNION {Slices(plan, u) : u \in {x \in intervals : x.active}}
        bad == {z \in slices : Unratable(plan, z) \/ ~WholeSeconds(z)}
    IN  IF intervals = {} \/ ~ValidCoverage(w, intervals) THEN "review"
        ELSE IF bad = {} THEN "bill"
        ELSE IF \E z \in bad : Unratable(plan, z) /\ \A y \in bad : z[1] <= y[1]
             THEN "review" ELSE "throw"

UsageOf(w, intervals) ==
    Cardinality({t \in w.from..(w.to - 1) : \E u \in intervals : u.active /\ Covers(u, t)})

\* What processSnapshot works out from the rows it reads.
Line(s, v, p) ==
    LET w == Window(s, v, p)
        intervals == BoundedIntervals(s, v, w)
    IN  [service |-> s, policy |-> v, from |-> w.from, to |-> w.to,
         outcome |-> Outcome(s, intervals, w), total |-> Rate * UsageOf(w, intervals)]

LoadSnapshots(p) ==
    {x \in Services \X (1..MaxPolicies) :
        /\ x[2] \in DOMAIN policy[x[1]]
        /\ policy[x[1]][x[2]].cadence = p[1]
        /\ Overlaps(policy[x[1]][x[2]], p)}

(***************************************************************************)
(* Rows, locks and transactions                                            *)
(***************************************************************************)

Goes(w, record) == worker' = [worker EXCEPT ![w] = record]

PeriodOf(w) == <<worker[w].cadence, CHOOSE t \in worker[w].todo :
                    \A x \in worker[w].todo : t <= x>>

InTransaction(w) == worker[w].pc \in {"waiting", "working"}
HasLock(w, p) == worker[w].pc = "working" /\ PeriodOf(w) = p
HasWallet(w, u) ==
    \E b \in worker[w].bills : Owner[b.service] = u /\ b.status \in SettledInvoice
WalletIsFree(u) == \A w \in Workers : ~HasWallet(w, u)

\* Bug: only the run of the period, which every settlement of it writes, is compared;
\* a wallet or a case that others changed meanwhile is written over.
MutantOvertaken(x, p, us, ss) ==
    [worker[x] EXCEPT !.stale = @ \/ (InTransaction(x) /\ PeriodOf(x) = p)]

\* Worker x once another transaction has committed to the rows of period p, of
\* users us and of services ss: what it has yet to write is newer than its view.
Overtaken(x, p, us, ss) ==
    [worker[x] EXCEPT !.stale = @ \/
        /\ InTransaction(x)
        /\ \/ PeriodOf(x) = p
           \/ \E l \in worker[x].lines :
                l.outcome = "bill" /\ (Owner[l.service] \in us \/ l.service \in ss)]
NoPeriod == <<"NONE", 0>>

Overtakes(us, ss) == worker' = [x \in Workers |-> Overtaken(x, NoPeriod, us, ss)]

(***************************************************************************)
(* The rest of the wallet                                                  *)
(***************************************************************************)

\* Another product's transaction moves an amount in the wallet of u.
MoveMoney(u, d) ==
    /\ moves < MaxMoves /\ WalletIsFree(u)
    /\ wallet[u] + d >= 0
    /\ wallet' = [wallet EXCEPT ![u] = @ + d]
    /\ received' = [received EXCEPT ![u] = @ + d]
    /\ moves' = moves + 1
    /\ Overtakes({u}, {})
    /\ UNCHANGED <<clock, timeline, books, adjustment, dunning, faults>>

\* An administrator settles an invoice under review by hand, once.
ApplyProviderBillingAdjustment(k, d) ==
    LET u == Owner[k[1]]
        settled == IF d > 0 THEN Earlier(wallet[u], d) ELSE d
    IN  /\ moves < MaxMoves /\ WalletIsFree(u)
        /\ invoice[k].status = "UNDER_REVIEW"
        /\ adjustment[k] = NoAdjustment
        /\ wallet' = [wallet EXCEPT ![u] = @ - settled]
        /\ adjustment' = [adjustment EXCEPT ![k] = [amount |-> d, settled |-> settled]]
        /\ moves' = moves + 1
        /\ Overtakes({u}, {})
        /\ UNCHANGED <<clock, timeline, books, received, dunning, faults>>

(***************************************************************************)
(* A worker's billing cycle: hourly periods, daily periods, dunning        *)
(***************************************************************************)

At(w, pc, c, todo, attempt) == Placed(pc, c, worker[w].now, todo, attempt)

CadenceDone(w) ==
    IF worker[w].cadence = "HOURLY" THEN At(w, "listing", "DAILY", {}, 1)
    ELSE At(w, "dunning", "DAILY", {}, 1)

PeriodDone(w) ==
    LET rest == worker[w].todo \ {PeriodOf(w)[2]}
    IN  IF rest = {} THEN CadenceDone(w) ELSE At(w, "settling", worker[w].cadence, rest, 1)

StartCycle(w) ==
    /\ worker[w].pc = "idle"
    /\ Goes(w, Placed("listing", "HOURLY", clock, {}, 1))
    /\ UNCHANGED <<clock, timeline, books, money, dunning, faults>>

\* Bug: a period counts as closed once it has started.
MutantOutstanding(c, now) ==
    {p[2] : p \in {x \in Periods : /\ x[1] = c /\ x[2] < now
                                   /\ LoadSnapshots(x) # {} /\ run[x] \notin TerminalRun}}

\* The closed periods with a usage window and no terminal run, oldest first.
Outstanding(c, now) ==
    {p[2] : p \in {x \in Periods : /\ x[1] = c /\ End(x) <= now
                                   /\ LoadSnapshots(x) # {} /\ run[x] \notin TerminalRun}}

\* Bug: the list ends where the latest closed period starts, not where it ends.
MutantListClosedBillingPeriodsForCatchUp(w) ==
    LET c == worker[w].cadence
        all == {t \in Outstanding(c, worker[w].now) : End(<<c, t>>) + Length(c) <= worker[w].now}
        first == {t \in all : Cardinality({x \in all : x < t}) < CatchUpLimit}
    IN  /\ worker[w].pc = "listing"
        /\ Goes(w, IF all = {} THEN CadenceDone(w) ELSE At(w, "settling", c, first, 1))
        /\ UNCHANGED <<clock, timeline, books, money, dunning, faults>>

ListClosedBillingPeriodsForCatchUp(w) ==
    LET c == worker[w].cadence
        all == Outstanding(c, worker[w].now)
        first == {t \in all : Cardinality({x \in all : x < t}) < CatchUpLimit}
    IN  /\ worker[w].pc = "listing"
        /\ Goes(w, IF all = {} THEN CadenceDone(w) ELSE At(w, "settling", c, first, 1))
        /\ UNCHANGED <<clock, timeline, books, money, dunning, faults>>

\* The transaction's snapshot is taken: everything it is to read, it sees now.
BeginSettlement(w) ==
    LET p == PeriodOf(w)
    IN  /\ worker[w].pc = "settling"
        /\ Goes(w, IF run[p] \in TerminalRun THEN PeriodDone(w)
                   ELSE [worker[w] EXCEPT
                            !.pc = "waiting", !.balance = wallet,
                            !.lines = {Line(x[1], x[2], p) : x \in LoadSnapshots(p)}])
        /\ UNCHANGED <<clock, timeline, books, money, dunning, faults>>

AcquireRunLock(w) ==
    /\ worker[w].pc = "waiting"
    /\ \A x \in Workers \ {w} : ~HasLock(x, PeriodOf(w))
    /\ Goes(w, [worker[w] EXCEPT !.pc = "working"])
    /\ UNCHANGED <<clock, timeline, books, money, dunning, faults>>

\* The row lock a transaction asks for is another's.
WaitsForWallet(w, u) == \E x \in Workers \ {w} : HasWallet(x, u)

NextLine(w, l) ==
    /\ worker[w].pc = "working" /\ ~worker[w].stale
    /\ l \in worker[w].lines
    /\ \A x \in worker[w].lines :
          l.service < x.service \/ (l.service = x.service /\ l.policy <= x.policy)

Billed(w, l, bill) ==
    /\ Goes(w, [worker[w] EXCEPT !.lines = @ \ {l}, !.bills = @ \cup {bill},
                                 !.balance[Owner[l.service]] = @ - bill.paid])
    /\ UNCHANGED <<clock, timeline, books, money, dunning, faults>>

Rejected(w) ==
    /\ Goes(w, At(w, "failed", worker[w].cadence, worker[w].todo, 1))
    /\ UNCHANGED <<clock, timeline, books, money, dunning, faults>>

MarkInvoiceForReview(w, l) ==
    /\ NextLine(w, l) /\ l.outcome = "review"
    /\ Billed(w, l, [service |-> l.service, policy |-> l.policy, from |-> l.from, to |-> l.to,
                     total |-> 0, paid |-> 0, status |-> "UNDER_REVIEW", low |-> FALSE])

\* Bug: the whole amount is debited, whatever the balance.
MutantPayable(w, l) == l.total

Payable(w, l) == Earlier(worker[w].balance[Owner[l.service]], l.total)
InvoiceStatus(total, paid) ==
    IF paid = total THEN "PAID" ELSE IF paid > 0 THEN "PARTIALLY_PAID" ELSE "UNPAID"
IsLow(w, l) ==
    l.total > 0 /\ worker[w].balance[Owner[l.service]] - Payable(w, l) < l.total * LowPeriods

\* One LOW_BALANCE case that is not RESOLVED per instance; its key is the snapshot's.
LowCaseAllowed(l) == low[l.service] \in {0, l.policy}

ChargeUsage(w, l) ==
    /\ NextLine(w, l) /\ l.outcome = "bill"
    /\ ~WaitsForWallet(w, Owner[l.service])
    /\ IsLow(w, l) => LowCaseAllowed(l)
    /\ Billed(w, l, [service |-> l.service, policy |-> l.policy, from |-> l.from, to |-> l.to,
                     total |-> l.total, paid |-> Payable(w, l),
                     status |-> InvoiceStatus(l.total, Payable(w, l)), low |-> IsLow(w, l)])

\* calculateBillingLineAmount throws, or the low-balance case violates its index.
RejectUsage(w, l) ==
    /\ NextLine(w, l)
    /\ \/ l.outcome = "throw"
       \/ /\ l.outcome = "bill" /\ ~WaitsForWallet(w, Owner[l.service])
          /\ IsLow(w, l) /\ ~LowCaseAllowed(l)
    /\ Rejected(w)

InvoiceOf(b) == [status |-> b.status, from |-> b.from, to |-> b.to,
                 total |-> b.total, paid |-> b.paid]
KeyOf(b, p) == <<b.service, b.policy, p>>

\* Bug: the case is due at once.
MutantOutstandingCase(s, p) ==
    [dunning[s] EXCEPT !.outstanding = "NOTIFIED", !.graceEndsAt = End(p)]

\* The service's outstanding-invoice case keeps the end of its first grace.
OutstandingCase(s, p) ==
    [dunning[s] EXCEPT
        !.outstanding = "NOTIFIED",
        !.graceEndsAt = IF dunning[s].outstanding = "NONE"
                        THEN End(p) + GracePeriods * Length(p[1]) ELSE @]

CommitSettlement(w) ==
    LET p == PeriodOf(w)
        bills == worker[w].bills
        users == {u \in Users : HasWallet(w, u)}
        services == {b.service : b \in bills}
    IN  /\ worker[w].pc = "working" /\ ~worker[w].stale /\ worker[w].lines = {}
        /\ run' = [run EXCEPT ![p] =
               IF \E b \in bills : b.status = "UNDER_REVIEW" THEN "PARTIAL" ELSE "COMPLETED"]
        /\ invoice' = [k \in Keys |->
               IF \E b \in bills : KeyOf(b, p) = k
               THEN InvoiceOf(CHOOSE b \in bills : KeyOf(b, p) = k) ELSE invoice[k]]
        /\ wallet' = [u \in Users |-> IF u \in users THEN worker[w].balance[u] ELSE wallet[u]]
        /\ low' = [s \in Services |->
               IF \E b \in bills : b.service = s /\ b.low
               THEN (CHOOSE b \in bills : b.service = s /\ b.low).policy ELSE low[s]]
        /\ dunning' = [s \in Services |->
               IF \E b \in bills : b.service = s /\ b.paid < b.total
               THEN OutstandingCase(s, p) ELSE dunning[s]]
        /\ worker' = [x \in Workers |->
               IF x = w THEN PeriodDone(w) ELSE Overtaken(x, p, users, services)]
        /\ UNCHANGED <<clock, timeline, received, adjustment, moves, faults>>

\* What a failed transaction leads to: another attempt after P2034, else the end.
RetryOrGiveUp(w) ==
    \/ /\ worker[w].attempt < MaximumAttempts
       /\ Goes(w, At(w, "settling", worker[w].cadence, worker[w].todo, worker[w].attempt + 1))
    \/ Goes(w, At(w, "failed", worker[w].cadence, worker[w].todo, 1))

\* PostgreSQL refuses to write a row that is newer than the transaction's view.
SerializationFailure(w) ==
    /\ worker[w].pc = "working" /\ worker[w].stale
    /\ RetryOrGiveUp(w)
    /\ UNCHANGED <<clock, timeline, books, money, dunning, faults>>

\* A timeout, a deadlock or a lost connection ends the transaction.
TransactionLost(w) ==
    /\ faults < MaxFaults /\ InTransaction(w)
    /\ RetryOrGiveUp(w)
    /\ faults' = faults + 1
    /\ UNCHANGED <<clock, timeline, books, money, dunning>>

\* Bug: the catch-up goes on with the next period after a failure.
MutantRecordBillingRunFailure(w) ==
    LET p == PeriodOf(w)
    IN  /\ worker[w].pc \in {"failed", "caught"}
        /\ run' = [run EXCEPT ![p] = IF @ \in TerminalRun THEN @ ELSE "FAILED"]
        /\ worker' = [x \in Workers |->
               IF x = w THEN PeriodDone(w) ELSE Overtaken(x, p, {}, {})]
        /\ UNCHANGED <<clock, timeline, invoice, low, money, dunning, faults>>

\* The period's failure is recorded where it is caught, and again by the catch-up,
\* which then ends the cycle: later periods and cadences wait for the next one.
RecordBillingRunFailure(w) ==
    LET p == PeriodOf(w)
    IN  /\ worker[w].pc \in {"failed", "caught"}
        /\ \A x \in Workers \ {w} : ~HasLock(x, p)
        /\ run' = [run EXCEPT ![p] = IF @ \in TerminalRun THEN @ ELSE "FAILED"]
        /\ worker' = [x \in Workers |->
               IF x = w
               THEN IF worker[w].pc = "caught" THEN IdleWorker ELSE [worker[w] EXCEPT !.pc = "caught"]
               ELSE IF run[p] \in TerminalRun THEN worker[x] ELSE Overtaken(x, p, {}, {})]
        /\ UNCHANGED <<clock, timeline, invoice, low, money, dunning, faults>>

Crash(w) ==
    /\ faults < MaxFaults /\ worker[w].pc # "idle"
    /\ Goes(w, IdleWorker)
    /\ faults' = faults + 1
    /\ UNCHANGED <<clock, timeline, books, money, dunning>>

(***************************************************************************)
(* Dunning                                                                 *)
(***************************************************************************)

Expired(now) ==
    {s \in Services : dunning[s].outstanding = "NOTIFIED" /\ dunning[s].graceEndsAt <= now}

EnqueueExpiredDunning(w) ==
    LET expired == Expired(worker[w].now)
    IN  /\ worker[w].pc = "dunning"
        /\ \A x \in Workers : \A b \in worker[x].bills : b.service \notin expired
        /\ dunning' = [s \in Services |->
               IF s \in expired
               THEN [dunning[s] EXCEPT !.outstanding = "ADMIN_REVIEW", !.suspension = "ADMIN_REVIEW"]
               ELSE dunning[s]]
        /\ worker' = [x \in Workers |->
               IF x = w THEN IdleWorker ELSE Overtaken(x, NoPeriod, {}, expired)]
        /\ UNCHANGED <<clock, timeline, books, money, faults>>

\* The administrator's decision; the server itself is changed by hand.
ApproveControlledSuspension(s) ==
    /\ dunning[s].suspension = "ADMIN_REVIEW"
    /\ Current(s).active
    /\ dunning' = [dunning EXCEPT ![s].suspension = "RESOLVED"]
    /\ UNCHANGED <<clock, timeline, books, money, worker, faults>>

Tick ==
    /\ clock < Horizon
    /\ clock' = clock + 1
    /\ UNCHANGED <<timeline, books, money, dunning, worker, faults>>

(***************************************************************************)
(* The specification                                                       *)
(***************************************************************************)

\* What the code does next once worker w runs; a crash is no such step.
Settles(w) ==
    \/ BeginSettlement(w) \/ AcquireRunLock(w)
    \/ \E l \in worker[w].lines : MarkInvoiceForReview(w, l) \/ ChargeUsage(w, l) \/ RejectUsage(w, l)
    \/ CommitSettlement(w) \/ SerializationFailure(w) \/ RecordBillingRunFailure(w)
Works(w) ==
    \/ StartCycle(w) \/ ListClosedBillingPeriodsForCatchUp(w)
    \/ Settles(w) \/ EnqueueExpiredDunning(w)

TimelineNext(s) ==
    \/ \E t \in Ticks :
        \/ \E c \in Cadences : StartInitialUsageBilling(s, c, t)
                               \/ ScheduleServiceBillingCadenceChange(s, c, t)
        \/ \E active \in BOOLEAN : RecordProviderConfirmedResourceVersion(s, active, t)
    \/ ApproveControlledSuspension(s)

MoneyNext ==
    \/ \E u \in Users, d \in Amounts : MoveMoney(u, d)
    \/ \E k \in Keys, d \in Corrections : ApplyProviderBillingAdjustment(k, d)

Next ==
    \/ Tick
    \/ MoneyNext
    \/ \E s \in Services : TimelineNext(s)
    \/ \E w \in Workers : Works(w) \/ TransactionLost(w) \/ Crash(w)

Spec == Init /\ [][Next]_vars

\* The worker process runs its cycle for ever; nothing forces customers,
\* administrators or the clock.
FairSpec == Spec /\ \A w \in Workers : WF_vars(Works(w))

(***************************************************************************)
(* Properties                                                              *)
(***************************************************************************)

PolicyRow == [cadence : Cadences, from : Ticks, to : 0..Never]
VersionRow == [active : BOOLEAN, from : Ticks, to : 0..Never]
UsageRow == [policy : 1..MaxPolicies, resource : 1..MaxVersions, from : Ticks, to : 0..Never]
LineRow == [service : Services, policy : 1..MaxPolicies, from : Ticks, to : 0..Never,
            outcome : {"review", "bill", "throw"}, total : Nat]
InvoiceRow == [status : InvoiceStatuses, from : Ticks, to : 0..Never, total : Nat, paid : Nat]
BillRow == [service : Services, policy : 1..MaxPolicies, from : Ticks, to : 0..Never, total : Nat,
            paid : Nat, status : SettledInvoice \cup {"UNDER_REVIEW"}, low : BOOLEAN]
Places == {"idle", "listing", "settling", "waiting", "working", "failed", "caught", "dunning"}
WorkerRow == [pc : Places, cadence : Cadences, now : Ticks, todo : SUBSET Ticks,
              attempt : 1..MaximumAttempts, lines : SUBSET LineRow, bills : SUBSET BillRow,
              balance : [Users -> Nat], stale : BOOLEAN]
CaseRow == [outstanding : {"NONE", "NOTIFIED", "ADMIN_REVIEW"}, graceEndsAt : Nat,
            suspension : {"NONE", "ADMIN_REVIEW", "RESOLVED"}]

\* Every row has its schema's types; in particular no debit takes a wallet, or a
\* transaction's view of it, below zero (Wallet.availableBalance CHECK >= 0).
TypeOK ==
    /\ clock \in Ticks
    /\ policy \in [Services -> Seq(PolicyRow)]
    /\ resource \in [Services -> Seq(VersionRow)]
    /\ \A s \in Services : Len(policy[s]) <= MaxPolicies /\ Len(resource[s]) <= MaxVersions
    /\ usage \in [Services -> SUBSET UsageRow]
    /\ run \in [Periods -> RunStatuses]
    /\ invoice \in [Keys -> InvoiceRow]
    /\ adjustment \in [Keys -> [amount : Int, settled : Int]]
    /\ wallet \in [Users -> Nat]
    /\ received \in [Users -> Int]
    /\ low \in [Services -> 0..MaxPolicies]
    /\ dunning \in [Services -> CaseRow]
    /\ worker \in [Workers -> WorkerRow]
    /\ late \subseteq Services
    /\ moves \in 0..MaxMoves /\ faults \in 0..MaxFaults

Matching(rows, t) == {x \in DOMAIN rows : Covers(rows[x], t)}

\* From a service's start on, each moment has exactly one policy snapshot, one
\* resource version and one usage interval, and the interval names the other two:
\* a version confirmed while a policy change is already scheduled splits the usage
\* on both sides of it (resource-timeline.ts:137-218, policy-admin.ts:478-528).
TimelineIsWhole ==
    \A s \in Services : Started(s) => \A t \in policy[s][1].from..Horizon :
        \E v \in DOMAIN policy[s], r \in DOMAIN resource[s] :
            /\ Matching(policy[s], t) = {v}
            /\ Matching(resource[s], t) = {r}
            /\ \E i \in usage[s] :
                /\ {x \in usage[s] : Covers(x, t)} = {i}
                /\ i.policy = v /\ i.resource = r

\* A settled period has charged each of its services exactly what the service's
\* timeline, as it stands now, says of that period: no crash, retry, second worker,
\* later policy or version leaves a service out, charges other hours or rewrites
\* the past.  Confirmations recorded after their period closed are the exception.
SettledAsUsed ==
    \A p \in Periods : run[p] \in TerminalRun =>
        \A x \in LoadSnapshots(p) : x[1] \notin late =>
            LET l == Line(x[1], x[2], p)
                i == invoice[<<x[1], x[2], p>>]
            IN  /\ i.status \in (IF l.outcome = "review" THEN {"UNDER_REVIEW"} ELSE SettledInvoice)
                /\ i.from = l.from /\ i.to = l.to
                /\ l.outcome = "bill" => i.total = l.total
                /\ l.outcome # "throw"

\* Periods of a cadence are settled in order: a worker that failed, crashed or lost
\* a race leaves nothing unsettled behind a period that is (worker.ts:1107-1137).
SettledInOrder ==
    \A p, q \in Periods :
        /\ run[p] \in TerminalRun /\ q[1] = p[1] /\ q[2] < p[2]
        /\ \E x \in LoadSnapshots(q) : x[1] \notin late
        => run[q] \in TerminalRun

\* A suspension is put to an administrator only for a service with an invoice that
\* was not paid in full and whose grace is over, whatever order periods were
\* settled in (dunning.ts:17-66).
SuspensionAfterGrace ==
    \A s \in Services : dunning[s].suspension # "NONE" =>
        \E k \in Keys :
            /\ k[1] = s /\ invoice[k].status \in {"PARTIALLY_PAID", "UNPAID"}
            /\ End(k[3]) + GracePeriods * Length(k[3][1]) <= clock

\* What the invoices of user u have been paid and their adjustments have moved.
InvoicesOf(u) == {k \in Keys : Owner[k[1]] = u}
SettledMoney(u) ==
    SumFunctionOnSet([k \in Keys |-> invoice[k].paid + adjustment[k].settled], InvoicesOf(u))

\* A wallet holds its opening balance and what other products moved, less what
\* invoices have been paid and adjustments have moved: no race between a period,
\* another cadence's period, an adjustment or a purchase loses or repeats a debit.
Books ==
    /\ \A u \in Users : wallet[u] = Opening[u] + received[u] - SettledMoney(u)
    /\ \A k \in Keys : invoice[k].paid <= invoice[k].total

\* BillingContract: an hour of a service is charged by at most one invoice, written
\* when a closed period settles and never changed.
Contract == INSTANCE BillingContract WITH
    charged <- [h \in Services \X Ticks |->
                   {k \in Keys : /\ k[1] = h[1] /\ invoice[k].status \in SettledInvoice
                                 /\ Covers(invoice[k], h[2])}],
    settled <- {p \in Periods : run[p] \in TerminalRun}
ImplementsContract == Contract!Spec

\* getBillingCatchUpStatus reports BACKLOG while a period is outstanding.
Backlog == {p \in Periods : p[2] \in Outstanding(p[1], clock)}

\* What makes a period's transaction fail at every attempt: a slice that is no
\* number of whole seconds, or a low-balance case of another snapshot.
Unsettleable(p) ==
    \E x \in LoadSnapshots(p) :
        \/ Line(x[1], x[2], p).outcome = "throw"
        \/ low[x[1]] \notin {0, x[2]}

\* The backlog is worked off in spite of crashes, lost transactions and races,
\* unless one of its periods cannot be settled: that one holds up all the others.
BacklogIsWorkedOff == []<>(Backlog = {} \/ \E p \in Backlog : Unsettleable(p))
=============================================================================
