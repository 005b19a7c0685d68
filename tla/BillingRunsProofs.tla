--------------------------- MODULE BillingRunsProofs ---------------------------
(***************************************************************************)
(* Types of usage billing, and that it implements BillingContract, for any *)
(* number of services, policies, workers and faults and any lengths of     *)
(* hour and day.                                                           *)
(*                                                                         *)
(* That an hour is charged once rests on time: the policy snapshots of a   *)
(* service follow one another, a change only ever cuts a snapshot after    *)
(* the period that is running, and whatever a transaction has read or an   *)
(* invoice says is about a period that is over.  So what was read inside a *)
(* snapshot's window stays inside it, two invoices that charge one hour    *)
(* are of one snapshot and of one period, and a period settles once: a     *)
(* transaction that is not stale has seen its run as it is.                *)
(***************************************************************************)
EXTENDS BillingRuns, TLAPS, FiniteSetTheorems, SequenceTheorems, WellFoundedInduction

\* The policy snapshots of a service follow one another.
Windows ==
    \A s \in Services :
        /\ \A i, j \in DOMAIN policy[s] : i < j => policy[s][i].to <= policy[s][j].from
        /\ Started(s) => resource[s] # << >>

\* A worker has periods to settle, all of them over, and rows in a transaction only.
WorkShape ==
    \A w \in Workers :
        /\ worker[w].now <= clock
        /\ ~InTransaction(w) => worker[w].lines = {} /\ worker[w].bills = {}
        /\ worker[w].pc \notin {"idle", "listing", "dunning"} =>
             /\ worker[w].todo # {}
             /\ \A t \in worker[w].todo :
                   /\ t % Length(worker[w].cadence) = 0
                   /\ t + Length(worker[w].cadence) <= worker[w].now

\* from..to lies in period p and in the window of snapshot v, which is of p's cadence.
Inside(s, v, from, to, p) ==
    /\ v \in DOMAIN policy[s] /\ policy[s][v].cadence = p[1]
    /\ p[2] <= from /\ policy[s][v].from <= from
    /\ to <= End(p) /\ to <= policy[s][v].to

Drafts ==
    \A w \in Workers : \A x \in worker[w].lines \cup worker[w].bills :
        Inside(x.service, x.policy, x.from, x.to, PeriodOf(w))

\* The run of a transaction that is not stale is still open.
Fresh ==
    \A w \in Workers :
        InTransaction(w) /\ ~worker[w].stale => run[PeriodOf(w)] \notin TerminalRun

Invoiced ==
    \A k \in Keys : invoice[k].status # "ABSENT" =>
        /\ run[k[3]] \in TerminalRun /\ End(k[3]) <= clock
        /\ Inside(k[1], k[2], invoice[k].from, invoice[k].to, k[3])

IInv == TypeOK /\ Windows /\ WorkShape /\ Drafts /\ Fresh /\ Invoiced

(***************************************************************************)
(* Numbers and periods                                                     *)
(***************************************************************************)

\* A set of natural numbers has a least element.
LEMMA LeastExists ==
    ASSUME NEW S \in SUBSET Nat, S # {}
    PROVE  \E t \in S : \A x \in S : t <= x
<1> DEFINE R == OpToRel(<, Nat)
<1>1. IsWellFoundedOn(R, Nat)
  BY NatLessThanWellFounded
<1>2. PICK t \in S : \A x \in S : ~(<<x, t>> \in R)
  <2> HIDE DEF R
  <2> QED BY <1>1, WFMin
<1>3. \A x \in S : ~(x < t)
  BY <1>2 DEF OpToRel
<1> QED BY <1>3

\* Multiples of n are n or more apart.
LEMMA NextMultiple ==
    ASSUME NEW n \in Nat \ {0}, NEW x \in Nat, NEW y \in Nat, x < y
    PROVE  n * x + n <= n * y
<1>1. PICK d \in Nat : y = x + 1 + d
  BY y - x - 1 \in Nat
<1>2. n * y = n * x + n + n * d
  BY <1>1
<1>3. n * d >= 0
  OBVIOUS
<1> QED BY <1>2, <1>3

LEMMA MultipleHasNoRemainder ==
    ASSUME NEW n \in Nat \ {0}, NEW x \in Nat
    PROVE  (n * x) % n = 0
<1> DEFINE u == n * x
           y == u \div n
           r == u % n
<1>1. u \in Nat
  OBVIOUS
<1>2. u = n * y + r /\ y \in Nat /\ r \in 0..(n - 1)
  BY <1>1
<1> HIDE DEF y, r
<1>3. u = n * x
  OBVIOUS
<1> HIDE DEF u
<1>4. ~(x < y)
  BY <1>2, <1>3, NextMultiple
<1>5. ~(y < x)
  BY <1>2, <1>3, NextMultiple
<1>6. x = y
  BY <1>2, <1>4, <1>5
<1>7. r = 0
  BY <1>1, <1>2, <1>3, <1>6
<1> QED BY <1>7 DEF r, u

\* What rounding down to a multiple of n does.
LEMMA Remainder ==
    ASSUME NEW t \in Nat, NEW n \in Nat \ {0}
    PROVE  /\ t % n \in 0..(n - 1)
           /\ t - (t % n) \in Nat
           /\ (t - (t % n)) % n = 0
<1>1. t % n \in 0..(n - 1)
  OBVIOUS
<1>2. t = n * (t \div n) + (t % n) /\ t \div n \in Nat
  OBVIOUS
<1>3. t - (t % n) = n * (t \div n)
  BY <1>1, <1>2
<1>4. (n * (t \div n)) % n = 0
  BY <1>2, MultipleHasNoRemainder
<1>5. n * (t \div n) \in Nat
  BY <1>2
<1> QED BY <1>1, <1>3, <1>4, <1>5

\* A moment lies in one interval of length n that starts at a multiple of n.
LEMMA SameMultiple ==
    ASSUME NEW a \in Nat, NEW b \in Nat, NEW n \in Nat \ {0}, NEW t \in Nat,
           a % n = 0, b % n = 0, a <= t, t < a + n, b <= t, t < b + n
    PROVE  a = b
<1> DEFINE q == a \div n
           r == b \div n
<1>1. a = n * q /\ q \in Nat
  OBVIOUS
<1>2. b = n * r /\ r \in Nat
  OBVIOUS
<1> HIDE DEF q, r
<1>3. CASE q < r
  <2>1. a + n <= b
    BY <1>1, <1>2, <1>3, NextMultiple
  <2> QED BY <2>1
<1>4. CASE r < q
  <2>1. b + n <= a
    BY <1>1, <1>2, <1>4, NextMultiple
  <2> QED BY <2>1
<1>5. CASE q = r
  BY <1>1, <1>2, <1>5
<1> QED BY <1>1, <1>2, <1>3, <1>4, <1>5

LEMMA LengthType ==
    ASSUME NEW c \in Cadences
    PROVE  Length(c) \in Nat \ {0}
BY ConstantsAssumption DEF Cadences, Length

LEMMA PeriodType ==
    ASSUME NEW p \in Periods
    PROVE  /\ p[1] \in Cadences /\ p[2] \in Ticks /\ p = <<p[1], p[2]>>
           /\ p[2] % Length(p[1]) = 0
           /\ End(p) \in Nat /\ p[2] < End(p)
<1>1. p \in Cadences \X Ticks /\ p[2] % Length(p[1]) = 0
  BY DEF Periods
<1>2. p[1] \in Cadences /\ p[2] \in Ticks /\ p = <<p[1], p[2]>>
  BY <1>1
<1>3. Length(p[1]) \in Nat \ {0} /\ p[2] \in Nat
  BY <1>2, LengthType, ConstantsAssumption DEF Ticks
<1> QED BY <1>1, <1>2, <1>3 DEF End

\* Two periods of one cadence that share a moment are one.
LEMMA SamePeriod ==
    ASSUME NEW p \in Periods, NEW q \in Periods, p[1] = q[1], NEW t \in Nat,
           p[2] <= t, t < End(p), q[2] <= t, t < End(q)
    PROVE  p = q
<1>1. Length(p[1]) \in Nat \ {0} /\ p[2] \in Nat /\ q[2] \in Nat
  BY PeriodType, LengthType, ConstantsAssumption DEF Ticks
<1>2. p[2] = q[2]
  BY <1>1, PeriodType, SameMultiple DEF End
<1> QED BY <1>2, PeriodType

\* Rounding down a moment gives a period that holds it.
LEMMA ContainingPeriod ==
    ASSUME NEW c \in Cadences, NEW t \in Nat
    PROVE  End(PeriodContaining(c, t)) > t
<1>1. Length(c) \in Nat \ {0}
  BY LengthType
<1>2. t % Length(c) \in 0..(Length(c) - 1)
  BY <1>1, Remainder
<1> QED BY <1>1, <1>2 DEF End, PeriodContaining

(***************************************************************************)
(* What a period charges                                                   *)
(***************************************************************************)

\* What processSnapshot works out for a snapshot of the period lies in both.
LEMMA LineFacts ==
    ASSUME TypeOK, NEW p \in Periods, NEW x \in LoadSnapshots(p)
    PROVE  /\ x[1] \in Services /\ x[2] \in 1..MaxPolicies
           /\ Line(x[1], x[2], p) \in LineRow
           /\ Line(x[1], x[2], p).service = x[1]
           /\ Line(x[1], x[2], p).policy = x[2]
           /\ Inside(x[1], x[2], Line(x[1], x[2], p).from, Line(x[1], x[2], p).to, p)
<1> DEFINE s == x[1]
           v == x[2]
           l == Line(s, v, p)
           w == Window(s, v, p)
<1>1. /\ s \in Services /\ v \in 1..MaxPolicies /\ v \in DOMAIN policy[s]
      /\ policy[s][v].cadence = p[1] /\ Overlaps(policy[s][v], p)
  BY DEF LoadSnapshots
<1>2. policy[s][v] \in PolicyRow
  BY <1>1, ElementOfSeq DEF TypeOK
<1>3. policy[s][v].from \in Ticks /\ policy[s][v].to \in 0..Never
  BY <1>2 DEF PolicyRow
<1>4. /\ Ticks \subseteq Nat /\ 0..Never \subseteq Nat /\ Never \in Nat /\ Horizon \in Nat
      /\ p[2] \in Ticks /\ End(p) \in Nat
  BY PeriodType, ConstantsAssumption DEF Ticks, Never
<1>5. w.from = Later(p[2], policy[s][v].from) /\ w.to = Earlier(End(p), policy[s][v].to)
  BY DEF Window
<1>6. /\ w.from \in Ticks /\ w.to \in 0..Never
      /\ p[2] <= w.from /\ policy[s][v].from <= w.from
      /\ w.to <= End(p) /\ w.to <= policy[s][v].to
  BY <1>3, <1>4, <1>5 DEF Later, Earlier, Ticks, Never
<1>7. UsageOf(w, BoundedIntervals(s, v, w)) \in Nat
  <2>1. w.from \in Int /\ w.to \in Int
    <3> HIDE DEF w
    <3> QED BY <1>6, ConstantsAssumption DEF Ticks, Never
  <2> HIDE DEF w
  <2>2. IsFiniteSet(w.from..(w.to - 1))
    BY <2>1, FS_Interval
  <2>3. \A P \in SUBSET (w.from..(w.to - 1)) : Cardinality(P) \in Nat
    BY <2>2, FS_Subset, FS_CardinalityType
  <2> QED BY <2>3 DEF UsageOf
<1>8. Rate * UsageOf(w, BoundedIntervals(s, v, w)) \in Nat
  BY <1>7, ConstantsAssumption
<1>9. Outcome(s, BoundedIntervals(s, v, w), w) \in {"review", "bill", "throw"}
  BY DEF Outcome
<1>10. l = [service |-> s, policy |-> v, from |-> w.from, to |-> w.to,
            outcome |-> Outcome(s, BoundedIntervals(s, v, w), w),
            total |-> Rate * UsageOf(w, BoundedIntervals(s, v, w))]
  BY DEF Line
<1> HIDE DEF l, w, s, v
<1>11. l \in LineRow
  BY <1>1, <1>6, <1>8, <1>9, <1>10 DEF LineRow
<1>12. l.service = s /\ l.policy = v /\ l.from = w.from /\ l.to = w.to
  BY <1>10
<1>13. Inside(s, v, l.from, l.to, p)
  BY <1>1, <1>6, <1>12 DEF Inside
<1> QED BY <1>1, <1>11, <1>12, <1>13 DEF l, s, v

\* The period a worker is at is a closed one.
LEMMA PeriodOfType ==
    ASSUME TypeOK, WorkShape, NEW w \in Workers,
           worker[w].pc \notin {"idle", "listing", "dunning"}
    PROVE  /\ PeriodOf(w) \in Periods
           /\ PeriodOf(w)[1] = worker[w].cadence
           /\ PeriodOf(w)[2] \in worker[w].todo
           /\ End(PeriodOf(w)) <= worker[w].now /\ End(PeriodOf(w)) <= clock
<1> DEFINE t == CHOOSE y \in worker[w].todo : \A x \in worker[w].todo : y <= x
<1>1. worker[w] \in WorkerRow
  BY DEF TypeOK
<1>2. /\ worker[w].todo \in SUBSET Nat /\ worker[w].todo \subseteq Ticks /\ worker[w].todo # {}
      /\ worker[w].cadence \in Cadences /\ worker[w].now \in Nat
  BY <1>1, ConstantsAssumption DEF WorkerRow, WorkShape, Ticks
<1>3. t \in worker[w].todo
  <2>1. \E y \in worker[w].todo : \A x \in worker[w].todo : y <= x
    BY <1>2, LeastExists
  <2> QED BY <2>1
<1>4. PeriodOf(w) = <<worker[w].cadence, t>>
  BY DEF PeriodOf
<1> HIDE DEF t
<1>5. /\ t \in Ticks /\ t % Length(worker[w].cadence) = 0
      /\ t + Length(worker[w].cadence) <= worker[w].now
      /\ worker[w].now <= clock
  BY <1>2, <1>3 DEF WorkShape
<1>6. PeriodOf(w) \in Periods
  BY <1>2, <1>4, <1>5 DEF Periods
<1>7. PeriodOf(w)[1] = worker[w].cadence /\ PeriodOf(w)[2] = t
  BY <1>4
<1>8. End(PeriodOf(w)) = t + Length(worker[w].cadence)
  BY <1>7 DEF End
<1>9. clock \in Nat /\ End(PeriodOf(w)) \in Nat
  BY <1>6, PeriodType, ConstantsAssumption DEF TypeOK, Ticks
<1> QED BY <1>2, <1>3, <1>5, <1>6, <1>7, <1>8, <1>9

(***************************************************************************)
(* Workers: the types of their records                                     *)
(***************************************************************************)

LEMMA AtFacts ==
    ASSUME TypeOK, NEW w \in Workers, NEW pc, NEW c, NEW todo, NEW attempt,
           pc \in Places, c \in Cadences, todo \subseteq Ticks,
           attempt \in 1..MaximumAttempts
    PROVE  LET r == At(w, pc, c, todo, attempt)
           IN  /\ r \in WorkerRow
               /\ r.pc = pc /\ r.cadence = c /\ r.now = worker[w].now /\ r.todo = todo
               /\ r.lines = {} /\ r.bills = {}
<1>1. worker[w].now \in Ticks
  BY DEF TypeOK, WorkerRow
<1>2. Opening \in [Users -> Nat]
  BY ConstantsAssumption
<1> QED BY <1>1, <1>2 DEF At, Placed, WorkerRow

LEMMA IdleFacts ==
    /\ IdleWorker \in WorkerRow
    /\ IdleWorker.pc = "idle" /\ IdleWorker.now = 0
    /\ IdleWorker.lines = {} /\ IdleWorker.bills = {}
BY ConstantsAssumption DEF IdleWorker, Placed, WorkerRow, Places, Cadences, Ticks

\* The worker has its cadence, its time and its periods as before; what it has read
\* or drafted is about the same snapshots and spans; and once stale it stays stale.
KeepsOn(x) ==
    /\ worker'[x].pc = worker[x].pc \/ (InTransaction(x) /\ InTransaction(x)')
    /\ worker'[x].cadence = worker[x].cadence
    /\ worker'[x].now = worker[x].now
    /\ worker'[x].todo = worker[x].todo
    /\ \A y \in worker'[x].lines \cup worker'[x].bills :
         \E z \in worker[x].lines \cup worker[x].bills :
            y.service = z.service /\ y.policy = z.policy /\ y.from = z.from /\ y.to = z.to
    /\ worker[x].stale => worker'[x].stale

\* The worker is outside a transaction, with closed periods to do if it needs any.
Outside(r) ==
    /\ r.pc \notin {"waiting", "working"}
    /\ r.now <= clock
    /\ r.lines = {} /\ r.bills = {}
    /\ r.pc \notin {"idle", "listing", "dunning"} =>
         /\ r.todo # {}
         /\ \A t \in r.todo : t % Length(r.cadence) = 0 /\ t + Length(r.cadence) <= r.now

\* The worker takes a snapshot and sees its period's run still open.
Begins(x) ==
    /\ worker[x].pc = "settling" /\ worker'[x].pc = "waiting"
    /\ worker'[x].cadence = worker[x].cadence
    /\ worker'[x].now = worker[x].now
    /\ worker'[x].todo = worker[x].todo
    /\ run[PeriodOf(x)] \notin TerminalRun
    /\ worker'[x].bills = {}
    /\ worker'[x].lines = {Line(y[1], y[2], PeriodOf(x)) : y \in LoadSnapshots(PeriodOf(x))}

WorkerEffect(x) == KeepsOn(x) \/ Outside(worker'[x]) \/ Begins(x)

LEMMA OvertakenFacts ==
    ASSUME TypeOK, NEW x \in Workers, NEW p, NEW us, NEW ss
    PROVE  LET r == Overtaken(x, p, us, ss)
           IN  /\ r \in WorkerRow
               /\ r.pc = worker[x].pc /\ r.cadence = worker[x].cadence
               /\ r.now = worker[x].now /\ r.todo = worker[x].todo
               /\ r.lines = worker[x].lines /\ r.bills = worker[x].bills
               /\ worker[x].stale => r.stale
               /\ InTransaction(x) /\ PeriodOf(x) = p => r.stale
<1> DEFINE b == worker[x].stale \/
                  /\ InTransaction(x)
                  /\ \/ PeriodOf(x) = p
                     \/ \E l \in worker[x].lines :
                          l.outcome = "bill" /\ (Owner[l.service] \in us \/ l.service \in ss)
           r == Overtaken(x, p, us, ss)
<1>1. worker[x] \in WorkerRow
  BY DEF TypeOK
<1>2. r = [worker[x] EXCEPT !.stale = b]
  BY DEF Overtaken
<1>3. b \in BOOLEAN
  OBVIOUS
<1>4. (worker[x].stale => b) /\ (InTransaction(x) /\ PeriodOf(x) = p => b)
  OBVIOUS
<1> HIDE DEF b, r
<1>5. r \in WorkerRow
  BY <1>1, <1>2, <1>3 DEF WorkerRow
<1>6. /\ r.pc = worker[x].pc /\ r.cadence = worker[x].cadence
      /\ r.now = worker[x].now /\ r.todo = worker[x].todo
      /\ r.lines = worker[x].lines /\ r.bills = worker[x].bills
  BY <1>1, <1>2 DEF WorkerRow
<1>7. r.stale = b
  BY <1>1, <1>2 DEF WorkerRow
<1> QED BY <1>4, <1>5, <1>6, <1>7 DEF r

LEMMA KeptByOvertaking ==
    ASSUME TypeOK, NEW x \in Workers, NEW p, NEW us, NEW ss,
           worker'[x] = Overtaken(x, p, us, ss)
    PROVE  KeepsOn(x)
BY OvertakenFacts DEF KeepsOn

LEMMA KeptUnchanged ==
    ASSUME NEW x \in Workers, worker'[x] = worker[x]
    PROVE  KeepsOn(x)
BY DEF KeepsOn

\* A worker outside a transaction that keeps its periods, or drops one.
LEMMA AtIsOutside ==
    ASSUME TypeOK, WorkShape, NEW w \in Workers,
           worker[w].pc \notin {"idle", "listing", "dunning"},
           NEW pc \in Places \ {"waiting", "working"}, NEW attempt \in 1..MaximumAttempts
    PROVE  LET r == At(w, pc, worker[w].cadence, worker[w].todo, attempt)
           IN  r \in WorkerRow /\ Outside(r)
<1>1. worker[w].cadence \in Cadences /\ worker[w].todo \in SUBSET Ticks
  BY DEF TypeOK, WorkerRow
<1> QED BY <1>1, AtFacts DEF WorkShape, Outside

LEMMA CadenceDoneIsOutside ==
    ASSUME TypeOK, WorkShape, NEW w \in Workers
    PROVE  CadenceDone(w) \in WorkerRow /\ Outside(CadenceDone(w))
<1>1. 1 \in 1..MaximumAttempts /\ "DAILY" \in Cadences /\ "listing" \in Places /\ "dunning" \in Places
  BY ConstantsAssumption DEF Cadences, Places
<1>2. worker[w].now <= clock
  BY DEF WorkShape
<1>3. At(w, "listing", "DAILY", {}, 1) \in WorkerRow /\ Outside(At(w, "listing", "DAILY", {}, 1))
  BY <1>1, <1>2, AtFacts DEF Outside
<1>4. At(w, "dunning", "DAILY", {}, 1) \in WorkerRow /\ Outside(At(w, "dunning", "DAILY", {}, 1))
  BY <1>1, <1>2, AtFacts DEF Outside
<1> QED BY <1>3, <1>4 DEF CadenceDone

LEMMA PeriodDoneIsOutside ==
    ASSUME TypeOK, WorkShape, NEW w \in Workers,
           worker[w].pc \notin {"idle", "listing", "dunning"}
    PROVE  PeriodDone(w) \in WorkerRow /\ Outside(PeriodDone(w))
<1> DEFINE rest == worker[w].todo \ {PeriodOf(w)[2]}
           r == At(w, "settling", worker[w].cadence, rest, 1)
<1>1. 1 \in 1..MaximumAttempts /\ "settling" \in Places
  BY ConstantsAssumption DEF Places
<1>2. worker[w].cadence \in Cadences /\ rest \in SUBSET Ticks /\ rest \subseteq worker[w].todo
  BY DEF TypeOK, WorkerRow
<1>3. CASE rest = {}
  <2>1. PeriodDone(w) = CadenceDone(w)
    BY <1>3 DEF PeriodDone
  <2> QED BY <2>1, CadenceDoneIsOutside
<1>4. CASE rest # {}
  <2>1. PeriodDone(w) = r
    BY <1>4 DEF PeriodDone
  <2> HIDE DEF rest
  <2>2. /\ r \in WorkerRow /\ r.pc = "settling" /\ r.cadence = worker[w].cadence
        /\ r.now = worker[w].now /\ r.todo = rest /\ r.lines = {} /\ r.bills = {}
    BY <1>1, <1>2, AtFacts
  <2>3. /\ worker[w].now <= clock
        /\ \A t \in rest : /\ t % Length(worker[w].cadence) = 0
                           /\ t + Length(worker[w].cadence) <= worker[w].now
    BY <1>2 DEF WorkShape
  <2> HIDE DEF r
  <2>4. Outside(r)
    BY <1>4, <2>2, <2>3 DEF Outside
  <2> QED BY <2>1, <2>2, <2>4
<1> QED BY <1>3, <1>4

(***************************************************************************)
(* The timeline                                                            *)
(***************************************************************************)

\* Snapshots stay, and one that is cut is cut after now.
PolicyGrows ==
    \A s \in Services : \A v \in DOMAIN policy[s] :
        /\ v \in DOMAIN policy'[s]
        /\ policy'[s][v].cadence = policy[s][v].cadence
        /\ policy'[s][v].from = policy[s][v].from
        /\ policy'[s][v].to = policy[s][v].to \/ policy'[s][v].to > clock

LEMMA StartStep ==
    ASSUME IInv, NEW s \in Services, NEW c \in Cadences, NEW t \in Ticks,
           StartInitialUsageBilling(s, c, t)
    PROVE  TypeOK' /\ Windows' /\ PolicyGrows
<1> DEFINE p == [cadence |-> c, from |-> t, to |-> Never]
           r == [active |-> TRUE, from |-> t, to |-> Never]
           u == [policy |-> 1, resource |-> 1, from |-> t, to |-> Never]
<1>1. /\ policy' = [policy EXCEPT ![s] = <<p>>]
      /\ resource' = [resource EXCEPT ![s] = <<r>>]
      /\ usage' = [usage EXCEPT ![s] = {u}]
      /\ policy[s] = << >> /\ Delayed(s, t)
      /\ UNCHANGED <<clock, books, money, dunning, worker, faults>>
  BY DEF StartInitialUsageBilling, Started
<1>2. /\ Never \in Nat /\ Never \in 0..Never /\ 1 \in 1..MaxPolicies /\ 1 \in 1..MaxVersions
  BY ConstantsAssumption DEF Never
<1>3. p \in PolicyRow /\ r \in VersionRow /\ u \in UsageRow
  BY <1>2 DEF PolicyRow, VersionRow, UsageRow
<1> HIDE DEF p, r, u
<1>4. <<p>> \in Seq(PolicyRow) /\ Len(<<p>>) = 1 /\ <<r>> \in Seq(VersionRow) /\ Len(<<r>>) = 1
  BY <1>3
<1>5. /\ policy \in [Services -> Seq(PolicyRow)] /\ resource \in [Services -> Seq(VersionRow)]
      /\ usage \in [Services -> SUBSET UsageRow] /\ late \subseteq Services
      /\ \A x \in Services : Len(policy[x]) <= MaxPolicies /\ Len(resource[x]) <= MaxVersions
  BY DEF IInv, TypeOK
<1>6. /\ policy' \in [Services -> Seq(PolicyRow)] /\ resource' \in [Services -> Seq(VersionRow)]
      /\ usage' \in [Services -> SUBSET UsageRow]
  BY <1>1, <1>3, <1>4, <1>5
<1>7. \A x \in Services : Len(policy'[x]) <= MaxPolicies /\ Len(resource'[x]) <= MaxVersions
  BY <1>1, <1>2, <1>4, <1>5
<1>8. late' \subseteq Services
  BY <1>1, <1>5 DEF Delayed
<1>9. TypeOK'
  BY <1>1, <1>6, <1>7, <1>8 DEF IInv, TypeOK, books, money
<1>10. Windows'
  <2> SUFFICES ASSUME NEW x \in Services
               PROVE  /\ \A i, j \in DOMAIN policy'[x] :
                            i < j => policy'[x][i].to <= policy'[x][j].from
                      /\ policy'[x] # << >> => resource'[x] # << >>
    BY DEF Windows, Started
  <2>1. CASE x = s
    <3>1. policy'[x] = <<p>> /\ resource'[x] = <<r>>
      BY <1>1, <1>5, <2>1
    <3>2. \A i, j \in DOMAIN policy'[x] : ~(i < j)
      BY <3>1
    <3> QED BY <3>1, <3>2
  <2>2. CASE x # s
    <3>1. policy'[x] = policy[x] /\ resource'[x] = resource[x]
      BY <1>1, <1>5, <2>2
    <3> QED BY <3>1 DEF IInv, Windows, Started
  <2> QED BY <2>1, <2>2
<1>11. PolicyGrows
  <2> SUFFICES ASSUME NEW x \in Services, NEW v \in DOMAIN policy[x]
               PROVE  policy'[x] = policy[x]
    BY DEF PolicyGrows
  <2>1. x # s
    BY <1>1
  <2> QED BY <1>1, <1>5, <2>1
<1> QED BY <1>9, <1>10, <1>11

\* A cadence change is due after now, and after every snapshot has begun.
LEMMA ScheduleStep ==
    ASSUME IInv, NEW s \in Services, NEW c \in Cadences, NEW t \in Ticks,
           ScheduleServiceBillingCadenceChange(s, c, t)
    PROVE  TypeOK' /\ Windows' /\ PolicyGrows
<1> DEFINE n == Len(policy[s])
           cut == [policy[s][n] EXCEPT !.to = t]
           next == [cadence |-> c, from |-> t, to |-> Never]
           old == [policy[s] EXCEPT ![n] = cut]
<1>1. /\ policy[s] # << >> /\ n < MaxPolicies
      /\ t >= End(PeriodContaining(policy[s][n].cadence, clock))
      /\ \A x \in DOMAIN policy[s] : policy[s][x].from <= clock
      /\ policy' = [policy EXCEPT ![s] = Append(old, next)]
      /\ UNCHANGED <<clock, resource, late, books, money, dunning, worker, faults>>
  BY DEF ScheduleServiceBillingCadenceChange, Started
<1>2. PICK open \in usage[s] :
         usage' = [usage EXCEPT ![s] =
                     (usage[s] \ {open}) \cup {[open EXCEPT !.to = t],
                                               [open EXCEPT !.policy = n + 1, !.from = t]}]
  BY DEF ScheduleServiceBillingCadenceChange
<1>3. /\ policy \in [Services -> Seq(PolicyRow)] /\ resource \in [Services -> Seq(VersionRow)]
      /\ usage \in [Services -> SUBSET UsageRow] /\ clock \in Nat
      /\ \A x \in Services : Len(policy[x]) <= MaxPolicies /\ Len(resource[x]) <= MaxVersions
  BY ConstantsAssumption DEF IInv, TypeOK, Ticks
<1>4. n \in Nat /\ n \in 1..n /\ n \in DOMAIN policy[s] /\ DOMAIN policy[s] = 1..n
  BY <1>1, <1>3, EmptySeq, LenProperties
<1>5. /\ Never \in Nat /\ Never \in 0..Never /\ t \in 0..Never /\ t \in Nat
      /\ n + 1 \in 1..MaxPolicies /\ n + 1 <= MaxPolicies /\ MaxPolicies \in Nat
  BY <1>1, <1>4, ConstantsAssumption DEF Never, Ticks
<1>6. \A i \in 1..n : policy[s][i] \in PolicyRow
  BY <1>3, <1>4, ElementOfSeq
<1>7. cut \in PolicyRow /\ cut.cadence = policy[s][n].cadence /\ cut.from = policy[s][n].from
      /\ cut.to = t
  BY <1>4, <1>5, <1>6 DEF PolicyRow
<1>8. next \in PolicyRow /\ next.from = t
  BY <1>5 DEF PolicyRow
<1> HIDE DEF cut, next
<1>9. /\ old \in Seq(PolicyRow) /\ Len(old) = n
      /\ \A i \in 1..n : old[i] = IF i = n THEN cut ELSE policy[s][i]
  BY <1>3, <1>4, <1>7, ExceptSeq
<1> HIDE DEF old
<1>10. /\ Append(old, next) \in Seq(PolicyRow) /\ Len(Append(old, next)) = n + 1
       /\ \A i \in 1..n : Append(old, next)[i] = old[i]
       /\ Append(old, next)[n + 1] = next
  BY <1>8, <1>9, AppendProperties
<1>11. /\ policy'[s] = Append(old, next) /\ DOMAIN policy'[s] = 1..(n + 1)
       /\ \A x \in Services \ {s} : policy'[x] = policy[x]
  BY <1>1, <1>3, <1>10, LenProperties
<1> HIDE DEF n
<1>12. t > clock
  <2>1. policy[s][n].cadence \in Cadences
    BY <1>4, <1>6 DEF PolicyRow
  <2>2. End(PeriodContaining(policy[s][n].cadence, clock)) > clock
    BY <1>3, <2>1, ContainingPeriod
  <2>3. End(PeriodContaining(policy[s][n].cadence, clock)) \in Int
    <3>1. Length(policy[s][n].cadence) \in Nat \ {0}
      BY <2>1, LengthType
    <3>2. clock % Length(policy[s][n].cadence) \in Int
      BY <1>3, <3>1
    <3> QED BY <1>3, <3>1, <3>2 DEF End, PeriodContaining
  <2> QED BY <1>1, <1>3, <1>5, <2>2, <2>3
<1>13. TypeOK'
  <2>1. policy' \in [Services -> Seq(PolicyRow)] /\ resource' \in [Services -> Seq(VersionRow)]
    BY <1>1, <1>3, <1>10
  <2>2. \A x \in Services : Len(policy'[x]) <= MaxPolicies /\ Len(resource'[x]) <= MaxVersions
    BY <1>1, <1>3, <1>5, <1>10, <1>11
  <2>3. usage[s] \subseteq UsageRow /\ open \in UsageRow
    BY <1>3
  <2>4. [open EXCEPT !.to = t] \in UsageRow
    BY <1>5, <2>3 DEF UsageRow
  <2>5. [open EXCEPT !.policy = n + 1, !.from = t] \in UsageRow
    BY <1>5, <2>3 DEF UsageRow
  <2>6. usage' \in [Services -> SUBSET UsageRow]
    BY <1>2, <1>3, <2>3, <2>4, <2>5
  <2> QED BY <1>1, <2>1, <2>2, <2>6 DEF IInv, TypeOK, books, money
<1>14. \A i \in 1..n : /\ policy'[s][i].cadence = policy[s][i].cadence
                       /\ policy'[s][i].from = policy[s][i].from
                       /\ policy'[s][i].to = IF i = n THEN t ELSE policy[s][i].to
  BY <1>7, <1>9, <1>10, <1>11
<1>15. Windows'
  <2> SUFFICES ASSUME NEW x \in Services
               PROVE  /\ \A i, j \in DOMAIN policy'[x] :
                            i < j => policy'[x][i].to <= policy'[x][j].from
                      /\ policy'[x] # << >> => resource'[x] # << >>
    BY DEF Windows, Started
  <2>1. CASE x = s
    <3>1. resource'[x] # << >>
      BY <1>1, <2>1 DEF IInv, Windows, Started
    <3>2. ASSUME NEW i \in 1..(n + 1), NEW j \in 1..(n + 1), i < j
          PROVE  policy'[s][i].to <= policy'[s][j].from
      <4>1. i \in 1..n /\ i \in DOMAIN policy[s]
        BY <1>4, <3>2
      <4>2. CASE j = n + 1 /\ i = n
        <5>1. policy'[s][i].to = t /\ policy'[s][j].from = t
          BY <1>8, <1>10, <1>11, <1>14, <4>1, <4>2
        <5> QED BY <1>5, <5>1
      <4>3. CASE j = n + 1 /\ i # n
        <5>1. policy'[s][i].to = policy[s][i].to /\ policy'[s][j].from = t
          BY <1>8, <1>10, <1>11, <1>14, <4>1, <4>3
        <5>2. i < n
          BY <1>4, <4>1, <4>3
        <5>3. policy[s][i].to <= policy[s][n].from /\ policy[s][n].from <= clock
          BY <1>1, <1>4, <4>1, <5>2 DEF IInv, Windows
        <5>4. policy[s][i].to \in Int /\ policy[s][n].from \in Int
          BY <1>4, <1>6, <4>1 DEF PolicyRow, Ticks
        <5> QED BY <1>3, <1>5, <1>12, <5>1, <5>3, <5>4
      <4>4. CASE j # n + 1
        <5>1. j \in 1..n /\ i < n
          BY <1>4, <3>2, <4>4, <4>1
        <5>2. policy'[s][i].to = policy[s][i].to /\ policy'[s][j].from = policy[s][j].from
          BY <1>14, <4>1, <5>1
        <5> QED BY <1>4, <3>2, <4>1, <5>1, <5>2 DEF IInv, Windows
      <4> QED BY <4>2, <4>3, <4>4
    <3> QED BY <1>11, <2>1, <3>1, <3>2
  <2>2. CASE x # s
    BY <1>1, <1>11, <2>2 DEF IInv, Windows, Started
  <2> QED BY <2>1, <2>2
<1>16. PolicyGrows
  <2> SUFFICES ASSUME NEW x \in Services, NEW v \in DOMAIN policy[x]
               PROVE  /\ v \in DOMAIN policy'[x]
                      /\ policy'[x][v].cadence = policy[x][v].cadence
                      /\ policy'[x][v].from = policy[x][v].from
                      /\ policy'[x][v].to = policy[x][v].to \/ policy'[x][v].to > clock
    BY DEF PolicyGrows
  <2>1. CASE x = s
    <3>1. v \in 1..n /\ v \in 1..(n + 1)
      BY <1>4, <2>1
    <3> QED BY <1>11, <1>12, <1>14, <2>1, <3>1
  <2>2. CASE x # s
    BY <1>11, <2>2
  <2> QED BY <2>1, <2>2
<1> QED BY <1>13, <1>15, <1>16

LEMMA PolicyKept ==
    ASSUME policy' = policy
    PROVE  PolicyGrows
BY DEF PolicyGrows

LEMMA RecordStep ==
    ASSUME IInv, NEW s \in Services, NEW active \in BOOLEAN, NEW t \in Ticks,
           RecordProviderConfirmedResourceVersion(s, active, t)
    PROVE  TypeOK' /\ Windows' /\ PolicyGrows
<1> DEFINE r == Len(resource[s]) + 1
           split == {SplitAt(i, r, t) : i \in usage[s]}
           ended == [resource[s][r - 1] EXCEPT !.to = t]
           old == [resource[s] EXCEPT ![r - 1] = ended]
           new == [active |-> active, from |-> t, to |-> Never]
<1>1. /\ policy[s] # << >> /\ r <= MaxVersions /\ Delayed(s, t)
      /\ resource' = [resource EXCEPT ![s] = Append(old, new)]
      /\ UNCHANGED <<clock, policy, books, money, dunning, worker, faults>>
  BY DEF RecordProviderConfirmedResourceVersion, Started
<1>2. PICK v \in DOMAIN policy[s] :
         LET next == [policy |-> v, resource |-> r, from |-> t, to |-> policy[s][v].to]
             scheduled == \E i \in split : i.resource = r /\ i.policy = v /\ Covers(i, t)
         IN  usage' = [usage EXCEPT ![s] = split \cup (IF scheduled THEN {} ELSE {next})]
  BY DEF RecordProviderConfirmedResourceVersion
<1>3. /\ policy \in [Services -> Seq(PolicyRow)] /\ resource \in [Services -> Seq(VersionRow)]
      /\ usage \in [Services -> SUBSET UsageRow] /\ late \subseteq Services
      /\ \A x \in Services : Len(policy[x]) <= MaxPolicies /\ Len(resource[x]) <= MaxVersions
  BY DEF IInv, TypeOK
<1>4. /\ Len(resource[s]) \in Nat /\ r \in Nat /\ r - 1 \in 1..Len(resource[s])
      /\ r - 1 = Len(resource[s])
  <2>1. resource[s] # << >>
    BY <1>1 DEF IInv, Windows, Started
  <2>2. Len(resource[s]) \in Nat /\ Len(resource[s]) # 0
    BY <1>3, <2>1, EmptySeq, LenProperties
  <2> QED BY <2>2
<1>5. /\ Never \in 0..Never /\ t \in 0..Never /\ t \in Nat /\ MaxVersions \in Nat
      /\ MaxPolicies \in Nat
  BY ConstantsAssumption DEF Never, Ticks
<1>6. r \in 1..MaxVersions
  BY <1>1, <1>4, <1>5
<1>7. ended \in VersionRow
  <2>1. resource[s][r - 1] \in VersionRow
    BY <1>3, <1>4, ElementOfSeq
  <2> QED BY <1>5, <2>1 DEF VersionRow
<1>8. new \in VersionRow
  BY <1>5 DEF VersionRow
<1> HIDE DEF ended, new
<1>9. old \in Seq(VersionRow) /\ Len(old) = Len(resource[s])
  BY <1>3, <1>4, <1>7, ExceptSeq
<1> HIDE DEF old
<1>10. Append(old, new) \in Seq(VersionRow) /\ Len(Append(old, new)) = r /\ Append(old, new) # << >>
  BY <1>8, <1>9, AppendProperties
<1>11. split \subseteq UsageRow
  <2> SUFFICES ASSUME NEW i \in usage[s] PROVE SplitAt(i, r, t) \in UsageRow
    OBVIOUS
  <2>1. i \in UsageRow
    BY <1>3
  <2>2. [i EXCEPT !.resource = r] \in UsageRow
    BY <1>6, <2>1 DEF UsageRow
  <2>3. [i EXCEPT !.to = t] \in UsageRow
    BY <1>5, <2>1 DEF UsageRow
  <2> QED BY <2>1, <2>2, <2>3 DEF SplitAt
<1>12. [policy |-> v, resource |-> r, from |-> t, to |-> policy[s][v].to] \in UsageRow
  <2>1. DOMAIN policy[s] = 1..Len(policy[s]) /\ Len(policy[s]) \in Nat
    BY <1>3, LenProperties
  <2>2. v \in 1..MaxPolicies
    BY <1>3, <1>5, <2>1
  <2>3. policy[s][v] \in PolicyRow
    BY <1>3, <2>1, ElementOfSeq
  <2> QED BY <1>6, <2>2, <2>3 DEF PolicyRow, UsageRow
<1> HIDE DEF split, r
<1>13. usage' \in [Services -> SUBSET UsageRow]
  BY <1>2, <1>3, <1>11, <1>12
<1>14. resource' \in [Services -> Seq(VersionRow)]
  BY <1>1, <1>3, <1>10
<1>15. \A x \in Services : Len(resource'[x]) <= MaxVersions
  BY <1>1, <1>3, <1>10
<1>16. late' \subseteq Services
  BY <1>1, <1>3 DEF Delayed
<1>17. TypeOK'
  BY <1>1, <1>3, <1>13, <1>14, <1>15, <1>16 DEF IInv, TypeOK, books, money
<1>18. Windows'
  <2>1. \A x \in Services : resource'[x] = resource[x] \/ resource'[x] # << >>
    BY <1>1, <1>3, <1>10
  <2> QED BY <1>1, <2>1 DEF IInv, Windows, Started
<1> QED BY <1>1, <1>17, <1>18, PolicyKept

(***************************************************************************)
(* The other actions                                                       *)
(***************************************************************************)

\* A step of one worker that changes nothing but the worker.
LEMMA GoesStep ==
    ASSUME IInv, NEW w \in Workers, NEW r, r \in WorkerRow, Goes(w, r),
           UNCHANGED <<clock, timeline, books, money, dunning>>, faults' \in 0..MaxFaults
    PROVE  TypeOK' /\ worker'[w] = r /\ \A x \in Workers \ {w} : KeepsOn(x)
<1>1. worker \in [Workers -> WorkerRow]
  BY DEF IInv, TypeOK
<1>2. worker' = [worker EXCEPT ![w] = r]
  BY DEF Goes
<1>3. worker' \in [Workers -> WorkerRow] /\ worker'[w] = r
  BY <1>1, <1>2
<1>4. \A x \in Workers \ {w} : worker'[x] = worker[x]
  BY <1>1, <1>2
<1>5. TypeOK'
  BY <1>3 DEF IInv, TypeOK, timeline, books, money
<1> QED BY <1>3, <1>4, <1>5, KeptUnchanged

\* A step that only marks transactions as stale.
LEMMA OvertakesStep ==
    ASSUME IInv, NEW us, NEW ss, Overtakes(us, ss)
    PROVE  worker' \in [Workers -> WorkerRow] /\ \A x \in Workers : KeepsOn(x)
<1>1. \A x \in Workers : worker'[x] = Overtaken(x, NoPeriod, us, ss)
  BY DEF Overtakes
<1>2. worker' \in [Workers -> WorkerRow]
  BY OvertakenFacts DEF Overtakes, IInv
<1> QED BY <1>1, <1>2, KeptByOvertaking DEF IInv

LEMMA MoveMoneyStep ==
    ASSUME IInv, NEW u \in Users, NEW d \in Amounts, MoveMoney(u, d)
    PROVE  TypeOK' /\ \A x \in Workers : KeepsOn(x)
<1>1. /\ moves < MaxMoves /\ wallet[u] + d >= 0
      /\ wallet' = [wallet EXCEPT ![u] = wallet[u] + d]
      /\ received' = [received EXCEPT ![u] = received[u] + d]
      /\ moves' = moves + 1 /\ Overtakes({u}, {})
      /\ UNCHANGED <<clock, timeline, books, adjustment, dunning, faults>>
  BY DEF MoveMoney
<1>2. d \in Int /\ MaxMoves \in Nat
  BY ConstantsAssumption
<1>3. wallet \in [Users -> Nat] /\ received \in [Users -> Int] /\ moves \in 0..MaxMoves
  BY DEF IInv, TypeOK
<1>4. wallet[u] + d \in Nat /\ received[u] + d \in Int /\ moves + 1 \in 0..MaxMoves
  BY <1>1, <1>2, <1>3
<1>5. wallet' \in [Users -> Nat] /\ received' \in [Users -> Int] /\ moves' \in 0..MaxMoves
  BY <1>1, <1>3, <1>4
<1>6. worker' \in [Workers -> WorkerRow] /\ \A x \in Workers : KeepsOn(x)
  BY <1>1, OvertakesStep
<1> QED BY <1>1, <1>5, <1>6 DEF IInv, TypeOK, timeline, books

LEMMA AdjustmentStep ==
    ASSUME IInv, NEW k \in Keys, NEW d \in Corrections, ApplyProviderBillingAdjustment(k, d)
    PROVE  TypeOK' /\ \A x \in Workers : KeepsOn(x)
<1> DEFINE u == Owner[k[1]]
           settled == IF d > 0 THEN Earlier(wallet[u], d) ELSE d
<1>1. /\ moves < MaxMoves
      /\ wallet' = [wallet EXCEPT ![u] = wallet[u] - settled]
      /\ adjustment' = [adjustment EXCEPT ![k] = [amount |-> d, settled |-> settled]]
      /\ moves' = moves + 1 /\ Overtakes({u}, {})
      /\ UNCHANGED <<clock, timeline, books, received, dunning, faults>>
  BY DEF ApplyProviderBillingAdjustment
<1>2. d \in Int /\ MaxMoves \in Nat /\ u \in Users
  BY ConstantsAssumption DEF Keys
<1>3. wallet \in [Users -> Nat] /\ moves \in 0..MaxMoves
      /\ adjustment \in [Keys -> [amount : Int, settled : Int]]
  BY DEF IInv, TypeOK
<1>4. settled \in Int /\ wallet[u] - settled \in Nat /\ moves + 1 \in 0..MaxMoves
  BY <1>1, <1>2, <1>3 DEF Earlier
<1> HIDE DEF settled, u
<1>5. [amount |-> d, settled |-> settled] \in [amount : Int, settled : Int]
  BY <1>2, <1>4
<1>6. wallet' \in [Users -> Nat]
  BY <1>1, <1>3, <1>4
<1>7. adjustment' \in [Keys -> [amount : Int, settled : Int]] /\ moves' \in 0..MaxMoves
  BY <1>1, <1>3, <1>4, <1>5
<1>8. worker' \in [Workers -> WorkerRow] /\ \A x \in Workers : KeepsOn(x)
  BY <1>1, OvertakesStep
<1> QED BY <1>1, <1>6, <1>7, <1>8 DEF IInv, TypeOK, timeline, books

LEMMA StartCycleStep ==
    ASSUME IInv, NEW w \in Workers, StartCycle(w)
    PROVE  TypeOK' /\ \A x \in Workers : WorkerEffect(x)
<1> DEFINE r == Placed("listing", "HOURLY", clock, {}, 1)
<1>1. Goes(w, r) /\ UNCHANGED <<clock, timeline, books, money, dunning, faults>>
  BY DEF StartCycle
<1>2. clock \in Ticks /\ clock <= clock /\ faults \in 0..MaxFaults
  BY ConstantsAssumption DEF IInv, TypeOK, Ticks
<1>3. r \in WorkerRow
  BY <1>2, ConstantsAssumption DEF Placed, WorkerRow, Places, Cadences
<1>4. Outside(r)
  BY <1>2 DEF Placed, Outside
<1> HIDE DEF r
<1>5. TypeOK' /\ worker'[w] = r /\ \A x \in Workers \ {w} : KeepsOn(x)
  BY <1>1, <1>2, <1>3, GoesStep
<1> QED BY <1>4, <1>5 DEF WorkerEffect

LEMMA ListStep ==
    ASSUME IInv, NEW w \in Workers, ListClosedBillingPeriodsForCatchUp(w)
    PROVE  TypeOK' /\ \A x \in Workers : WorkerEffect(x)
<1> DEFINE c == worker[w].cadence
           all == Outstanding(c, worker[w].now)
           first == {t \in all : Cardinality({x \in all : x < t}) < CatchUpLimit}
           r == IF all = {} THEN CadenceDone(w) ELSE At(w, "settling", c, first, 1)
<1>1. Goes(w, r) /\ UNCHANGED <<clock, timeline, books, money, dunning, faults>>
  BY DEF ListClosedBillingPeriodsForCatchUp
<1>2. faults \in 0..MaxFaults /\ c \in Cadences /\ worker[w].now <= clock
  BY DEF IInv, TypeOK, WorkShape, WorkerRow
<1>3. ASSUME NEW t \in all
      PROVE  t \in Ticks /\ t % Length(c) = 0 /\ t + Length(c) <= worker[w].now
  <2>1. PICK p \in Periods : p[1] = c /\ End(p) <= worker[w].now /\ t = p[2]
    BY DEF Outstanding
  <2> HIDE DEF c
  <2> QED BY <2>1, PeriodType DEF End
<1>4. r \in WorkerRow /\ Outside(r)
  <2>1. CASE all = {}
    BY <2>1, CadenceDoneIsOutside DEF IInv
  <2>2. CASE all # {}
    <3>1. all \subseteq Ticks /\ all \in SUBSET Nat
      BY <1>3, ConstantsAssumption DEF Ticks
    <3> HIDE DEF all, c
    <3>2. PICK t \in all : \A x \in all : t <= x
      BY <2>2, <3>1, LeastExists
    <3>3. {x \in all : x < t} = {}
      <4> SUFFICES ASSUME NEW x \in all, x < t PROVE FALSE
        OBVIOUS
      <4>1. x \in Nat /\ t \in Nat /\ t <= x
        BY <3>1, <3>2
      <4> QED BY <4>1
    <3>4. Cardinality({x \in all : x < t}) = 0
      BY <3>3, FS_EmptySet
    <3>4a. 0 < CatchUpLimit
      BY ConstantsAssumption
    <3>5. first # {} /\ first \subseteq all /\ first \subseteq Ticks
      BY <3>1, <3>4, <3>4a
    <3> HIDE DEF first
    <3>6. 1 \in 1..MaximumAttempts /\ "settling" \in Places
      BY ConstantsAssumption DEF Places
    <3> DEFINE a == At(w, "settling", c, first, 1)
    <3>7. /\ a \in WorkerRow /\ a.pc = "settling" /\ a.cadence = c /\ a.now = worker[w].now
          /\ a.todo = first /\ a.lines = {} /\ a.bills = {}
      BY <1>2, <3>5, <3>6, AtFacts DEF IInv
    <3> HIDE DEF a
    <3>8. Outside(a)
      BY <1>2, <1>3, <3>5, <3>7 DEF Outside
    <3> QED BY <2>2, <3>7, <3>8 DEF a
  <2> QED BY <2>1, <2>2
<1> HIDE DEF r
<1>5. TypeOK' /\ worker'[w] = r /\ \A x \in Workers \ {w} : KeepsOn(x)
  BY <1>1, <1>2, <1>4, GoesStep
<1> QED BY <1>4, <1>5 DEF WorkerEffect

LEMMA BeginStep ==
    ASSUME IInv, NEW w \in Workers, BeginSettlement(w)
    PROVE  TypeOK' /\ \A x \in Workers : WorkerEffect(x)
<1> DEFINE p == PeriodOf(w)
           lines == {Line(x[1], x[2], p) : x \in LoadSnapshots(p)}
           r == [worker[w] EXCEPT !.pc = "waiting", !.balance = wallet, !.lines = lines]
<1>1. /\ worker[w].pc = "settling"
      /\ Goes(w, IF run[p] \in TerminalRun THEN PeriodDone(w) ELSE r)
      /\ UNCHANGED <<clock, timeline, books, money, dunning, faults>>
  BY DEF BeginSettlement
<1>2. /\ faults \in 0..MaxFaults /\ worker[w] \in WorkerRow /\ wallet \in [Users -> Nat]
      /\ TypeOK /\ WorkShape
  BY DEF IInv, TypeOK
<1>3. p \in Periods
  BY <1>1, <1>2, PeriodOfType
<1>4. CASE run[p] \in TerminalRun
  <2>1. PeriodDone(w) \in WorkerRow /\ Outside(PeriodDone(w))
    BY <1>1, <1>2, PeriodDoneIsOutside
  <2>2. Goes(w, PeriodDone(w))
    BY <1>1, <1>4
  <2>3. TypeOK' /\ worker'[w] = PeriodDone(w) /\ \A x \in Workers \ {w} : KeepsOn(x)
    BY <1>1, <1>2, <2>1, <2>2, GoesStep
  <2> QED BY <2>1, <2>3 DEF WorkerEffect
<1>5. CASE run[p] \notin TerminalRun
  <2>1. lines \subseteq LineRow
    <3> HIDE DEF p
    <3> QED BY <1>2, <1>3, LineFacts
  <2>2. worker[w].bills = {}
    BY <1>1, <1>2 DEF WorkShape, InTransaction
  <2>3. Goes(w, r)
    BY <1>1, <1>5
  <2> HIDE DEF lines
  <2>4. /\ r \in WorkerRow /\ r.pc = "waiting" /\ r.cadence = worker[w].cadence
        /\ r.now = worker[w].now /\ r.todo = worker[w].todo /\ r.lines = lines
        /\ r.bills = {}
    BY <1>2, <2>1, <2>2 DEF WorkerRow, Places
  <2> HIDE DEF r
  <2>5. TypeOK' /\ worker'[w] = r /\ \A x \in Workers \ {w} : KeepsOn(x)
    BY <1>1, <1>2, <2>3, <2>4, GoesStep
  <2>6. Begins(w)
    BY <1>1, <1>5, <2>4, <2>5 DEF Begins, lines
  <2> QED BY <2>5, <2>6 DEF WorkerEffect
<1> QED BY <1>4, <1>5

LEMMA AcquireStep ==
    ASSUME IInv, NEW w \in Workers, AcquireRunLock(w)
    PROVE  TypeOK' /\ \A x \in Workers : WorkerEffect(x)
<1> DEFINE r == [worker[w] EXCEPT !.pc = "working"]
<1>1. /\ worker[w].pc = "waiting" /\ Goes(w, r)
      /\ UNCHANGED <<clock, timeline, books, money, dunning, faults>>
  BY DEF AcquireRunLock
<1>2. faults \in 0..MaxFaults /\ worker[w] \in WorkerRow
  BY DEF IInv, TypeOK
<1>3. /\ r \in WorkerRow /\ r.pc = "working" /\ r.cadence = worker[w].cadence
      /\ r.now = worker[w].now /\ r.todo = worker[w].todo /\ r.stale = worker[w].stale
      /\ r.lines = worker[w].lines /\ r.bills = worker[w].bills
  BY <1>2 DEF WorkerRow, Places
<1> HIDE DEF r
<1>4. TypeOK' /\ worker'[w] = r /\ \A x \in Workers \ {w} : KeepsOn(x)
  BY <1>1, <1>2, <1>3, GoesStep
<1>5. KeepsOn(w)
  BY <1>1, <1>3, <1>4 DEF KeepsOn, InTransaction
<1> QED BY <1>4, <1>5 DEF WorkerEffect

\* A bill of a line, paid from the balance the transaction has seen.
LEMMA BilledStep ==
    ASSUME IInv, NEW w \in Workers, NEW l \in worker[w].lines, NextLine(w, l),
           NEW bill \in BillRow, Billed(w, l, bill),
           bill.service = l.service, bill.policy = l.policy,
           bill.from = l.from, bill.to = l.to,
           bill.paid <= worker[w].balance[Owner[l.service]]
    PROVE  TypeOK' /\ \A x \in Workers : WorkerEffect(x)
<1> DEFINE u == Owner[l.service]
           balance == [worker[w].balance EXCEPT ![u] = worker[w].balance[u] - bill.paid]
           r == [worker[w] EXCEPT !.lines = worker[w].lines \ {l},
                                  !.bills = worker[w].bills \cup {bill},
                                  !.balance = balance]
<1>1. worker[w] \in WorkerRow /\ faults \in 0..MaxFaults
  BY DEF IInv, TypeOK
<1>2. l \in LineRow /\ worker[w].balance \in [Users -> Nat] /\ bill.paid \in Nat
  BY <1>1 DEF WorkerRow, BillRow
<1>3. u \in Users
  BY <1>2, ConstantsAssumption DEF LineRow
<1>4. Goes(w, r) /\ UNCHANGED <<clock, timeline, books, money, dunning, faults>>
  BY <1>1 DEF Billed, WorkerRow
<1>5. worker[w].balance[u] - bill.paid \in Nat
  BY <1>2, <1>3
<1>6. balance \in [Users -> Nat]
  BY <1>2, <1>5
<1> HIDE DEF balance
<1>7. /\ r \in WorkerRow /\ r.pc = worker[w].pc /\ r.cadence = worker[w].cadence
      /\ r.now = worker[w].now /\ r.todo = worker[w].todo /\ r.stale = worker[w].stale
      /\ r.lines = worker[w].lines \ {l} /\ r.bills = worker[w].bills \cup {bill}
  BY <1>1, <1>6 DEF WorkerRow
<1> HIDE DEF r, u
<1>8. TypeOK' /\ worker'[w] = r /\ \A x \in Workers \ {w} : KeepsOn(x)
  BY <1>1, <1>4, <1>7, GoesStep
<1>9. KeepsOn(w)
  <2>1. ASSUME NEW y \in r.lines \cup r.bills
        PROVE  \E z \in worker[w].lines \cup worker[w].bills :
                  y.service = z.service /\ y.policy = z.policy /\ y.from = z.from /\ y.to = z.to
    <3>1. CASE y = bill
      BY <3>1
    <3>2. CASE y # bill
      BY <1>7, <3>2
    <3> QED BY <3>1, <3>2
  <2> QED BY <1>7, <1>8, <2>1 DEF KeepsOn
<1> QED BY <1>8, <1>9 DEF WorkerEffect

LEMMA ReviewStep ==
    ASSUME IInv, NEW w \in Workers, NEW l \in worker[w].lines, MarkInvoiceForReview(w, l)
    PROVE  TypeOK' /\ \A x \in Workers : WorkerEffect(x)
<1> DEFINE bill == [service |-> l.service, policy |-> l.policy, from |-> l.from, to |-> l.to,
                    total |-> 0, paid |-> 0, status |-> "UNDER_REVIEW", low |-> FALSE]
<1>1. NextLine(w, l) /\ Billed(w, l, bill)
  BY DEF MarkInvoiceForReview
<1>2. l \in LineRow /\ worker[w].balance \in [Users -> Nat]
  BY DEF IInv, TypeOK, WorkerRow
<1>3. Owner[l.service] \in Users
  BY <1>2, ConstantsAssumption DEF LineRow
<1>4. bill \in BillRow
  BY <1>2 DEF LineRow, BillRow, SettledInvoice
<1>5. /\ bill.service = l.service /\ bill.policy = l.policy
      /\ bill.from = l.from /\ bill.to = l.to /\ bill.paid = 0
  OBVIOUS
<1> HIDE DEF bill
<1>6. bill.paid <= worker[w].balance[Owner[l.service]]
  BY <1>2, <1>3, <1>5
<1> QED BY <1>1, <1>4, <1>5, <1>6, BilledStep

LEMMA ChargeStep ==
    ASSUME IInv, NEW w \in Workers, NEW l \in worker[w].lines, ChargeUsage(w, l)
    PROVE  TypeOK' /\ \A x \in Workers : WorkerEffect(x)
<1> DEFINE paid == Payable(w, l)
           bill == [service |-> l.service, policy |-> l.policy, from |-> l.from, to |-> l.to,
                    total |-> l.total, paid |-> paid,
                    status |-> InvoiceStatus(l.total, paid), low |-> IsLow(w, l)]
<1>1. NextLine(w, l) /\ Billed(w, l, bill)
  BY DEF ChargeUsage
<1>2. l \in LineRow /\ worker[w].balance \in [Users -> Nat]
  BY DEF IInv, TypeOK, WorkerRow
<1>3. worker[w].balance[Owner[l.service]] \in Nat /\ l.total \in Nat
  BY <1>2, ConstantsAssumption DEF LineRow
<1>4. paid \in Nat /\ paid <= worker[w].balance[Owner[l.service]]
  BY <1>3 DEF Payable, Earlier
<1> HIDE DEF paid
<1>5. InvoiceStatus(l.total, paid) \in SettledInvoice \cup {"UNDER_REVIEW"}
  BY DEF InvoiceStatus, SettledInvoice
<1>6. IsLow(w, l) \in BOOLEAN
  BY DEF IsLow
<1>7. bill \in BillRow
  BY <1>2, <1>3, <1>4, <1>5, <1>6 DEF LineRow, BillRow
<1>8. /\ bill.service = l.service /\ bill.policy = l.policy
      /\ bill.from = l.from /\ bill.to = l.to /\ bill.paid = paid
  OBVIOUS
<1> HIDE DEF bill
<1> QED BY <1>1, <1>4, <1>7, <1>8, BilledStep

\* A worker that ends up outside a transaction, with everything else as it is.
LEMMA LeavesStep ==
    ASSUME IInv, NEW w \in Workers, NEW r, r \in WorkerRow, Outside(r), Goes(w, r),
           UNCHANGED <<clock, timeline, books, money, dunning>>, faults' \in 0..MaxFaults
    PROVE  TypeOK' /\ \A x \in Workers : WorkerEffect(x)
<1>1. TypeOK' /\ worker'[w] = r /\ \A x \in Workers \ {w} : KeepsOn(x)
  BY GoesStep
<1> QED BY <1>1 DEF WorkerEffect

LEMMA RejectStep ==
    ASSUME IInv, NEW w \in Workers, NEW l \in worker[w].lines, RejectUsage(w, l)
    PROVE  TypeOK' /\ \A x \in Workers : WorkerEffect(x)
<1> DEFINE r == At(w, "failed", worker[w].cadence, worker[w].todo, 1)
<1>1. worker[w].pc = "working" /\ Goes(w, r)
      /\ UNCHANGED <<clock, timeline, books, money, dunning, faults>>
  BY DEF RejectUsage, Rejected, NextLine
<1>2. "failed" \in Places \ {"waiting", "working"} /\ 1 \in 1..MaximumAttempts
  BY ConstantsAssumption DEF Places
<1>3. r \in WorkerRow /\ Outside(r)
  BY <1>1, <1>2, AtIsOutside DEF IInv
<1> HIDE DEF r
<1> QED BY <1>1, <1>3, LeavesStep DEF IInv, TypeOK

LEMMA RetryStep ==
    ASSUME IInv, NEW w \in Workers, InTransaction(w), RetryOrGiveUp(w),
           UNCHANGED <<clock, timeline, books, money, dunning>>, faults' \in 0..MaxFaults
    PROVE  TypeOK' /\ \A x \in Workers : WorkerEffect(x)
<1> DEFINE again == At(w, "settling", worker[w].cadence, worker[w].todo, worker[w].attempt + 1)
           no == At(w, "failed", worker[w].cadence, worker[w].todo, 1)
<1>1. worker[w].pc \notin {"idle", "listing", "dunning"}
  BY DEF InTransaction
<1>2. /\ {"failed", "settling"} \subseteq Places \ {"waiting", "working"}
      /\ 1 \in 1..MaximumAttempts /\ MaximumAttempts \in Nat
  BY ConstantsAssumption DEF Places
<1>3. worker[w].attempt \in 1..MaximumAttempts
  BY DEF IInv, TypeOK, WorkerRow
<1>4. CASE worker[w].attempt < MaximumAttempts /\ Goes(w, again)
  <2>1. worker[w].attempt + 1 \in 1..MaximumAttempts
    BY <1>2, <1>3, <1>4
  <2>2. again \in WorkerRow /\ Outside(again)
    BY <1>1, <1>2, <2>1, AtIsOutside DEF IInv
  <2> HIDE DEF again
  <2> QED BY <1>4, <2>2, LeavesStep
<1>5. CASE Goes(w, no)
  <2>1. no \in WorkerRow /\ Outside(no)
    BY <1>1, <1>2, AtIsOutside DEF IInv
  <2> HIDE DEF no
  <2> QED BY <1>5, <2>1, LeavesStep
<1> QED BY <1>4, <1>5 DEF RetryOrGiveUp

LEMMA SerializationFailureStep ==
    ASSUME IInv, NEW w \in Workers, SerializationFailure(w)
    PROVE  TypeOK' /\ \A x \in Workers : WorkerEffect(x)
<1>1. /\ InTransaction(w) /\ RetryOrGiveUp(w)
      /\ UNCHANGED <<clock, timeline, books, money, dunning, faults>>
  BY DEF SerializationFailure, InTransaction
<1>2. faults' \in 0..MaxFaults
  BY <1>1 DEF IInv, TypeOK
<1> QED BY <1>1, <1>2, RetryStep

LEMMA FaultCount ==
    ASSUME IInv, faults < MaxFaults, faults' = faults + 1
    PROVE  faults' \in 0..MaxFaults
<1>1. faults \in 0..MaxFaults /\ MaxFaults \in Nat
  BY ConstantsAssumption DEF IInv, TypeOK
<1> QED BY <1>1

LEMMA TransactionLostStep ==
    ASSUME IInv, NEW w \in Workers, TransactionLost(w)
    PROVE  TypeOK' /\ \A x \in Workers : WorkerEffect(x)
<1>1. /\ InTransaction(w) /\ RetryOrGiveUp(w) /\ faults < MaxFaults /\ faults' = faults + 1
      /\ UNCHANGED <<clock, timeline, books, money, dunning>>
  BY DEF TransactionLost
<1> QED BY <1>1, FaultCount, RetryStep

LEMMA IdleIsOutside ==
    ASSUME IInv
    PROVE  IdleWorker \in WorkerRow /\ Outside(IdleWorker)
<1>1. 0 <= clock
  BY ConstantsAssumption DEF IInv, TypeOK, Ticks
<1> QED BY <1>1, IdleFacts DEF Outside

LEMMA CrashStep ==
    ASSUME IInv, NEW w \in Workers, Crash(w)
    PROVE  TypeOK' /\ \A x \in Workers : WorkerEffect(x)
<1>1. /\ Goes(w, IdleWorker) /\ faults < MaxFaults /\ faults' = faults + 1
      /\ UNCHANGED <<clock, timeline, books, money, dunning>>
  BY DEF Crash
<1> QED BY <1>1, FaultCount, IdleIsOutside, LeavesStep

LEMMA FailureStep ==
    ASSUME IInv, NEW w \in Workers, RecordBillingRunFailure(w)
    PROVE  /\ TypeOK' /\ \A x \in Workers : WorkerEffect(x)
           /\ \A p \in Periods : run'[p] \in TerminalRun <=> run[p] \in TerminalRun
<1> DEFINE p == PeriodOf(w)
           next == [worker[w] EXCEPT !.pc = "caught"]
<1>1. /\ worker[w].pc \in {"failed", "caught"}
      /\ run' = [run EXCEPT ![p] = IF run[p] \in TerminalRun THEN run[p] ELSE "FAILED"]
      /\ worker' = [x \in Workers |->
             IF x = w THEN IF worker[w].pc = "caught" THEN IdleWorker ELSE next
             ELSE IF run[p] \in TerminalRun THEN worker[x] ELSE Overtaken(x, p, {}, {})]
      /\ UNCHANGED <<clock, timeline, invoice, low, money, dunning, faults>>
  BY DEF RecordBillingRunFailure
<1>2. TypeOK /\ WorkShape /\ worker \in [Workers -> WorkerRow] /\ run \in [Periods -> RunStatuses]
  BY DEF IInv, TypeOK
<1>3. next \in WorkerRow /\ Outside(next)
  <2>1. worker[w] \in WorkerRow
    BY <1>2
  <2>2. /\ next \in WorkerRow /\ next.pc = "caught" /\ next.cadence = worker[w].cadence
        /\ next.now = worker[w].now /\ next.todo = worker[w].todo
        /\ next.lines = worker[w].lines /\ next.bills = worker[w].bills
    BY <2>1 DEF WorkerRow, Places
  <2> HIDE DEF next
  <2> QED BY <1>1, <1>2, <2>2 DEF WorkShape, Outside, InTransaction
<1>4. IdleWorker \in WorkerRow /\ Outside(IdleWorker)
  BY IdleIsOutside
<1> HIDE DEF next, p
<1>5. worker' \in [Workers -> WorkerRow]
  BY <1>1, <1>2, <1>3, <1>4, OvertakenFacts
<1>6. run' \in [Periods -> RunStatuses]
  BY <1>1, <1>2 DEF RunStatuses
<1>7. TypeOK'
  BY <1>1, <1>5, <1>6 DEF IInv, TypeOK, timeline, money
<1>8. ASSUME NEW x \in Workers PROVE WorkerEffect(x)
  <2>1. CASE x = w
    BY <1>1, <1>3, <1>4, <2>1 DEF WorkerEffect
  <2>2. CASE x # w
    <3>1. worker'[x] = worker[x] \/ worker'[x] = Overtaken(x, p, {}, {})
      BY <1>1, <2>2
    <3> QED BY <1>2, <3>1, KeptByOvertaking, KeptUnchanged DEF WorkerEffect
  <2> QED BY <2>1, <2>2
<1>9. \A q \in Periods : run'[q] \in TerminalRun <=> run[q] \in TerminalRun
  BY <1>1, <1>2 DEF TerminalRun
<1> QED BY <1>7, <1>8, <1>9

LEMMA DunningStep ==
    ASSUME IInv, NEW w \in Workers, EnqueueExpiredDunning(w)
    PROVE  TypeOK' /\ \A x \in Workers : WorkerEffect(x)
<1> DEFINE expired == Expired(worker[w].now)
<1>1. /\ dunning' = [s \in Services |->
             IF s \in expired
             THEN [dunning[s] EXCEPT !.outstanding = "ADMIN_REVIEW", !.suspension = "ADMIN_REVIEW"]
             ELSE dunning[s]]
      /\ worker' = [x \in Workers |->
             IF x = w THEN IdleWorker ELSE Overtaken(x, NoPeriod, {}, expired)]
      /\ UNCHANGED <<clock, timeline, books, money, faults>>
  BY DEF EnqueueExpiredDunning
<1>2. TypeOK /\ dunning \in [Services -> CaseRow]
  BY DEF IInv, TypeOK
<1>3. \A s \in Services :
        [dunning[s] EXCEPT !.outstanding = "ADMIN_REVIEW", !.suspension = "ADMIN_REVIEW"] \in CaseRow
  BY <1>2 DEF CaseRow
<1> HIDE DEF expired
<1>4. dunning' \in [Services -> CaseRow]
  BY <1>1, <1>2, <1>3
<1>5. worker' \in [Workers -> WorkerRow]
  BY <1>1, <1>2, IdleIsOutside, OvertakenFacts
<1>6. TypeOK'
  BY <1>1, <1>4, <1>5 DEF IInv, TypeOK, timeline, books, money
<1>7. ASSUME NEW x \in Workers PROVE WorkerEffect(x)
  <2>1. CASE x = w
    BY <1>1, <2>1, IdleIsOutside DEF WorkerEffect
  <2>2. CASE x # w
    BY <1>1, <1>2, <2>2, KeptByOvertaking DEF WorkerEffect
  <2> QED BY <2>1, <2>2
<1> QED BY <1>6, <1>7

LEMMA ApproveStep ==
    ASSUME IInv, NEW s \in Services, ApproveControlledSuspension(s)
    PROVE  TypeOK'
<1>1. /\ dunning' = [dunning EXCEPT ![s] = [dunning[s] EXCEPT !.suspension = "RESOLVED"]]
      /\ UNCHANGED <<clock, timeline, books, money, worker, faults>>
  BY DEF ApproveControlledSuspension, IInv, TypeOK
<1>2. dunning \in [Services -> CaseRow]
  BY DEF IInv, TypeOK
<1>3. [dunning[s] EXCEPT !.suspension = "RESOLVED"] \in CaseRow
  BY <1>2 DEF CaseRow
<1>4. dunning' \in [Services -> CaseRow]
  BY <1>1, <1>2, <1>3
<1> QED BY <1>1, <1>4 DEF IInv, TypeOK, timeline, books, money

LEMMA TickStep ==
    ASSUME IInv, Tick
    PROVE  TypeOK' /\ clock' = clock + 1
<1>1. clock \in Ticks /\ Horizon \in Nat
  BY ConstantsAssumption DEF IInv, TypeOK
<1>2. clock' \in Ticks
  BY <1>1 DEF Tick, Ticks
<1> QED BY <1>2 DEF Tick, IInv, TypeOK, timeline, books, money

\* What a commit does to the books, and to another transaction of the same period.
Commits(w) ==
    /\ InTransaction(w) /\ ~worker[w].stale /\ Outside(worker'[w])
    /\ \A q \in Periods : run'[q] \in TerminalRun <=> q = PeriodOf(w) \/ run[q] \in TerminalRun
    /\ \A k \in Keys : \/ invoice'[k] = invoice[k]
                       \/ \E b \in worker[w].bills :
                            KeyOf(b, PeriodOf(w)) = k /\ invoice'[k] = InvoiceOf(b)
    /\ \A x \in Workers \ {w} :
         /\ KeepsOn(x)
         /\ InTransaction(x) /\ PeriodOf(x) = PeriodOf(w) => worker'[x].stale

LEMMA CommitTypes ==
    ASSUME IInv, NEW w \in Workers, CommitSettlement(w)
    PROVE  /\ run' \in [Periods -> RunStatuses]
           /\ invoice' \in [Keys -> InvoiceRow]
           /\ wallet' \in [Users -> Nat]
           /\ low' \in [Services -> 0..MaxPolicies]
           /\ dunning' \in [Services -> CaseRow]
<1> DEFINE p == PeriodOf(w)
           bills == worker[w].bills
           users == {u \in Users : HasWallet(w, u)}
<1>1. /\ worker[w].pc = "working"
      /\ run' = [run EXCEPT ![p] =
             IF \E b \in bills : b.status = "UNDER_REVIEW" THEN "PARTIAL" ELSE "COMPLETED"]
      /\ invoice' = [k \in Keys |->
             IF \E b \in bills : KeyOf(b, p) = k
             THEN InvoiceOf(CHOOSE b \in bills : KeyOf(b, p) = k) ELSE invoice[k]]
      /\ wallet' = [u \in Users |-> IF u \in users THEN worker[w].balance[u] ELSE wallet[u]]
      /\ low' = [s \in Services |->
             IF \E b \in bills : b.service = s /\ b.low
             THEN (CHOOSE b \in bills : b.service = s /\ b.low).policy ELSE low[s]]
      /\ dunning' = [s \in Services |->
             IF \E b \in bills : b.service = s /\ b.paid < b.total
             THEN OutstandingCase(s, p) ELSE dunning[s]]
  BY DEF CommitSettlement
<1>2. /\ worker[w] \in WorkerRow /\ run \in [Periods -> RunStatuses]
      /\ invoice \in [Keys -> InvoiceRow] /\ wallet \in [Users -> Nat]
      /\ low \in [Services -> 0..MaxPolicies] /\ dunning \in [Services -> CaseRow]
      /\ TypeOK /\ WorkShape
  BY DEF IInv, TypeOK
<1>3. p \in Periods
  BY <1>1, <1>2, PeriodOfType
<1>4. bills \subseteq BillRow /\ worker[w].balance \in [Users -> Nat]
  BY <1>2 DEF WorkerRow
<1> HIDE DEF p, bills, users
<1>5. run' \in [Periods -> RunStatuses]
  BY <1>1, <1>2 DEF RunStatuses
<1>6. invoice' \in [Keys -> InvoiceRow]
  <2> SUFFICES ASSUME NEW k \in Keys
               PROVE  (IF \E b \in bills : KeyOf(b, p) = k
                       THEN InvoiceOf(CHOOSE b \in bills : KeyOf(b, p) = k)
                       ELSE invoice[k]) \in InvoiceRow
    BY <1>1
  <2>1. \A b \in BillRow : InvoiceOf(b) \in InvoiceRow
    BY DEF BillRow, InvoiceRow, InvoiceOf, InvoiceStatuses
  <2>2. CASE \E b \in bills : KeyOf(b, p) = k
    <3>1. (CHOOSE b \in bills : KeyOf(b, p) = k) \in bills
      BY <2>2
    <3> QED BY <1>4, <2>1, <2>2, <3>1
  <2> QED BY <1>2, <2>2
<1>7. wallet' \in [Users -> Nat]
  BY <1>1, <1>2, <1>4
<1>8. low' \in [Services -> 0..MaxPolicies]
  <2> SUFFICES ASSUME NEW s \in Services
               PROVE  (IF \E b \in bills : b.service = s /\ b.low
                       THEN (CHOOSE b \in bills : b.service = s /\ b.low).policy
                       ELSE low[s]) \in 0..MaxPolicies
    BY <1>1
  <2>1. \A b \in BillRow : b.policy \in 0..MaxPolicies
    BY ConstantsAssumption DEF BillRow
  <2>2. CASE \E b \in bills : b.service = s /\ b.low
    <3>1. (CHOOSE b \in bills : b.service = s /\ b.low) \in bills
      BY <2>2
    <3> QED BY <1>4, <2>1, <2>2, <3>1
  <2> QED BY <1>2, <2>2
<1>9. dunning' \in [Services -> CaseRow]
  <2>1. End(p) + GracePeriods * Length(p[1]) \in Nat
    <3>1. End(p) \in Nat /\ Length(p[1]) \in Nat /\ GracePeriods \in Nat
      BY <1>3, PeriodType, LengthType, ConstantsAssumption
    <3> QED BY <3>1
  <2>2. \A s \in Services : OutstandingCase(s, p) \in CaseRow
    BY <1>2, <2>1 DEF OutstandingCase, CaseRow
  <2> QED BY <1>1, <1>2, <2>2
<1> QED BY <1>5, <1>6, <1>7, <1>8, <1>9

LEMMA CommitStep ==
    ASSUME IInv, NEW w \in Workers, CommitSettlement(w)
    PROVE  TypeOK' /\ Commits(w) /\ \A x \in Workers : WorkerEffect(x)
<1> DEFINE p == PeriodOf(w)
           bills == worker[w].bills
           users == {u \in Users : HasWallet(w, u)}
           services == {b.service : b \in bills}
           done == IF \E b \in bills : b.status = "UNDER_REVIEW" THEN "PARTIAL" ELSE "COMPLETED"
<1>1. /\ worker[w].pc = "working" /\ ~worker[w].stale
      /\ run' = [run EXCEPT ![p] = done]
      /\ invoice' = [k \in Keys |->
             IF \E b \in bills : KeyOf(b, p) = k
             THEN InvoiceOf(CHOOSE b \in bills : KeyOf(b, p) = k) ELSE invoice[k]]
      /\ worker' = [x \in Workers |->
             IF x = w THEN PeriodDone(w) ELSE Overtaken(x, p, users, services)]
      /\ UNCHANGED <<clock, timeline, received, adjustment, moves, faults>>
  BY DEF CommitSettlement
<1>2. TypeOK /\ WorkShape /\ run \in [Periods -> RunStatuses]
  BY DEF IInv, TypeOK
<1>3. p \in Periods
  BY <1>1, <1>2, PeriodOfType
<1>4. PeriodDone(w) \in WorkerRow /\ Outside(PeriodDone(w))
  BY <1>1, <1>2, PeriodDoneIsOutside
<1>5. done \in TerminalRun
  BY DEF TerminalRun
<1> HIDE DEF users, services, bills, done
<1>6. worker' \in [Workers -> WorkerRow]
  BY <1>1, <1>2, <1>4, OvertakenFacts
<1>7. TypeOK'
  BY <1>1, <1>6, CommitTypes DEF IInv, TypeOK, timeline
<1>8. worker'[w] = PeriodDone(w)
  BY <1>1
<1>9. \A x \in Workers \ {w} : worker'[x] = Overtaken(x, p, users, services)
  BY <1>1
<1>10. \A q \in Periods : run'[q] \in TerminalRun <=> q = p \/ run[q] \in TerminalRun
  <2> HIDE DEF p
  <2> QED BY <1>1, <1>2, <1>3, <1>5
<1>11. ASSUME NEW k \in Keys
       PROVE  \/ invoice'[k] = invoice[k]
              \/ \E b \in bills : KeyOf(b, p) = k /\ invoice'[k] = InvoiceOf(b)
  <2>1. CASE \E b \in bills : KeyOf(b, p) = k
    <3> DEFINE b == CHOOSE b \in bills : KeyOf(b, p) = k
    <3>1. b \in bills /\ KeyOf(b, p) = k
      BY <2>1
    <3>2. invoice'[k] = InvoiceOf(b)
      BY <1>1, <2>1
    <3> HIDE DEF b
    <3> QED BY <3>1, <3>2
  <2>2. CASE ~\E b \in bills : KeyOf(b, p) = k
    BY <1>1, <2>2
  <2> QED BY <2>1, <2>2
<1>12. ASSUME NEW x \in Workers \ {w}, InTransaction(x), PeriodOf(x) = p
       PROVE  worker'[x].stale
  BY <1>2, <1>9, <1>12, OvertakenFacts
<1>13. \A x \in Workers \ {w} : KeepsOn(x)
  BY <1>2, <1>9, KeptByOvertaking
<1>14. Commits(w)
  BY <1>1, <1>4, <1>8, <1>10, <1>11, <1>12, <1>13 DEF Commits, InTransaction, bills
<1>15. \A x \in Workers : WorkerEffect(x)
  BY <1>4, <1>8, <1>13 DEF WorkerEffect
<1> QED BY <1>7, <1>14, <1>15

(***************************************************************************)
(* What any step does                                                      *)
(***************************************************************************)

BooksEffect ==
    \/ invoice' = invoice /\ \A q \in Periods : run'[q] \in TerminalRun <=> run[q] \in TerminalRun
    \/ clock' = clock /\ \E w \in Workers : Commits(w)

StepEffect ==
    /\ TypeOK' /\ Windows' /\ PolicyGrows
    /\ clock <= clock'
    /\ \A x \in Workers : WorkerEffect(x)
    /\ BooksEffect

LEMMA QuietWorkers ==
    ASSUME worker' = worker
    PROVE  \A x \in Workers : WorkerEffect(x)
BY KeptUnchanged DEF WorkerEffect

LEMMA QuietBooks ==
    ASSUME run' = run, invoice' = invoice
    PROVE  BooksEffect
BY DEF BooksEffect

LEMMA QuietTimeline ==
    ASSUME IInv, policy' = policy, resource' = resource
    PROVE  Windows' /\ PolicyGrows
BY PolicyKept DEF IInv, Windows, Started

LEMMA ClockStays ==
    ASSUME IInv, clock' = clock
    PROVE  clock <= clock'
BY ConstantsAssumption DEF IInv, TypeOK, Ticks

LEMMA TimelineEffect ==
    ASSUME IInv, NEW s \in Services, TimelineNext(s)
    PROVE  StepEffect
<1>1. CASE \E t \in Ticks, c \in Cadences : StartInitialUsageBilling(s, c, t)
  <2>1. PICK t \in Ticks, c \in Cadences : StartInitialUsageBilling(s, c, t)
    BY <1>1
  <2>2. TypeOK' /\ Windows' /\ PolicyGrows
    BY <2>1, StartStep
  <2>3. clock' = clock /\ run' = run /\ invoice' = invoice /\ worker' = worker
    BY <2>1 DEF StartInitialUsageBilling, books
  <2> QED BY <2>2, <2>3, QuietWorkers, QuietBooks, ClockStays DEF StepEffect
<1>2. CASE \E t \in Ticks, c \in Cadences : ScheduleServiceBillingCadenceChange(s, c, t)
  <2>1. PICK t \in Ticks, c \in Cadences : ScheduleServiceBillingCadenceChange(s, c, t)
    BY <1>2
  <2>2. TypeOK' /\ Windows' /\ PolicyGrows
    BY <2>1, ScheduleStep
  <2>3. clock' = clock /\ run' = run /\ invoice' = invoice /\ worker' = worker
    BY <2>1 DEF ScheduleServiceBillingCadenceChange, books
  <2> QED BY <2>2, <2>3, QuietWorkers, QuietBooks, ClockStays DEF StepEffect
<1>3. CASE \E t \in Ticks, active \in BOOLEAN :
              RecordProviderConfirmedResourceVersion(s, active, t)
  <2>1. PICK t \in Ticks, active \in BOOLEAN :
              RecordProviderConfirmedResourceVersion(s, active, t)
    BY <1>3
  <2>2. TypeOK' /\ Windows' /\ PolicyGrows
    BY <2>1, RecordStep
  <2>3. clock' = clock /\ run' = run /\ invoice' = invoice /\ worker' = worker
    BY <2>1 DEF RecordProviderConfirmedResourceVersion, books
  <2> QED BY <2>2, <2>3, QuietWorkers, QuietBooks, ClockStays DEF StepEffect
<1>4. CASE ApproveControlledSuspension(s)
  <2>1. TypeOK'
    BY <1>4, ApproveStep
  <2>2. /\ clock' = clock /\ run' = run /\ invoice' = invoice /\ worker' = worker
        /\ policy' = policy /\ resource' = resource
    BY <1>4 DEF ApproveControlledSuspension, books, timeline
  <2> QED BY <2>1, <2>2, QuietWorkers, QuietBooks, QuietTimeline, ClockStays DEF StepEffect
<1> QED BY <1>1, <1>2, <1>3, <1>4 DEF TimelineNext

LEMMA MoneyEffect ==
    ASSUME IInv, MoneyNext
    PROVE  StepEffect
<1>1. TypeOK' /\ \A x \in Workers : KeepsOn(x)
  BY MoveMoneyStep, AdjustmentStep DEF MoneyNext
<1>2. /\ clock' = clock /\ run' = run /\ invoice' = invoice
      /\ policy' = policy /\ resource' = resource
  BY DEF MoneyNext, MoveMoney, ApplyProviderBillingAdjustment, books, timeline
<1> QED BY <1>1, <1>2, QuietBooks, QuietTimeline, ClockStays DEF StepEffect, WorkerEffect

\* The steps of a worker that leave the books alone.
LEMMA WorkEffect ==
    ASSUME IInv, NEW w \in Workers,
           \/ StartCycle(w) \/ ListClosedBillingPeriodsForCatchUp(w) \/ EnqueueExpiredDunning(w)
           \/ BeginSettlement(w) \/ AcquireRunLock(w)
           \/ \E l \in worker[w].lines :
                 MarkInvoiceForReview(w, l) \/ ChargeUsage(w, l) \/ RejectUsage(w, l)
           \/ SerializationFailure(w) \/ TransactionLost(w) \/ Crash(w)
    PROVE  StepEffect
<1>1. TypeOK' /\ \A x \in Workers : WorkerEffect(x)
  BY StartCycleStep, ListStep, DunningStep, BeginStep, AcquireStep, ReviewStep, ChargeStep,
     RejectStep, SerializationFailureStep, TransactionLostStep, CrashStep
<1>2. /\ clock' = clock /\ run' = run /\ invoice' = invoice
      /\ policy' = policy /\ resource' = resource
  BY DEF StartCycle, ListClosedBillingPeriodsForCatchUp, EnqueueExpiredDunning, BeginSettlement,
         AcquireRunLock, MarkInvoiceForReview, ChargeUsage, RejectUsage, Billed, Rejected,
         SerializationFailure, TransactionLost, Crash, books, timeline
<1> QED BY <1>1, <1>2, QuietBooks, QuietTimeline, ClockStays DEF StepEffect

LEMMA RecordsFailureEffect ==
    ASSUME IInv, NEW w \in Workers, RecordBillingRunFailure(w)
    PROVE  StepEffect
<1>1. /\ clock' = clock /\ invoice' = invoice /\ policy' = policy /\ resource' = resource
  BY DEF RecordBillingRunFailure, timeline
<1> QED BY <1>1, FailureStep, QuietTimeline, ClockStays DEF StepEffect, BooksEffect

LEMMA CommitEffect ==
    ASSUME IInv, NEW w \in Workers, CommitSettlement(w)
    PROVE  StepEffect
<1>1. clock' = clock /\ policy' = policy /\ resource' = resource
  BY DEF CommitSettlement, timeline
<1> QED BY <1>1, CommitStep, QuietTimeline, ClockStays DEF StepEffect, BooksEffect

LEMMA TickEffect ==
    ASSUME IInv, Tick
    PROVE  StepEffect
<1>1. /\ run' = run /\ invoice' = invoice /\ worker' = worker
      /\ policy' = policy /\ resource' = resource
  BY DEF Tick, books, timeline
<1>2. clock' = clock + 1 /\ clock \in Nat
  BY TickStep, ConstantsAssumption DEF IInv, TypeOK, Ticks
<1>3. TypeOK' /\ clock <= clock'
  BY <1>2, TickStep
<1> QED BY <1>1, <1>3, QuietWorkers, QuietBooks, QuietTimeline DEF StepEffect

LEMMA StutterEffect ==
    ASSUME IInv, UNCHANGED vars
    PROVE  StepEffect
<1>1. /\ clock' = clock /\ run' = run /\ invoice' = invoice /\ worker' = worker
      /\ policy' = policy /\ resource' = resource
  BY DEF vars, books, timeline
<1>2. TypeOK'
  BY DEF IInv, TypeOK, vars, timeline, books, money
<1> QED BY <1>1, <1>2, QuietWorkers, QuietBooks, QuietTimeline, ClockStays DEF StepEffect

LEMMA AnyStepEffect ==
    ASSUME IInv, [Next]_vars
    PROVE  StepEffect
<1>1. ASSUME NEW w \in Workers, Works(w) \/ TransactionLost(w) \/ Crash(w)
      PROVE  StepEffect
  BY <1>1, WorkEffect, RecordsFailureEffect, CommitEffect DEF Works, Settles
<1> QED BY <1>1, TickEffect, MoneyEffect, TimelineEffect, StutterEffect DEF Next

(***************************************************************************)
(* The invariant                                                           *)
(***************************************************************************)

LEMMA InitInv ==
    ASSUME Init
    PROVE  IInv
<1>1. TypeOK
  <2>1. /\ NoInvoice \in InvoiceRow /\ NoAdjustment \in [amount : Int, settled : Int]
        /\ NoCases \in CaseRow /\ IdleWorker \in WorkerRow
    BY IdleFacts, ConstantsAssumption
       DEF NoInvoice, InvoiceRow, InvoiceStatuses, Ticks, Never, NoAdjustment, NoCases, CaseRow
  <2>2. /\ << >> \in Seq(PolicyRow) /\ << >> \in Seq(VersionRow) /\ Len(<< >>) = 0
        /\ 0 \in Ticks /\ 0 \in 0..MaxPolicies /\ 0 \in 0..MaxMoves /\ 0 \in 0..MaxFaults
        /\ 0 <= MaxPolicies /\ 0 <= MaxVersions /\ Opening \in [Users -> Nat]
    BY ConstantsAssumption DEF Ticks
  <2>3. "NONE" \in RunStatuses
    BY DEF RunStatuses
  <2> QED BY <2>1, <2>2, <2>3 DEF Init, TypeOK
<1>2. Windows
  BY DEF Init, Windows, Started
<1>3. WorkShape
  BY IdleFacts, ConstantsAssumption DEF Init, WorkShape
<1>4. Drafts
  BY IdleFacts DEF Init, Drafts
<1>5. Fresh
  BY IdleFacts DEF Init, Fresh, InTransaction
<1>6. Invoiced
  BY DEF Init, Invoiced, NoInvoice
<1> QED BY <1>1, <1>2, <1>3, <1>4, <1>5, <1>6 DEF IInv

\* A cut comes after now, so it takes nothing from what is about a closed period.
LEMMA InsideKept ==
    ASSUME TypeOK, TypeOK', PolicyGrows, NEW s \in Services, NEW v, NEW p \in Periods,
           NEW from, NEW to \in Int, Inside(s, v, from, to, p), End(p) <= clock
    PROVE  Inside(s, v, from, to, p)'
<1>1. /\ v \in DOMAIN policy[s] /\ policy[s][v].cadence = p[1]
      /\ p[2] <= from /\ policy[s][v].from <= from
      /\ to <= End(p) /\ to <= policy[s][v].to
  BY DEF Inside
<1>2. /\ v \in DOMAIN policy'[s]
      /\ policy'[s][v].cadence = policy[s][v].cadence
      /\ policy'[s][v].from = policy[s][v].from
      /\ policy'[s][v].to = policy[s][v].to \/ policy'[s][v].to > clock
  BY <1>1 DEF PolicyGrows
<1>3. policy'[s][v].to \in Int
  <2>1. policy'[s] \in Seq(PolicyRow)
    BY DEF TypeOK
  <2>2. policy'[s][v] \in PolicyRow
    BY <1>2, <2>1, ElementOfSeq
  <2>3. 0..Never \subseteq Int
    BY ConstantsAssumption DEF Never
  <2> QED BY <2>2, <2>3 DEF PolicyRow
<1>4. clock \in Int /\ End(p) \in Int
  BY PeriodType, ConstantsAssumption DEF TypeOK, Ticks
<1>5. to <= policy'[s][v].to
  BY <1>1, <1>2, <1>3, <1>4
<1> QED BY <1>1, <1>2, <1>5 DEF Inside

LEMMA SamePeriodNext ==
    ASSUME NEW x \in Workers, worker'[x].cadence = worker[x].cadence,
           worker'[x].todo = worker[x].todo
    PROVE  PeriodOf(x)' = PeriodOf(x)
BY DEF PeriodOf

LEMMA WorkShapeStep ==
    ASSUME IInv, StepEffect
    PROVE  WorkShape'
<1> SUFFICES ASSUME NEW x \in Workers
             PROVE  /\ worker'[x].now <= clock'
                    /\ ~InTransaction(x)' => worker'[x].lines = {} /\ worker'[x].bills = {}
                    /\ worker'[x].pc \notin {"idle", "listing", "dunning"} =>
                         /\ worker'[x].todo # {}
                         /\ \A t \in worker'[x].todo :
                               /\ t % Length(worker'[x].cadence) = 0
                               /\ t + Length(worker'[x].cadence) <= worker'[x].now
  BY DEF WorkShape
<1>1. clock \in Int /\ clock' \in Int /\ clock <= clock' /\ WorkShape
  BY ConstantsAssumption DEF StepEffect, IInv, TypeOK, Ticks
<1>2. worker'[x].now \in Int
  BY ConstantsAssumption DEF StepEffect, TypeOK, WorkerRow, Ticks
<1>3. CASE KeepsOn(x)
  <2>1. worker'[x].now <= clock'
    BY <1>1, <1>2, <1>3 DEF KeepsOn, WorkShape
  <2>2. ASSUME ~InTransaction(x)'
        PROVE  worker'[x].lines = {} /\ worker'[x].bills = {}
    <3>1. ~InTransaction(x)
      BY <1>3, <2>2 DEF KeepsOn, InTransaction
    <3>2. worker[x].lines = {} /\ worker[x].bills = {}
      BY <1>1, <3>1 DEF WorkShape
    <3> QED BY <1>3, <3>2 DEF KeepsOn
  <2>3. ASSUME worker'[x].pc \notin {"idle", "listing", "dunning"}
        PROVE  worker[x].pc \notin {"idle", "listing", "dunning"}
    BY <1>3, <2>3 DEF KeepsOn, InTransaction
  <2> QED BY <1>1, <1>3, <2>1, <2>2, <2>3 DEF KeepsOn, WorkShape
<1>4. CASE Outside(worker'[x])
  <2>1. worker'[x].now <= clock'
    BY <1>1, <1>2, <1>4 DEF Outside
  <2> QED BY <1>4, <2>1 DEF Outside
<1>5. CASE Begins(x)
  <2>1. worker'[x].now <= clock'
    BY <1>1, <1>2, <1>5 DEF Begins, WorkShape
  <2>2. InTransaction(x)'
    BY <1>5 DEF Begins, InTransaction
  <2> QED BY <1>1, <1>5, <2>1, <2>2 DEF Begins, WorkShape
<1> QED BY <1>3, <1>4, <1>5 DEF StepEffect, WorkerEffect

LEMMA DraftsStep ==
    ASSUME IInv, StepEffect
    PROVE  Drafts'
<1> SUFFICES ASSUME NEW w \in Workers, NEW y \in worker'[w].lines \cup worker'[w].bills
             PROVE  Inside(y.service, y.policy, y.from, y.to, PeriodOf(w))'
  BY DEF Drafts
<1>1. TypeOK /\ TypeOK' /\ PolicyGrows /\ WorkShape /\ Drafts
  BY DEF IInv, StepEffect
<1>2. \A z \in LineRow \cup BillRow : z.service \in Services /\ z.to \in Int
  BY ConstantsAssumption DEF LineRow, BillRow, Never
<1>3. worker[w].lines \cup worker[w].bills \subseteq LineRow \cup BillRow
  BY <1>1 DEF TypeOK, WorkerRow
<1>4. CASE KeepsOn(w)
  <2>1. PICK z \in worker[w].lines \cup worker[w].bills :
           y.service = z.service /\ y.policy = z.policy /\ y.from = z.from /\ y.to = z.to
    BY <1>4 DEF KeepsOn
  <2>2. worker[w].pc \notin {"idle", "listing", "dunning"}
    BY <1>1, <2>1 DEF WorkShape, InTransaction
  <2>3. PICK p \in Periods : p = PeriodOf(w) /\ End(p) <= clock
    BY <1>1, <2>2, PeriodOfType
  <2>4. Inside(z.service, z.policy, z.from, z.to, p)
    BY <1>1, <2>1, <2>3 DEF Drafts
  <2>5. Inside(z.service, z.policy, z.from, z.to, p)'
    BY <1>1, <1>2, <1>3, <2>1, <2>3, <2>4, InsideKept
  <2>6. PeriodOf(w)' = p
    BY <1>4, <2>3, SamePeriodNext DEF KeepsOn
  <2> QED BY <2>1, <2>5, <2>6 DEF Inside
<1>5. CASE Begins(w)
  <2>1. worker[w].pc = "settling"
    BY <1>5 DEF Begins
  <2>2. PICK p \in Periods : p = PeriodOf(w) /\ End(p) <= clock
    BY <1>1, <2>1, PeriodOfType
  <2>3. PICK x \in LoadSnapshots(p) : y = Line(x[1], x[2], p)
    BY <1>5, <2>2 DEF Begins
  <2>4. /\ y \in LineRow /\ y.service \in Services
        /\ Inside(y.service, y.policy, y.from, y.to, p)
    BY <1>1, <2>3, LineFacts
  <2>5. Inside(y.service, y.policy, y.from, y.to, p)'
    BY <1>1, <1>2, <2>2, <2>4, InsideKept
  <2>6. PeriodOf(w)' = p
    BY <1>5, <2>2, SamePeriodNext DEF Begins
  <2> QED BY <2>5, <2>6 DEF Inside
<1>6. CASE Outside(worker'[w])
  BY <1>6 DEF Outside
<1> QED BY <1>4, <1>5, <1>6 DEF StepEffect, WorkerEffect

LEMMA FreshStep ==
    ASSUME IInv, StepEffect
    PROVE  Fresh'
<1> SUFFICES ASSUME NEW x \in Workers, InTransaction(x)', ~worker'[x].stale
             PROVE  run'[PeriodOf(x)'] \notin TerminalRun
  BY DEF Fresh
<1>1. TypeOK /\ WorkShape /\ Fresh
  BY DEF IInv
<1>2. ~Outside(worker'[x])
  BY DEF Outside, InTransaction
<1>3. KeepsOn(x) \/ Begins(x)
  BY <1>2 DEF StepEffect, WorkerEffect
<1>4. PeriodOf(x)' = PeriodOf(x) /\ worker[x].pc \notin {"idle", "listing", "dunning"}
  BY <1>3, SamePeriodNext DEF KeepsOn, Begins, InTransaction
<1>5. PeriodOf(x) \in Periods
  BY <1>1, <1>4, PeriodOfType
<1>6. run[PeriodOf(x)] \notin TerminalRun
  <2>1. CASE KeepsOn(x)
    <3>1. InTransaction(x) /\ ~worker[x].stale
      BY <2>1 DEF KeepsOn, InTransaction
    <3> QED BY <1>1, <3>1 DEF Fresh
  <2>2. CASE Begins(x)
    BY <2>2 DEF Begins
  <2> QED BY <1>3, <2>1, <2>2
<1>7. CASE \E w \in Workers : Commits(w)
  <2>1. PICK w \in Workers : Commits(w)
    BY <1>7
  <2>2. x # w
    BY <1>2, <2>1 DEF Commits
  <2>3. KeepsOn(x)
    BY <2>1, <2>2 DEF Commits
  <2>4. InTransaction(x)
    BY <2>3 DEF KeepsOn, InTransaction
  <2>5. PeriodOf(x) # PeriodOf(w)
    BY <2>1, <2>2, <2>4 DEF Commits
  <2> QED BY <1>4, <1>5, <1>6, <2>1, <2>5 DEF Commits
<1>8. CASE \A q \in Periods : run'[q] \in TerminalRun <=> run[q] \in TerminalRun
  BY <1>4, <1>5, <1>6, <1>8
<1> QED BY <1>7, <1>8 DEF StepEffect, BooksEffect

LEMMA InvoicedStep ==
    ASSUME IInv, StepEffect
    PROVE  Invoiced'
<1> SUFFICES ASSUME NEW k \in Keys, invoice'[k].status # "ABSENT"
             PROVE  /\ run'[k[3]] \in TerminalRun /\ End(k[3]) <= clock'
                    /\ Inside(k[1], k[2], invoice[k].from, invoice[k].to, k[3])'
  BY DEF Invoiced
<1>1. TypeOK /\ TypeOK' /\ PolicyGrows /\ WorkShape /\ Drafts /\ Invoiced
  BY DEF IInv, StepEffect
<1>2. k[1] \in Services /\ k[3] \in Periods
  BY DEF Keys
<1>3. clock \in Int /\ clock' \in Int /\ clock <= clock' /\ End(k[3]) \in Int
  <2>1. clock \in Int /\ clock' \in Int
    BY <1>1, ConstantsAssumption DEF TypeOK, Ticks
  <2>2. End(k[3]) \in Int
    BY <1>2, PeriodType
  <2> QED BY <2>1, <2>2 DEF StepEffect
<1>4. invoice'[k].to \in Int /\ 0..Never \subseteq Int
  BY <1>1, ConstantsAssumption DEF TypeOK, InvoiceRow, Never
<1>5. CASE invoice'[k] = invoice[k]
  <2>1. /\ run[k[3]] \in TerminalRun /\ End(k[3]) <= clock
        /\ Inside(k[1], k[2], invoice[k].from, invoice[k].to, k[3])
    BY <1>1, <1>5 DEF Invoiced
  <2>2. run'[k[3]] \in TerminalRun
    BY <1>2, <2>1 DEF StepEffect, BooksEffect, Commits
  <2>3. PICK from, to : from = invoice'[k].from /\ to = invoice'[k].to
    OBVIOUS
  <2>4. Inside(k[1], k[2], from, to, k[3])
    BY <1>5, <2>1, <2>3
  <2>5. Inside(k[1], k[2], from, to, k[3])'
    BY <1>1, <1>2, <1>4, <2>1, <2>3, <2>4, InsideKept
  <2> QED BY <1>3, <2>1, <2>2, <2>3, <2>5
<1>6. ASSUME NEW w \in Workers, Commits(w), NEW b \in worker[w].bills,
             KeyOf(b, PeriodOf(w)) = k, invoice'[k] = InvoiceOf(b)
      PROVE  /\ run'[k[3]] \in TerminalRun /\ End(k[3]) <= clock'
             /\ Inside(k[1], k[2], invoice[k].from, invoice[k].to, k[3])'
  <2>1. k = <<b.service, b.policy, PeriodOf(w)>>
    BY <1>6 DEF KeyOf
  <2>2. k[1] = b.service /\ k[2] = b.policy /\ k[3] = PeriodOf(w)
    BY <2>1
  <2>3. invoice'[k].from = b.from /\ invoice'[k].to = b.to
    BY <1>6 DEF InvoiceOf
  <2>4. run'[k[3]] \in TerminalRun
    BY <1>2, <1>6, <2>2 DEF Commits
  <2>5. worker[w].pc \notin {"idle", "listing", "dunning"}
    BY <1>6 DEF Commits, InTransaction
  <2>6. End(k[3]) <= clock
    BY <1>1, <2>2, <2>5, PeriodOfType
  <2>7. Inside(k[1], k[2], b.from, b.to, k[3])
    BY <1>1, <1>6, <2>2 DEF Drafts
  <2>8. Inside(k[1], k[2], b.from, b.to, k[3])'
    BY <1>1, <1>2, <1>4, <2>3, <2>6, <2>7, InsideKept
  <2> QED BY <1>3, <2>3, <2>4, <2>6, <2>8
<1> QED BY <1>5, <1>6 DEF StepEffect, BooksEffect, Commits

LEMMA NextInv ==
    ASSUME IInv, [Next]_vars
    PROVE  IInv'
<1>1. StepEffect
  BY AnyStepEffect
<1>2. TypeOK' /\ Windows'
  BY <1>1 DEF StepEffect
<1> QED BY <1>1, <1>2, WorkShapeStep, DraftsStep, FreshStep, InvoicedStep DEF IInv

\* Types hold, no transaction writes what is not of its period, and an invoice is
\* of a settled, closed period and inside its policy snapshot: in every reachable
\* state.
THEOREM Invariance == Spec => []IInv
<1>1. Init => IInv
  BY InitInv
<1>2. IInv /\ [Next]_vars => IInv'
  BY NextInv
<1> QED BY <1>1, <1>2, PTL DEF Spec

\* Every row keeps its schema's types; in particular no wallet goes below zero.
THEOREM TypeCorrect == Spec => []TypeOK
<1>1. IInv => TypeOK
  BY DEF IInv
<1> QED BY <1>1, Invariance, PTL

(***************************************************************************)
(* The contract                                                            *)
(***************************************************************************)

\* The invoices that charge a tick of a service.
Charging(s, t) ==
    {k \in Keys : /\ k[1] = s /\ invoice[k].status \in SettledInvoice
                  /\ Covers(invoice[k], t)}

\* The policy snapshot and the period of an invoice that charges a tick hold it.
LEMMA ChargeFacts ==
    ASSUME TypeOK, Invoiced, NEW s \in Services, NEW t \in Ticks, NEW k \in Charging(s, t)
    PROVE  /\ k[3] \in Periods /\ k = <<s, k[2], k[3]>>
           /\ k[2] \in 1..Len(policy[s]) /\ policy[s][k[2]].cadence = k[3][1]
           /\ policy[s][k[2]].from \in Int /\ policy[s][k[2]].to \in Int
           /\ policy[s][k[2]].from <= t /\ t < policy[s][k[2]].to
           /\ k[3][2] <= t /\ t < End(k[3])
<1>1. /\ k \in Keys /\ k[1] = s /\ k[3] \in Periods /\ k = <<s, k[2], k[3]>>
      /\ invoice[k].status # "ABSENT" /\ Covers(invoice[k], t)
  BY DEF Charging, Keys, SettledInvoice
<1>2. t \in Int /\ Ticks \subseteq Int /\ 0..Never \subseteq Int
  BY ConstantsAssumption DEF Ticks, Never
<1>3. /\ k[2] \in DOMAIN policy[s] /\ policy[s][k[2]].cadence = k[3][1]
      /\ k[3][2] <= invoice[k].from /\ policy[s][k[2]].from <= invoice[k].from
      /\ invoice[k].to <= End(k[3]) /\ invoice[k].to <= policy[s][k[2]].to
  BY <1>1 DEF Invoiced, Inside
<1>4. /\ invoice[k].from \in Int /\ invoice[k].to \in Int
      /\ invoice[k].from <= t /\ t < invoice[k].to
  <2>1. invoice[k] \in InvoiceRow
    BY <1>1 DEF TypeOK
  <2> QED BY <1>1, <1>2, <2>1 DEF InvoiceRow, Covers
<1>5. k[2] \in 1..Len(policy[s]) /\ policy[s][k[2]] \in PolicyRow
  <2>1. policy[s] \in Seq(PolicyRow)
    BY DEF TypeOK
  <2> QED BY <1>3, <2>1, ElementOfSeq, LenProperties
<1>6. policy[s][k[2]].from \in Int /\ policy[s][k[2]].to \in Int
  BY <1>2, <1>5 DEF PolicyRow
<1>7. policy[s][k[2]].from <= t /\ t < policy[s][k[2]].to
  BY <1>2, <1>3, <1>4, <1>6
<1>8. k[3][2] \in Int /\ End(k[3]) \in Int
  BY <1>1, <1>2, PeriodType
<1>9. k[3][2] <= t /\ t < End(k[3])
  BY <1>2, <1>3, <1>4, <1>8
<1> QED BY <1>1, <1>3, <1>5, <1>6, <1>7, <1>9

\* Two invoices that charge one tick of a service are one.
LEMMA ChargedOnce ==
    ASSUME TypeOK, Windows, Invoiced, NEW s \in Services, NEW t \in Ticks,
           NEW j \in Charging(s, t), NEW k \in Charging(s, t)
    PROVE  j = k
<1>1. t \in Nat
  BY ConstantsAssumption DEF Ticks
<1>2. Len(policy[s]) \in Nat /\ DOMAIN policy[s] = 1..Len(policy[s])
  BY LenProperties DEF TypeOK
<1>3. \A i, n \in 1..Len(policy[s]) : i < n => policy[s][i].to <= policy[s][n].from
  BY <1>2 DEF Windows
<1>4. /\ j[2] \in 1..Len(policy[s]) /\ k[2] \in 1..Len(policy[s])
      /\ policy[s][j[2]].from \in Int /\ policy[s][j[2]].to \in Int
      /\ policy[s][j[2]].from <= t /\ t < policy[s][j[2]].to
      /\ policy[s][k[2]].from \in Int /\ policy[s][k[2]].to \in Int
      /\ policy[s][k[2]].from <= t /\ t < policy[s][k[2]].to
  BY ChargeFacts
<1>5. ~(j[2] < k[2])
  BY <1>1, <1>3, <1>4
<1>6. ~(k[2] < j[2])
  BY <1>1, <1>3, <1>4
<1>7. j[2] = k[2]
  BY <1>2, <1>4, <1>5, <1>6
<1>8. /\ j[3] \in Periods /\ k[3] \in Periods /\ j[3][1] = k[3][1]
      /\ j[3][2] <= t /\ t < End(j[3]) /\ k[3][2] <= t /\ t < End(k[3])
      /\ j = <<s, j[2], j[3]>> /\ k = <<s, k[2], k[3]>>
  BY <1>7, ChargeFacts
<1>9. j[3] = k[3]
  BY <1>1, <1>8, SamePeriod
<1> QED BY <1>7, <1>8, <1>9

\* The same of the next state.
LEMMA ChargedOnceNext ==
    ASSUME NEW s \in Services, NEW t \in Ticks
    PROVE  (TypeOK /\ Windows /\ Invoiced =>
              /\ \A j, k \in Charging(s, t) : j = k
              /\ \A k \in Charging(s, t) : k[3][2] <= t /\ t < End(k[3]))'
<1>1. TypeOK /\ Windows /\ Invoiced =>
        /\ \A j, k \in Charging(s, t) : j = k
        /\ \A k \in Charging(s, t) : k[3][2] <= t /\ t < End(k[3])
  BY ChargedOnce, ChargeFacts
<1> QED BY <1>1, PTL

\* What charges a tick before a commit still does, and a new invoice charges a tick
\* of its period that was not charged.
LEMMA CommitCharges ==
    ASSUME IInv, IInv', NEW w \in Workers, Commits(w), NEW s \in Services, NEW t \in Ticks
    PROVE  \/ Charging(s, t)' = Charging(s, t)
           \/ /\ PeriodOf(w)[2] <= t /\ t < End(PeriodOf(w))
              /\ Charging(s, t) = {} /\ \E k \in Charging(s, t)' : Charging(s, t)' = {k}
<1> DEFINE p == PeriodOf(w)
           old == Charging(s, t)
           new == Charging(s, t)'
<1>1. run[p] \notin TerminalRun
  BY DEF IInv, Fresh, Commits
<1>2. \A k \in Keys : invoice'[k] = invoice[k] \/ k[3] = p
  BY DEF Commits, KeyOf
<1>3. \A k \in old : k[3] # p /\ run[k[3]] \in TerminalRun
  BY <1>1 DEF Charging, IInv, Invoiced, SettledInvoice
<1>4. \A k \in old : k \in new /\ k[3] # p
  BY <1>2, <1>3 DEF Charging
<1>5. /\ \A j, k \in new : j = k
      /\ \A k \in new : k[3][2] <= t /\ t < End(k[3])
  BY ChargedOnceNext DEF IInv
<1>6. CASE \E k \in new : k[3] = p
  <2>1. PICK k \in new : k[3] = p
    BY <1>6
  <2>2. new = {k} /\ old = {}
    BY <1>4, <1>5, <2>1
  <2>3. p[2] <= t /\ t < End(p)
    BY <1>5, <2>1
  <2> QED BY <2>1, <2>2, <2>3
<1>7. CASE ~\E k \in new : k[3] = p
  <2>1. \A k \in new : k \in old
    BY <1>2, <1>7 DEF Charging
  <2> QED BY <1>4, <2>1
<1> QED BY <1>6, <1>7

LEMMA ContractStep ==
    ASSUME IInv, IInv', StepEffect
    PROVE  [Contract!Next]_(Contract!vars)
<1> DEFINE charged == [h \in Services \X Ticks |->
                         {k \in Keys : /\ k[1] = h[1] /\ invoice[k].status \in SettledInvoice
                                       /\ Covers(invoice[k], h[2])}]
           settled == {p \in Periods : run[p] \in TerminalRun}
<1>1. clock \in Int /\ clock' \in Int /\ clock <= clock'
  BY ConstantsAssumption DEF StepEffect, IInv, TypeOK, Ticks
<1>2. CASE invoice' = invoice /\ \A q \in Periods : run'[q] \in TerminalRun <=> run[q] \in TerminalRun
  <2>1. charged' = charged
    BY <1>2
  <2>2. settled' = settled
    BY <1>2
  <2>3. CASE clock' = clock
    BY <2>1, <2>2, <2>3 DEF Contract!vars
  <2>4. CASE clock' > clock
    BY <2>1, <2>2, <2>4 DEF Contract!Next, Contract!Pass
  <2> QED BY <1>1, <2>3, <2>4
<1>3. ASSUME NEW w \in Workers, Commits(w), clock' = clock
      PROVE  Contract!Next
  <2>1. worker[w].pc \notin {"idle", "listing", "dunning"}
    BY <1>3 DEF Commits, InTransaction
  <2>2. PICK p \in Periods : p = PeriodOf(w)
    BY <2>1, PeriodOfType DEF IInv
  <2>3. End(p) <= clock
    BY <2>1, <2>2, PeriodOfType DEF IInv
  <2>4. run[p] \notin TerminalRun
    BY <1>3, <2>2 DEF IInv, Fresh, Commits
  <2>5. settled' = settled \cup {p}
    BY <1>3, <2>2 DEF Commits
  <2>6. ASSUME NEW h \in Services \X Ticks
        PROVE  \/ charged'[h] = charged[h]
               \/ /\ p[2] <= h[2] /\ h[2] < End(p)
                  /\ charged[h] = {} /\ \E k \in charged'[h] : charged'[h] = {k}
    <3>1. h[1] \in Services /\ h[2] \in Ticks
      OBVIOUS
    <3>2. PICK s \in Services, t \in Ticks : s = h[1] /\ t = h[2]
      BY <3>1
    <3>3. charged[h] = Charging(s, t)
      BY <3>2 DEF Charging
    <3>4. charged'[h] = Charging(s, t)'
      BY <3>2 DEF Charging
    <3>5. \/ Charging(s, t)' = Charging(s, t)
          \/ /\ PeriodOf(w)[2] <= t /\ t < End(PeriodOf(w))
             /\ Charging(s, t) = {} /\ \E k \in Charging(s, t)' : Charging(s, t)' = {k}
      BY <1>3, CommitCharges
    <3> HIDE DEF charged
    <3> QED BY <2>2, <3>2, <3>3, <3>4, <3>5
  <2>7. p \notin settled
    BY <2>4
  <2>8. charged' = [h \in Services \X Ticks |-> charged'[h]]
    OBVIOUS
  <2>9. Contract!Settle(p)
    BY <1>3, <2>3, <2>5, <2>6, <2>7, <2>8 DEF Contract!Settle, Contract!Hours, Contract!Within
  <2> QED BY <2>9 DEF Contract!Next
<1> QED BY <1>2, <1>3 DEF StepEffect, BooksEffect

\* An hour of a service is charged by at most one invoice, written when a period that
\* is over settles, and no invoice changes: BillingRuns implements BillingContract.
THEOREM BillingImplementsContract == Spec => ImplementsContract
<1>1. Init => Contract!Init
  <2> SUFFICES ASSUME Init PROVE Contract!Init
    OBVIOUS
  <2>1. \A k \in Keys : invoice[k].status \notin SettledInvoice
    BY DEF Init, NoInvoice, SettledInvoice
  <2>2. \A p \in Periods : run[p] \notin TerminalRun
    BY DEF Init, TerminalRun
  <2>3. clock = 0
    BY DEF Init
  <2> QED BY <2>1, <2>2, <2>3 DEF Contract!Init, Contract!Hours
<1>2. IInv /\ IInv' /\ [Next]_vars => [Contract!Next]_(Contract!vars)
  BY AnyStepEffect, ContractStep
<1> QED BY <1>1, <1>2, Invariance, PTL DEF Spec, ImplementsContract, Contract!Spec
===============================================================================
