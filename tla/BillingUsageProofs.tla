--------------------------- MODULE BillingUsageProofs ---------------------------
(***************************************************************************)
(* That usage billing charges what was used, for any number of services,   *)
(* policies, resource versions and workers.                                *)
(*                                                                         *)
(* The usage intervals of a service are exactly the spans its policy       *)
(* snapshots and its resource versions have in common, and each of the two *)
(* sequences follows on without a gap.  Nothing a step records changes the *)
(* past of a service, late confirmations excepted, so a period that closed *)
(* is charged what its timeline says for good, in order of the periods,    *)
(* and a suspension follows an invoice whose grace is over.                *)
(***************************************************************************)
EXTENDS BillingRunsProofs

(***************************************************************************)
(* Rows that follow one another                                            *)
(***************************************************************************)

\* The rows follow on from one another, and the last one is open.
Chain(rows) ==
    /\ rows # << >> => rows[Len(rows)].to = Never
    /\ \A i \in DOMAIN rows : rows[i].from < rows[i].to
    /\ \A i \in DOMAIN rows : i + 1 \in DOMAIN rows => rows[i].to = rows[i + 1].from
    /\ \A i, j \in DOMAIN rows : i < j => rows[i].to <= rows[j].from

\* The spans of more are those of rows with the last one cut at t and another one
\* from t on.
Extends(rows, more, t) ==
    /\ Len(more) = Len(rows) + 1
    /\ \A i \in 1..Len(rows) : i # Len(rows) => more[i] = rows[i]
    /\ more[Len(rows)].from = rows[Len(rows)].from /\ more[Len(rows)].to = t
    /\ more[Len(rows) + 1].from = t /\ more[Len(rows) + 1].to = Never

\* A span of rows: PolicyRow and VersionRow are two of them.
SpanRow(Row) == \A x \in Row : x.from \in Ticks /\ x.to \in 0..Never

LEMMA Spans == SpanRow(PolicyRow) /\ SpanRow(VersionRow)
BY DEF SpanRow, PolicyRow, VersionRow

LEMMA Moments ==
    /\ Ticks \subseteq Nat /\ 0..Never \subseteq Nat /\ Never \in Nat /\ Horizon \in Nat
    /\ \A t \in Ticks : t < Never
    /\ \A t \in 0..Never : t <= Never
<1>1. Horizon \in Nat /\ Never \in Nat
  BY ConstantsAssumption DEF Never
<1>2. \A t \in Ticks : t < Never
  BY <1>1 DEF Ticks, Never
<1> QED BY <1>1, <1>2 DEF Ticks

\* The rows of a sequence, as numbers.
LEMMA RowFacts ==
    ASSUME NEW Row, SpanRow(Row), NEW rows \in Seq(Row)
    PROVE  /\ Len(rows) \in Nat /\ DOMAIN rows = 1..Len(rows)
           /\ rows # << >> => Len(rows) \in 1..Len(rows) /\ 1 \in 1..Len(rows)
           /\ \A i \in 1..Len(rows) :
                 /\ rows[i] \in Row /\ rows[i].from \in Ticks /\ rows[i].to \in 0..Never
                 /\ rows[i].from \in Nat /\ rows[i].to \in Nat
<1>1. Len(rows) \in Nat /\ DOMAIN rows = 1..Len(rows)
  BY LenProperties
<1>2. rows # << >> => Len(rows) # 0
  BY EmptySeq
<1>3. \A i \in 1..Len(rows) : rows[i] \in Row
  BY <1>1, ElementOfSeq
<1>4. \A i \in 1..Len(rows) : rows[i].from \in Ticks /\ rows[i].to \in 0..Never
  BY <1>3 DEF SpanRow
<1>5. rows # << >> => Len(rows) \in 1..Len(rows) /\ 1 \in 1..Len(rows)
  BY <1>1, <1>2
<1> QED BY <1>1, <1>3, <1>4, <1>5, Moments

LEMMA VersionMoments ==
    ASSUME NEW rows \in Seq(VersionRow)
    PROVE  \A i \in 1..Len(rows) : rows[i].from \in Nat /\ rows[i].to \in Nat
BY Spans, RowFacts

\* Appending after a cut is such an extension.
LEMMA AppendExtends ==
    ASSUME NEW Row, NEW rows \in Seq(Row), rows # << >>, NEW t, NEW next \in Row,
           NEW cut \in Row, cut.from = rows[Len(rows)].from, cut.to = t,
           next.from = t, next.to = Never,
           NEW more, more = Append([rows EXCEPT ![Len(rows)] = cut], next)
    PROVE  more \in Seq(Row) /\ Extends(rows, more, t)
<1> DEFINE n == Len(rows)
           old == [rows EXCEPT ![n] = cut]
<1>1. n \in Nat /\ n \in 1..n /\ DOMAIN rows = 1..n
  BY EmptySeq, LenProperties
<1>2. old \in Seq(Row) /\ Len(old) = n /\ \A i \in 1..n : old[i] = IF i = n THEN cut ELSE rows[i]
  BY <1>1, ExceptSeq
<1>3. more = Append(old, next)
  OBVIOUS
<1> HIDE DEF old
<1>4. /\ more \in Seq(Row) /\ Len(more) = n + 1 /\ more[n + 1] = next
      /\ \A i \in 1..n : more[i] = old[i]
  BY <1>2, <1>3, AppendProperties
<1>5. \A i \in 1..n : more[i] = IF i = n THEN cut ELSE rows[i]
  BY <1>2, <1>4
<1>6. Extends(rows, more, t)
  BY <1>1, <1>4, <1>5 DEF Extends
<1> QED BY <1>4, <1>6

LEMMA ChainFacts ==
    ASSUME NEW Row, SpanRow(Row), NEW rows \in Seq(Row), rows # << >>, Chain(rows)
    PROVE  /\ Len(rows) \in Nat /\ Len(rows) \in 1..Len(rows) /\ 1 \in 1..Len(rows)
           /\ DOMAIN rows = 1..Len(rows)
           /\ \A i \in 1..Len(rows) :
                 /\ rows[i] \in Row /\ rows[i].from \in Ticks /\ rows[i].to \in 0..Never
                 /\ rows[i].from \in Nat /\ rows[i].to \in Nat
           /\ rows[Len(rows)].to = Never
           /\ \A i \in 1..Len(rows) : rows[i].from < rows[i].to
           /\ \A i \in 1..Len(rows) : i + 1 \in 1..Len(rows) => rows[i].to = rows[i + 1].from
           /\ \A i, j \in 1..Len(rows) : i < j => rows[i].to <= rows[j].from
BY RowFacts DEF Chain

LEMMA ExtendedChain ==
    ASSUME NEW Row, SpanRow(Row), NEW rows \in Seq(Row), rows # << >>, Chain(rows),
           NEW more \in Seq(Row), NEW t \in Ticks, Extends(rows, more, t),
           rows[Len(rows)].from < t
    PROVE  /\ Chain(more)
           /\ \A i \in 1..Len(rows) : more[i].from = rows[i].from
           /\ \A i \in 1..Len(rows) : i # Len(rows) => more[i].to = rows[i].to
           /\ more[Len(rows)].to = t
<1>1. PICK n \in Nat : n = Len(rows)
  BY RowFacts
<1>2. /\ n \in 1..n /\ 1 \in 1..n /\ DOMAIN rows = 1..n
      /\ \A i \in 1..n : rows[i].from \in Nat /\ rows[i].to \in Nat /\ rows[i] \in Row
      /\ \A i \in 1..n : rows[i].from < rows[i].to
      /\ \A i \in 1..n : i + 1 \in 1..n => rows[i].to = rows[i + 1].from
      /\ \A i, j \in 1..n : i < j => rows[i].to <= rows[j].from
  BY <1>1, ChainFacts
<1>3. DOMAIN more = 1..(n + 1) /\ Len(more) = n + 1
  BY <1>1, RowFacts DEF Extends
<1>4. \A i \in 1..(n + 1) : more[i].from \in Nat /\ more[i].to \in Nat /\ more[i] \in Row
  BY <1>3, RowFacts
<1>5. \A i \in 1..n : i # n => more[i] = rows[i]
  BY <1>1 DEF Extends
<1>6. more[n].to = t /\ more[n].from = rows[n].from
  BY <1>1 DEF Extends
<1>7. more[n + 1].from = t /\ more[n + 1].to = Never /\ t < Never /\ t \in Nat /\ Never \in Nat
  BY <1>1, Moments DEF Extends
<1>8. \A i \in 1..n : more[i].from = rows[i].from
  BY <1>5, <1>6
<1>9. \A i \in 1..(n + 1) : i \in 1..n \/ i = n + 1
  OBVIOUS
<1>10. ASSUME NEW i \in 1..(n + 1)
       PROVE  more[i].from < more[i].to
  <2>1. CASE i = n + 1
    BY <1>7, <2>1
  <2>2. CASE i = n
    BY <1>1, <1>6, <1>7, <2>2
  <2>3. CASE i \in 1..n /\ i # n
    BY <1>2, <1>5, <2>3
  <2> QED BY <1>9, <2>1, <2>2, <2>3
<1>11. ASSUME NEW i \in 1..(n + 1), i + 1 \in 1..(n + 1)
       PROVE  more[i].to = more[i + 1].from
  <2>1. CASE i = n
    BY <1>6, <1>7, <2>1
  <2>2. CASE i # n
    <3>1. i \in 1..n /\ i + 1 \in 1..n
      BY <1>11, <2>2
    <3>2. rows[i].to = rows[i + 1].from
      BY <1>2, <3>1
    <3> QED BY <1>5, <1>8, <2>2, <3>1, <3>2
  <2> QED BY <2>1, <2>2
<1>12. ASSUME NEW i \in 1..(n + 1), NEW j \in 1..(n + 1), i < j
       PROVE  more[i].to <= more[j].from
  <2>1. i \in 1..n
    BY <1>12
  <2>2. CASE j = n + 1 /\ i = n
    BY <1>6, <1>7, <2>2
  <2>3. CASE j = n + 1 /\ i # n
    <3>1. i < n
      BY <2>1, <2>3
    <3>2. more[i].to = rows[i].to /\ rows[i].to <= rows[n].from
      BY <1>2, <1>5, <2>1, <2>3, <3>1
    <3> QED BY <1>1, <1>2, <1>7, <2>1, <2>3, <3>2
  <2>4. CASE j # n + 1
    <3>1. i # n /\ j \in 1..n
      BY <1>12, <2>4
    <3>2. rows[i].to <= rows[j].from
      BY <1>2, <1>12, <2>1, <3>1
    <3> QED BY <1>5, <1>8, <2>1, <3>1, <3>2
  <2> QED BY <2>2, <2>3, <2>4
<1>13. Chain(more)
  BY <1>3, <1>7, <1>10, <1>11, <1>12 DEF Chain
<1> QED BY <1>1, <1>5, <1>6, <1>8, <1>13

LEMMA VersionsExtended ==
    ASSUME NEW R \in Seq(VersionRow), R # << >>, Chain(R), NEW t \in Ticks,
           NEW R2 \in Seq(VersionRow), Extends(R, R2, t), R[Len(R)].from < t
    PROVE  /\ \A i \in 1..Len(R) : R2[i].from = R[i].from
           /\ \A i \in 1..Len(R) : i # Len(R) => R2[i].to = R[i].to
           /\ R2[Len(R)].to = t
BY Spans, ExtendedChain

\* No two rows share a moment.
LEMMA OneCovers ==
    ASSUME NEW Row, SpanRow(Row), NEW rows \in Seq(Row), Chain(rows), NEW t \in Nat,
           NEW x \in Matching(rows, t), NEW y \in Matching(rows, t)
    PROVE  x = y
<1>1. PICK n \in Nat : n = Len(rows)
  BY RowFacts
<1>2. /\ DOMAIN rows = 1..n
      /\ \A i \in 1..n : rows[i].from \in Nat /\ rows[i].to \in Nat
      /\ \A i, j \in 1..n : i < j => rows[i].to <= rows[j].from
  BY <1>1, RowFacts DEF Chain
<1>3. /\ x \in 1..n /\ rows[x].from <= t /\ t < rows[x].to
      /\ y \in 1..n /\ rows[y].from <= t /\ t < rows[y].to
  BY <1>2 DEF Matching, Covers
<1>4. \A i, j \in 1..n : rows[i].from <= t /\ t < rows[i].to /\ rows[j].from <= t /\ t < rows[j].to
                          => ~(i < j)
  <2> SUFFICES ASSUME NEW i \in 1..n, NEW j \in 1..n, rows[j].from <= t, t < rows[i].to, i < j
               PROVE  FALSE
    OBVIOUS
  <2>1. rows[i].to <= rows[j].from /\ rows[i].to \in Nat /\ rows[j].from \in Nat
    BY <1>2
  <2> QED BY <2>1
<1>5. ~(x < y) /\ ~(y < x)
  BY <1>3, <1>4
<1> QED BY <1>3, <1>5

\* From the first row on each moment has one row.
LEMMA ChainCovers ==
    ASSUME NEW Row, SpanRow(Row), NEW rows \in Seq(Row), rows # << >>, Chain(rows),
           NEW t \in Ticks, rows[1].from <= t
    PROVE  \E v \in DOMAIN rows : Matching(rows, t) = {v}
<1>1. PICK n \in Nat : n = Len(rows)
  BY RowFacts
<1>2. /\ n \in 1..n /\ 1 \in 1..n /\ DOMAIN rows = 1..n
      /\ \A i \in 1..n : rows[i].from \in Nat /\ rows[i].to \in Nat
      /\ rows[n].to = Never
      /\ \A i \in 1..n : i + 1 \in 1..n => rows[i].to = rows[i + 1].from
      /\ \A i, j \in 1..n : i < j => rows[i].to <= rows[j].from
  BY <1>1, ChainFacts
<1>3. t \in Nat /\ t < Never
  BY Moments
<1> DEFINE S == {i \in 1..n : t < rows[i].to}
<1>4. n \in S /\ S \in SUBSET Nat
  BY <1>2, <1>3
<1>5. PICK v \in S : \A x \in S : v <= x
  <2> HIDE DEF S
  <2> QED BY <1>4, LeastExists
<1>6. rows[v].from <= t
  <2>1. CASE v = 1
    BY <2>1
  <2>2. CASE v # 1
    <3>1. v - 1 \in 1..n /\ (v - 1) + 1 = v /\ ~(v <= v - 1)
      BY <2>2
    <3>2. v - 1 \notin S
      BY <1>5, <3>1
    <3>3. rows[v - 1].to = rows[v].from
      BY <1>2, <3>1
    <3> QED BY <1>2, <1>3, <3>1, <3>2, <3>3
  <2> QED BY <2>1, <2>2
<1>7. v \in Matching(rows, t)
  BY <1>2, <1>6 DEF Matching, Covers
<1>8. ASSUME NEW x \in Matching(rows, t)
      PROVE  x = v
  BY <1>3, <1>7, <1>8, OneCovers
<1> QED BY <1>2, <1>7, <1>8
(***************************************************************************)
(* What two chains share                                                   *)
(***************************************************************************)

\* The interval of policy snapshot v and resource version r of rows P and R.
Shared(P, R, v, r) ==
    [policy |-> v, resource |-> r,
     from |-> Later(P[v].from, R[r].from), to |-> Earlier(P[v].to, R[r].to)]

SharedSpans(P, R) ==
    {i \in {Shared(P, R, v, r) : v \in DOMAIN P, r \in DOMAIN R} : i.from < i.to}

\* An end that is applied twice is applied once.
LEMMA EarlierOnce ==
    ASSUME NEW a \in Nat, NEW b \in Nat, NEW c \in Nat, a <= b
    PROVE  Earlier(Earlier(a, Earlier(b, c)), c) = Earlier(a, c)
BY DEF Earlier

\* What overlaps a window overlaps what the window is inside of.
LEMMA WiderOverlaps ==
    ASSUME NEW a \in Nat, NEW b \in Nat, NEW p \in Nat, NEW q \in Nat, p <= a, b <= q,
           NEW f \in Nat, NEW g \in Nat, Later(a, f) < Earlier(b, g)
    PROVE  Later(p, f) < Earlier(q, g)
BY DEF Later, Earlier

LEMMA SharedFacts ==
    ASSUME NEW P, NEW R, NEW v, NEW r,
           P[v].from \in Nat, P[v].to \in Nat, R[r].from \in Nat, R[r].to \in Nat
    PROVE  LET i == Shared(P, R, v, r)
           IN  /\ i.policy = v /\ i.resource = r /\ i.from \in Nat /\ i.to \in Nat
               /\ i.from = IF P[v].from < R[r].from THEN R[r].from ELSE P[v].from
               /\ i.to = IF P[v].to < R[r].to THEN P[v].to ELSE R[r].to
BY DEF Shared, Later, Earlier

\* What a new version does to one interval.
LEMMA SplitSpan ==
    ASSUME NEW P \in Seq(PolicyRow), Chain(P), NEW R \in Seq(VersionRow), R # << >>, Chain(R),
           NEW R2 \in Seq(VersionRow), NEW t \in Ticks, Extends(R, R2, t), R[Len(R)].from < t,
           NEW r, r = Len(R) + 1, NEW x \in DOMAIN P, NEW y \in DOMAIN R,
           NEW c, c = Shared(P, R, x, y), c.from < c.to
    PROVE  /\ y # Len(R) => SplitAt(c, r, t) = Shared(P, R2, x, y)
           /\ y = Len(R) /\ P[x].from >= t => SplitAt(c, r, t) = Shared(P, R2, x, r)
           /\ y = Len(R) /\ P[x].from < t => SplitAt(c, r, t) = Shared(P, R2, x, y)
           /\ SplitAt(c, r, t) \in SharedSpans(P, R2)
<1>1. PICK m \in Nat : m = Len(R) /\ m \in 1..m /\ DOMAIN R = 1..m
  BY Spans, ChainFacts
<1>2. /\ R[y].from \in Nat /\ R[y].to \in Nat /\ y \in 1..m /\ R[m].to = Never
      /\ R[m].from \in Nat
  <2>1. y \in 1..m
    BY <1>1
  <2>2. \A i \in 1..Len(R) : R[i].from \in Nat /\ R[i].to \in Nat
    BY VersionMoments
  <2>3. R[Len(R)].to = Never
    BY DEF Chain
  <2> QED BY <1>1, <2>1, <2>2, <2>3
<1>3. x \in DOMAIN P /\ P[x].from \in Nat /\ P[x].to \in 0..Never /\ P[x].to \in Nat
  BY Spans, RowFacts
<1>4. DOMAIN R2 = 1..(m + 1)
  BY <1>1, Spans, RowFacts DEF Extends
<1>5. /\ R2[y].from = R[y].from
      /\ y # m => R2[y].to = R[y].to
      /\ R2[m].to = t
  BY <1>1, <1>2, VersionsExtended
<1>6. R2[r].from = t /\ R2[r].to = Never
  BY <1>1 DEF Extends
<1>7. t \in Nat /\ Never \in Nat /\ t < Never /\ P[x].to <= Never
  BY <1>3, Moments
<1>8. /\ c = [policy |-> x, resource |-> y, from |-> c.from, to |-> c.to]
      /\ c.from = IF P[x].from < R[y].from THEN R[y].from ELSE P[x].from
      /\ c.to = IF P[x].to < R[y].to THEN P[x].to ELSE R[y].to
      /\ c.from \in Nat /\ c.to \in Nat
  BY <1>2, <1>3 DEF Shared, Later, Earlier
<1>9. PICK a \in Nat, b \in Nat : a = c.from /\ b = c.to
  BY <1>8
<1>10. c = [policy |-> x, resource |-> y, from |-> a, to |-> b] /\ a < b
  BY <1>8, <1>9
<1>11. CASE y # m
  <2>1. SplitAt(c, r, t) = c
    <3>1. c.resource = y /\ r - 1 = m
      BY <1>1, <1>10
    <3> QED BY <1>11, <3>1 DEF SplitAt
  <2>2. c = Shared(P, R2, x, y)
    BY <1>5, <1>11 DEF Shared
  <2>3. c \in SharedSpans(P, R2)
    BY <1>2, <1>4, <2>2 DEF SharedSpans
  <2> QED BY <1>1, <1>11, <2>1, <2>2, <2>3
<1>12. CASE y = m /\ P[x].from >= t
  <2>1. a = P[x].from /\ b = P[x].to
    BY <1>2, <1>3, <1>7, <1>8, <1>9, <1>12, <1>1
  <2>2. SplitAt(c, r, t) = [policy |-> x, resource |-> r, from |-> a, to |-> b]
    <3>1. c.resource = y /\ c.from = a
      BY <1>10
    <3>2. y = r - 1 /\ a >= t
      BY <1>1, <1>12, <2>1
    <3>3. [c EXCEPT !.resource = r] = [policy |-> x, resource |-> r, from |-> a, to |-> b]
      <4>1. c = [policy |-> x, resource |-> y, from |-> a, to |-> b]
        BY <1>10
      <4> QED BY ONLY <4>1
    <3> QED BY <3>1, <3>2, <3>3 DEF SplitAt
  <2>3. Later(P[x].from, R2[r].from) = a /\ Earlier(P[x].to, R2[r].to) = b
    <3>1. t \in Nat /\ a >= t /\ Never \in Nat /\ b <= Never
      BY <1>3, <1>7, <1>12, <2>1
    <3>2. R2[r].from = t /\ R2[r].to = Never
      BY <1>6
    <3>3. Later(a, t) = a /\ Earlier(b, Never) = b
      BY <3>1 DEF Later, Earlier
    <3> QED BY <2>1, <3>2, <3>3
  <2>4. SplitAt(c, r, t) = Shared(P, R2, x, r)
    BY <2>2, <2>3 DEF Shared
  <2>5. SplitAt(c, r, t).from < SplitAt(c, r, t).to
    BY <1>10, <2>2
  <2>6. SplitAt(c, r, t) \in SharedSpans(P, R2)
    BY <1>1, <1>4, <2>4, <2>5 DEF SharedSpans
  <2> QED BY <1>1, <1>3, <1>7, <1>12, <2>4, <2>6
<1>13. CASE y = m /\ P[x].from < t
  <2>1. a < t /\ b = P[x].to
    BY <1>1, <1>2, <1>3, <1>7, <1>8, <1>9, <1>13
  <2>2. SplitAt(c, r, t) = [policy |-> x, resource |-> y, from |-> a,
                            to |-> IF b > t THEN t ELSE b]
    <3>1. c.resource = y /\ c.from = a /\ c.to = b
      BY <1>10
    <3>2. y = r - 1 /\ ~(a >= t)
      BY <1>1, <1>7, <1>13, <2>1
    <3>3. [c EXCEPT !.to = t] = [policy |-> x, resource |-> y, from |-> a, to |-> t]
      BY <1>10
    <3> QED BY <1>10, <3>1, <3>2, <3>3 DEF SplitAt
  <2>3. /\ Later(P[x].from, R2[y].from) = a
        /\ Earlier(P[x].to, R2[y].to) = IF b > t THEN t ELSE b
    <3>1. Later(P[x].from, R2[y].from) = a
      BY <1>5, <1>8, <1>9 DEF Later
    <3>2. Earlier(P[x].to, R2[y].to) = IF b > t THEN t ELSE b
      <4>1. R2[y].to = t
        BY <1>5, <1>13
      <4>2. Earlier(b, t) = IF b > t THEN t ELSE b
        BY <1>7, <1>9 DEF Earlier
      <4> QED BY <2>1, <4>1, <4>2
    <3> QED BY <3>1, <3>2
  <2>4. SplitAt(c, r, t) = Shared(P, R2, x, y)
    BY <2>2, <2>3 DEF Shared
  <2>5. SplitAt(c, r, t).from < SplitAt(c, r, t).to
    BY <1>10, <2>1, <2>2
  <2>6. SplitAt(c, r, t) \in SharedSpans(P, R2)
    BY <1>2, <1>4, <2>4, <2>5 DEF SharedSpans
  <2> QED BY <1>1, <1>3, <1>7, <1>13, <2>4, <2>6
<1> QED BY <1>1, <1>3, <1>7, <1>11, <1>12, <1>13

\* What confirming version r from t on, in policy snapshot v that ends at to, makes
\* of the usage intervals.
Versioned(spans, v, to, r, t) ==
    LET split == {SplitAt(i, r, t) : i \in spans}
        next == [policy |-> v, resource |-> r, from |-> t, to |-> to]
    IN  split \cup (IF \E i \in split : i.resource = r /\ i.policy = v /\ Covers(i, t)
                    THEN {} ELSE {next})

\* A new version splits the shared spans as the code splits the usage intervals.
LEMMA CutResource ==
    ASSUME NEW P \in Seq(PolicyRow), Chain(P), NEW R \in Seq(VersionRow), R # << >>, Chain(R),
           NEW R2 \in Seq(VersionRow), NEW t \in Ticks, Extends(R, R2, t), R[Len(R)].from < t,
           NEW v \in DOMAIN P, Covers(P[v], t)
    PROVE  SharedSpans(P, R2) = Versioned(SharedSpans(P, R), v, P[v].to, Len(R) + 1, t)
<1>1. PICK r, split, next :
         /\ r = Len(R) + 1 /\ split = {SplitAt(i, r, t) : i \in SharedSpans(P, R)}
         /\ next = [policy |-> v, resource |-> r, from |-> t, to |-> P[v].to]
  OBVIOUS
<1>2. PICK m \in Nat : m = Len(R) /\ m \in 1..m /\ DOMAIN R = 1..m
  BY Spans, ChainFacts
<1>3. /\ \A y \in 1..m : R[y].from \in Nat /\ R[y].to \in Nat
      /\ \A y \in 1..m : y # m => R[y].to <= R[m].from
      /\ R[m].to = Never /\ R[m].from < t
  <2>1. \A i, j \in 1..m : i < j => R[i].to <= R[j].from
    BY <1>2, Spans, ChainFacts
  <2>2. \A y \in 1..m : y # m => y < m
    BY <1>2
  <2> QED BY <1>2, <2>1, <2>2, Spans, ChainFacts
<1>4. \A x \in DOMAIN P : P[x].from \in Nat /\ P[x].to \in Nat /\ P[x].to <= Never
  BY Spans, RowFacts, Moments
<1>5. DOMAIN R2 = 1..(m + 1) /\ r = m + 1 /\ r \in 1..(m + 1) /\ r \notin 1..m
  BY <1>1, <1>2, Spans, RowFacts DEF Extends
<1>6. /\ \A y \in 1..m : R2[y].from = R[y].from
      /\ \A y \in 1..m : y # m => R2[y].to = R[y].to
      /\ R2[m].to = t /\ R2[r].from = t /\ R2[r].to = Never
  BY <1>1, <1>2, Spans, ExtendedChain DEF Extends
<1>7. t \in Nat /\ Never \in Nat /\ t < Never
  BY Moments
<1>8. P[v].from <= t /\ t < P[v].to
  BY DEF Covers
<1>9. ASSUME NEW x \in DOMAIN P, NEW y \in 1..m, NEW c, c = Shared(P, R, x, y), c.from < c.to
      PROVE  /\ y # m => SplitAt(c, r, t) = Shared(P, R2, x, y)
             /\ y = m /\ P[x].from >= t => SplitAt(c, r, t) = Shared(P, R2, x, r)
             /\ y = m /\ P[x].from < t => SplitAt(c, r, t) = Shared(P, R2, x, y)
             /\ SplitAt(c, r, t) \in SharedSpans(P, R2)
             /\ c \in SharedSpans(P, R) /\ SplitAt(c, r, t) \in split
  <2>1. c \in SharedSpans(P, R)
    BY <1>2, <1>9 DEF SharedSpans
  <2>2. y \in DOMAIN R /\ r = Len(R) + 1
    BY <1>1, <1>2
  <2>3. /\ y # Len(R) => SplitAt(c, r, t) = Shared(P, R2, x, y)
        /\ y = Len(R) /\ P[x].from >= t => SplitAt(c, r, t) = Shared(P, R2, x, r)
        /\ y = Len(R) /\ P[x].from < t => SplitAt(c, r, t) = Shared(P, R2, x, y)
        /\ SplitAt(c, r, t) \in SharedSpans(P, R2)
    BY <1>9, <2>2, SplitSpan
  <2> QED BY <1>1, <1>2, <2>1, <2>3
<1>10. split \subseteq SharedSpans(P, R2)
  <2> SUFFICES ASSUME NEW i \in SharedSpans(P, R) PROVE SplitAt(i, r, t) \in SharedSpans(P, R2)
    BY <1>1
  <2>1. PICK x \in DOMAIN P, y \in 1..m : i = Shared(P, R, x, y) /\ i.from < i.to
    BY <1>2 DEF SharedSpans
  <2> QED BY <1>9, <2>1
<1>11. next \in SharedSpans(P, R2)
  <2>1. Later(P[v].from, R2[r].from) = t /\ Earlier(P[v].to, R2[r].to) = P[v].to
    BY <1>4, <1>6, <1>7, <1>8 DEF Later, Earlier
  <2>2. next = Shared(P, R2, v, r)
    BY <1>1, <2>1 DEF Shared
  <2>3. next.from < next.to
    BY <1>1, <1>8
  <2> QED BY <1>5, <2>2, <2>3 DEF SharedSpans
\* An interval of the new version that no split gives is the next one, alone.
<1>12. ASSUME NEW i \in SharedSpans(P, R2), i \notin split
       PROVE  i = next /\ P[v].from < t
  <2>1. PICK x \in DOMAIN P, y \in 1..(m + 1) : i = Shared(P, R2, x, y) /\ i.from < i.to
    BY <1>5 DEF SharedSpans
  <2>2. P[x].from \in Nat /\ P[x].to \in Nat /\ P[x].to <= Never
    BY <1>4
  <2>3. CASE y \in 1..m /\ y # m
    <3>1. i = Shared(P, R, x, y)
      BY <1>6, <2>1, <2>3 DEF Shared
    <3>2. SplitAt(i, r, t) = Shared(P, R2, x, y) /\ SplitAt(i, r, t) \in split
      BY <1>9, <2>1, <2>3, <3>1
    <3> QED BY <1>12, <2>1, <3>2
  <2>4. CASE y = m
    <3> DEFINE c == Shared(P, R, x, m)
    <3>1. /\ R[m].from \in Nat /\ R[m].to = Never
          /\ R2[m].from = R[m].from /\ R2[m].to = t
      BY <1>2, <1>3, <1>6
    <3>2. /\ i.from = (IF P[x].from < R[m].from THEN R[m].from ELSE P[x].from)
          /\ i.to = (IF P[x].to < t THEN P[x].to ELSE t)
      BY <2>1, <2>4, <3>1 DEF Shared, Later, Earlier
    <3>3. /\ c.from = (IF P[x].from < R[m].from THEN R[m].from ELSE P[x].from)
          /\ c.to = P[x].to
      BY <1>7, <2>2, <3>1 DEF Shared, Later, Earlier
    <3> HIDE DEF c
    <3>4. c.from < c.to /\ P[x].from < t
      <4>1. i.from < i.to /\ P[x].from \in Nat /\ P[x].to \in Nat
        BY <2>1, <2>2
      <4> QED BY <1>7, <3>1, <3>2, <3>3, <4>1
    <3>5. SplitAt(c, r, t) = Shared(P, R2, x, m) /\ SplitAt(c, r, t) \in split
      BY <1>9, <1>2, <3>4 DEF c
    <3> QED BY <1>12, <2>1, <2>4, <3>5
  <2>5. CASE y = r
    <3>1. /\ i.from = (IF P[x].from < t THEN t ELSE P[x].from)
          /\ i.to = (IF P[x].to < Never THEN P[x].to ELSE Never)
      BY <1>6, <2>1, <2>5 DEF Shared, Later, Earlier
    <3>2. i.to = P[x].to
      BY <1>7, <2>2, <3>1
    <3>3. CASE P[x].from >= t
      <4> DEFINE c == Shared(P, R, x, m)
      <4>1. R[m].from \in Nat /\ R[m].to = Never /\ R[m].from < t
        BY <1>2, <1>3
      <4>2. c.from = P[x].from /\ c.to = P[x].to
        <5>1. PICK f, e, g \in Nat : f = P[x].from /\ e = P[x].to /\ g = R[m].from
          BY <2>2, <4>1
        <5>2. g < f /\ e <= Never
          BY <1>7, <2>2, <3>3, <4>1, <5>1
        <5>3. c.from = Later(f, g) /\ c.to = Earlier(e, Never)
          BY <4>1, <5>1 DEF Shared
        <5>4. Later(f, g) = f /\ Earlier(e, Never) = e
          BY <1>7, <5>2 DEF Later, Earlier
        <5> QED BY <5>1, <5>3, <5>4
      <4> HIDE DEF c
      <4>3. c.from < c.to
        BY <1>7, <2>1, <2>2, <3>1, <3>2, <3>3, <4>2
      <4>4. SplitAt(c, r, t) = Shared(P, R2, x, r) /\ SplitAt(c, r, t) \in split
        BY <1>9, <1>2, <3>3, <4>3 DEF c
      <4> QED BY <1>12, <2>1, <2>5, <4>4
    <3>4. CASE P[x].from < t
      <4>1. i.from = t /\ t < P[x].to
        BY <2>1, <3>1, <3>2, <3>4
      <4>2. x \in Matching(P, t) /\ v \in Matching(P, t)
        BY <1>8, <2>2, <1>7, <3>4, <4>1 DEF Matching, Covers
      <4>3. x = v
        BY <1>7, <4>2, Spans, OneCovers
      <4>4. i = [policy |-> x, resource |-> y, from |-> i.from, to |-> i.to]
        BY <2>1 DEF Shared
      <4> QED BY <1>1, <2>5, <3>2, <3>4, <4>1, <4>3, <4>4
    <3> QED BY <1>7, <2>2, <3>3, <3>4
  <2>6. (y \in 1..m /\ y # m) \/ y = m \/ y = r
    BY <1>5
  <2> QED BY <2>3, <2>4, <2>5, <2>6
\* A split that covers t in the new version starts there, as its policy does.
<1>13. ASSUME NEW i \in split, i.resource = r, i.policy = v, Covers(i, t), P[v].from < t
       PROVE  FALSE
  <2>1. PICK c \in SharedSpans(P, R) : i = SplitAt(c, r, t)
    BY <1>1, <1>13
  <2>2. PICK x \in DOMAIN P, y \in 1..m : c = Shared(P, R, x, y) /\ c.from < c.to
    BY <1>2 DEF SharedSpans
  <2>3. PICK z \in 1..(m + 1) : i = Shared(P, R2, x, z) /\ (z = r => P[x].from >= t)
    <3>1. CASE y # m
      BY <1>9, <1>2, <1>5, <2>1, <2>2, <3>1
    <3>2. CASE y = m /\ P[x].from < t
      BY <1>9, <1>2, <1>5, <2>1, <2>2, <3>2
    <3>3. CASE y = m /\ P[x].from >= t
      BY <1>9, <1>2, <1>5, <2>1, <2>2, <3>3
    <3> QED BY <1>4, <1>7, <3>1, <3>2, <3>3
  <2>4. i.policy = x /\ i.resource = z
    BY <2>3 DEF Shared
  <2> QED BY <1>4, <1>7, <1>13, <2>3, <2>4
<1>14. SharedSpans(P, R2) =
          split \cup (IF \E i \in split : i.resource = r /\ i.policy = v /\ Covers(i, t)
                      THEN {} ELSE {next})
  <2>1. CASE \E i \in split : i.resource = r /\ i.policy = v /\ Covers(i, t)
    BY <1>10, <1>12, <1>13, <2>1
  <2>2. CASE ~\E i \in split : i.resource = r /\ i.policy = v /\ Covers(i, t)
    BY <1>10, <1>11, <1>12, <2>2
  <2> QED BY <2>1, <2>2
<1>15. Versioned(SharedSpans(P, R), v, P[v].to, r, t) =
          split \cup (IF \E i \in split : i.resource = r /\ i.policy = v /\ Covers(i, t)
                      THEN {} ELSE {next})
  BY <1>1 DEF Versioned
<1> QED BY <1>1, <1>14, <1>15

\* All rows begin before t.
AllBefore(rows, t) == \A y \in DOMAIN rows : rows[y].from < t

\* What becomes of the open interval of policy n once another policy starts at t.
CutOpen(open, t) == [open EXCEPT !.to = t]
NextOpen(open, n, t) == [open EXCEPT !.policy = n + 1, !.from = t]

\* A new policy from t on, after every version has begun, cuts the open interval.
LEMMA CutPolicy ==
    ASSUME NEW P \in Seq(PolicyRow), P # << >>, Chain(P), NEW R \in Seq(VersionRow), R # << >>,
           Chain(R), NEW P2 \in Seq(PolicyRow), NEW t \in Ticks, Extends(P, P2, t),
           P[Len(P)].from < t, AllBefore(R, t),
           NEW open \in SharedSpans(P, R), open.to = Never
    PROVE  SharedSpans(P2, R) =
              (SharedSpans(P, R) \ {open}) \cup {CutOpen(open, t), NextOpen(open, Len(P), t)}
<1>1. PICK cut, next : /\ cut = [open EXCEPT !.to = t]
                       /\ next = [open EXCEPT !.policy = Len(P) + 1, !.from = t]
  OBVIOUS
<1>2. \A y \in DOMAIN R : R[y].from < t
  BY DEF AllBefore
<1>3. PICK n \in Nat : n = Len(P) /\ n \in 1..n /\ DOMAIN P = 1..n
  BY Spans, ChainFacts
<1>4. PICK m \in Nat : m = Len(R) /\ m \in 1..m /\ DOMAIN R = 1..m
  BY Spans, ChainFacts
<1>5. /\ \A x \in 1..n : P[x].from \in Nat /\ P[x].to \in Nat /\ P[x].to <= Never
      /\ \A x \in 1..n : x # n => P[x].to < Never
      /\ P[n].to = Never /\ P[n].from < t
  <2>1. \A x \in 1..n : /\ P[x].from \in Ticks /\ P[x].from \in Nat
                         /\ P[x].to \in Nat /\ P[x].to \in 0..Never
    BY <1>3, Spans, ChainFacts
  <2>2. \A x \in 1..n : P[x].to <= Never
    BY <2>1, Moments
  <2>3. ASSUME NEW x \in 1..n, x # n PROVE P[x].to < Never
    <3>1. P[x].to <= P[n].from
      <4>1. \A i, j \in 1..n : i < j => P[i].to <= P[j].from
        BY <1>3, Spans, ChainFacts
      <4>2. x < n
        BY <2>3
      <4> QED BY <1>3, <4>1, <4>2
    <3>2. P[n].from \in Nat /\ P[n].from < Never
      BY <1>3, <2>1, Moments
    <3> QED BY <2>1, <3>1, <3>2, Moments
  <2> QED BY <1>3, <2>1, <2>2, <2>3, Spans, ChainFacts
<1>6. /\ \A y \in 1..m : /\ R[y].from \in Nat /\ R[y].to \in Nat /\ R[y].to <= Never
                         /\ R[y].from < t
      /\ \A y \in 1..m : y # m => R[y].to < t
      /\ R[m].to = Never
  <2>1. \A y \in 1..m : /\ R[y].from \in Nat /\ R[y].to \in Nat /\ R[y].to \in 0..Never
                         /\ R[y].from < t
    BY <1>2, <1>4, Spans, ChainFacts
  <2>2. \A y \in 1..m : R[y].to <= Never
    BY <2>1, Moments
  <2>3. ASSUME NEW y \in 1..m, y # m PROVE R[y].to < t
    <3>1. R[y].to <= R[m].from
      <4>1. \A i, j \in 1..m : i < j => R[i].to <= R[j].from
        BY <1>4, Spans, ChainFacts
      <4>2. y < m
        BY <2>3
      <4> QED BY <1>4, <4>1, <4>2
    <3> QED BY <1>4, <2>1, <3>1, Moments
  <2> QED BY <1>4, <2>1, <2>2, <2>3, Spans, ChainFacts
<1>7. t \in Nat /\ Never \in Nat /\ t < Never
  BY Moments
<1>8. DOMAIN P2 = 1..(n + 1) /\ n + 1 \in 1..(n + 1) /\ n + 1 \notin 1..n
  BY <1>3, Spans, RowFacts DEF Extends
<1>9. /\ \A x \in 1..n : P2[x].from = P[x].from
      /\ \A x \in 1..n : x # n => P2[x].to = P[x].to
      /\ P2[n].to = t /\ P2[n + 1].from = t /\ P2[n + 1].to = Never
  BY <1>3, Spans, ExtendedChain DEF Extends
\* The open interval is of the last policy and the last version.
<1>10. \A x \in 1..n, y \in 1..m : Shared(P, R, x, y).to = Never => x = n /\ y = m
  <2> SUFFICES ASSUME NEW x \in 1..n, NEW y \in 1..m, Earlier(P[x].to, R[y].to) = Never
               PROVE  x = n /\ y = m
    BY DEF Shared
  <2>1. P[x].to = Never /\ R[y].to = Never
    <3>1. P[x].to \in Nat /\ P[x].to <= Never /\ R[y].to \in Nat /\ R[y].to <= Never
      BY <1>5, <1>6
    <3>2. PICK p, r \in Nat : p = P[x].to /\ r = R[y].to
      BY <3>1
    <3>3. p <= Never /\ r <= Never /\ Earlier(p, r) = Never
      BY <3>1, <3>2
    <3>4. p = Never /\ r = Never
      BY <1>7, <3>3 DEF Earlier
    <3> QED BY <3>2, <3>4
  <2>2. ~(P[x].to < Never) /\ ~(R[y].to < t)
    BY <1>7, <2>1
  <2> QED BY <1>5, <1>6, <2>2
<1>11. open = Shared(P, R, n, m) /\ open.from < Never
  BY <1>3, <1>4, <1>10 DEF SharedSpans
<1> DEFINE a == Later(P[n].from, R[m].from)
<1>12. /\ open = [policy |-> n, resource |-> m, from |-> a, to |-> Never]
       /\ a \in Nat /\ a < t
  <2>1. Earlier(P[n].to, R[m].to) = Never
    BY <1>5, <1>6 DEF Earlier
  <2>2. a \in Nat /\ a < t
    BY <1>3, <1>4, <1>5, <1>6 DEF Later
  <2> QED BY <1>11, <2>1, <2>2 DEF Shared
<1> HIDE DEF a
<1>13. /\ cut = [policy |-> n, resource |-> m, from |-> a, to |-> t]
       /\ next = [policy |-> n + 1, resource |-> m, from |-> t, to |-> Never]
  <2>1. cut = [policy |-> n, resource |-> m, from |-> a, to |-> t]
    BY <1>1, <1>12
  <2>2. next = [policy |-> n + 1, resource |-> m, from |-> t, to |-> Never]
    <3>1. PICK mid : mid = [open EXCEPT !.policy = n + 1]
      OBVIOUS
    <3>2. mid = [policy |-> n + 1, resource |-> m, from |-> a, to |-> Never]
      BY <1>12, <3>1
    <3>3. next = [[open EXCEPT !.policy = n + 1] EXCEPT !.from = t]
      BY <1>1, <1>3
    <3>4. next = [mid EXCEPT !.from = t]
      BY <3>1, <3>3
    <3> QED BY <3>2, <3>4
  <2> QED BY <2>1, <2>2
<1>14. cut = Shared(P2, R, n, m) /\ next = Shared(P2, R, n + 1, m)
  <2>1. Later(P2[n].from, R[m].from) = a
    BY <1>3, <1>9 DEF a
  <2>2. Earlier(P2[n].to, R[m].to) = t
    BY <1>6, <1>7, <1>9 DEF Earlier
  <2>3. Later(P2[n + 1].from, R[m].from) = t
    BY <1>4, <1>6, <1>7, <1>9 DEF Later
  <2>4. Earlier(P2[n + 1].to, R[m].to) = Never
    BY <1>6, <1>9 DEF Earlier
  <2> QED BY <1>13, <2>1, <2>2, <2>3, <2>4 DEF Shared
<1>15. cut \in SharedSpans(P2, R) /\ next \in SharedSpans(P2, R)
  <2>1. cut.from < cut.to /\ next.from < next.to
    BY <1>7, <1>12, <1>13
  <2>2. n \in 1..(n + 1) /\ n + 1 \in 1..(n + 1)
    BY <1>3
  <2>3. \A x \in 1..(n + 1) : \A i : i = Shared(P2, R, x, m) /\ i.from < i.to => i \in SharedSpans(P2, R)
    BY <1>4, <1>8 DEF SharedSpans
  <2> QED BY <1>14, <2>1, <2>2, <2>3
\* The other intervals of the policies before it stay.
<1>16. ASSUME NEW x \in 1..n, NEW y \in 1..m, x # n \/ y # m
       PROVE  Shared(P2, R, x, y) = Shared(P, R, x, y) /\ Shared(P, R, x, y) # open
  <2>1. CASE x # n
    BY <1>9, <1>11, <2>1 DEF Shared
  <2>2. CASE x = n /\ y # m
    <3>1. R[y].to < t /\ R[y].to \in Nat
      BY <1>6, <2>2
    <3>2. Earlier(P2[n].to, R[y].to) = Earlier(P[n].to, R[y].to)
      BY <1>5, <1>7, <1>9, <3>1 DEF Earlier
    <3> QED BY <1>3, <1>9, <1>11, <2>2, <3>2 DEF Shared
  <2> QED BY <1>16, <2>1, <2>2
<1>17. ASSUME NEW i \in SharedSpans(P2, R)
       PROVE  i \in (SharedSpans(P, R) \ {open}) \cup {cut, next}
  <2>1. PICK x \in 1..(n + 1), y \in 1..m : i = Shared(P2, R, x, y) /\ i.from < i.to
    BY <1>4, <1>8 DEF SharedSpans
  <2>2. CASE x \in 1..n /\ (x # n \/ y # m)
    BY <1>3, <1>4, <1>16, <2>1, <2>2 DEF SharedSpans
  <2>3. CASE x = n /\ y = m
    BY <1>14, <2>1, <2>3
  <2>4. CASE x = n + 1
    <3>1. i.from = Later(t, R[y].from) /\ i.to = Earlier(Never, R[y].to)
      BY <1>9, <2>1, <2>4 DEF Shared
    <3>2. y = m
      BY <1>6, <1>7, <2>1, <3>1 DEF Later, Earlier
    <3> QED BY <1>14, <2>1, <2>4, <3>2
  <2>5. x \in 1..n \/ x = n + 1
    OBVIOUS
  <2> QED BY <2>2, <2>3, <2>4, <2>5
<1>18. ASSUME NEW i \in SharedSpans(P, R), i # open
       PROVE  i \in SharedSpans(P2, R)
  <2>1. PICK x \in 1..n, y \in 1..m : i = Shared(P, R, x, y) /\ i.from < i.to
    BY <1>3, <1>4 DEF SharedSpans
  <2>2. i = Shared(P2, R, x, y)
    BY <1>11, <1>16, <1>18, <2>1
  <2>3. x \in 1..(n + 1)
    OBVIOUS
  <2> QED BY <1>4, <1>8, <2>1, <2>2, <2>3 DEF SharedSpans
<1>19. cut = CutOpen(open, t) /\ next = NextOpen(open, Len(P), t)
  BY <1>1 DEF CutOpen, NextOpen
<1> QED BY <1>15, <1>17, <1>18, <1>19
(***************************************************************************)
(* The timeline of a service                                               *)
(***************************************************************************)

\* Its policies and its versions start together, and its usage intervals are what
\* they share.
Timeline(s) ==
    /\ Chain(policy[s]) /\ Chain(resource[s])
    /\ Started(s) <=> resource[s] # << >>
    /\ Started(s) => policy[s][1].from = resource[s][1].from
    /\ \A r \in DOMAIN resource[s] : resource[s][r].from <= clock
    /\ usage[s] = SharedSpans(policy[s], resource[s])

Timelines == \A s \in Services : Timeline(s)

LEMMA TimelineTypes ==
    ASSUME TypeOK, NEW s \in Services
    PROVE  policy[s] \in Seq(PolicyRow) /\ resource[s] \in Seq(VersionRow) /\ clock \in Nat
BY Moments DEF TypeOK

LEMMA TimelineKept ==
    ASSUME TypeOK, TypeOK', NEW s \in Services, Timeline(s), clock <= clock',
           policy'[s] = policy[s], resource'[s] = resource[s], usage'[s] = usage[s]
    PROVE  Timeline(s)'
<1>1. \A r \in DOMAIN resource[s] : resource[s][r].from \in Nat
  BY TimelineTypes, Spans, RowFacts
<1>2. clock \in Nat /\ clock' \in Nat
  BY Moments DEF TypeOK
<1>3. \A r \in DOMAIN resource'[s] : resource'[s][r].from <= clock'
  BY <1>1, <1>2 DEF Timeline
<1> QED BY <1>3 DEF Timeline, Started

\* The first row starts what it is alone in.
LEMMA StartTimeline ==
    ASSUME IInv, TypeOK', Timelines, NEW s \in Services, NEW c \in Cadences, NEW t \in Ticks,
           StartInitialUsageBilling(s, c, t)
    PROVE  Timelines'
<1> DEFINE p == [cadence |-> c, from |-> t, to |-> Never]
           r == [active |-> TRUE, from |-> t, to |-> Never]
           u == [policy |-> 1, resource |-> 1, from |-> t, to |-> Never]
<1>1. /\ policy \in [Services -> Seq(PolicyRow)] /\ resource \in [Services -> Seq(VersionRow)]
      /\ usage \in [Services -> SUBSET UsageRow] /\ TypeOK
  BY DEF IInv, TypeOK
<1>2. /\ policy'[s] = <<p>> /\ resource'[s] = <<r>> /\ usage'[s] = {u}
      /\ \A x \in Services \ {s} : /\ policy'[x] = policy[x] /\ resource'[x] = resource[x]
                                   /\ usage'[x] = usage[x]
      /\ t <= clock /\ clock' = clock
  BY <1>1 DEF StartInitialUsageBilling, Confirmable
<1>3. clock \in Nat /\ t \in Nat /\ Never \in Nat /\ t < Never
  BY <1>1, Moments DEF TypeOK
<1>4. \A P : Chain(<<P>>) <=> P.from < P.to /\ P.to = Never
  <2> TAKE P
  <2>1. <<P>> # << >> /\ Len(<<P>>) = 1 /\ DOMAIN <<P>> = {1} /\ <<P>>[1] = P
    OBVIOUS
  <2>2. \A i \in {1} : i + 1 \notin {1} /\ \A j \in {1} : ~(i < j)
    OBVIOUS
  <2> QED BY <2>1, <2>2 DEF Chain
<1>5. Chain(<<p>>) /\ Chain(<<r>>)
  BY <1>3, <1>4
<1>6. SharedSpans(<<p>>, <<r>>) = {u}
  <2>1. DOMAIN <<p>> = {1} /\ DOMAIN <<r>> = {1} /\ <<p>>[1] = p /\ <<r>>[1] = r
    OBVIOUS
  <2>2. Later(t, t) = t /\ Earlier(Never, Never) = Never
    BY DEF Later, Earlier
  <2>3. Shared(<<p>>, <<r>>, 1, 1) = u
    BY <2>1, <2>2 DEF Shared
  <2>4. u.from < u.to
    BY <1>3
  <2> HIDE DEF p, r, u
  <2> QED BY <2>1, <2>3, <2>4 DEF SharedSpans
<1>7. Timeline(s)'
  <2>1. /\ <<p>> # << >> /\ <<r>> # << >> /\ <<p>>[1].from = t /\ <<r>>[1].from = t
        /\ \A i \in DOMAIN <<r>> : <<r>>[i].from = t
    OBVIOUS
  <2> HIDE DEF p, r, u
  <2> QED BY <1>2, <1>5, <1>6, <2>1 DEF Timeline, Started
<1>8. \A x \in Services \ {s} : Timeline(x)'
  BY <1>1, <1>2, <1>3, TimelineKept DEF Timelines
<1> QED BY <1>7, <1>8 DEF Timelines

\* A cadence change is due after now, and so after all there is in the timeline.
LEMMA ScheduledAfterNow ==
    ASSUME IInv, NEW s \in Services, NEW c \in Cadences, NEW t \in Ticks,
           ScheduleServiceBillingCadenceChange(s, c, t)
    PROVE  t > clock
<1>1. /\ policy[s] # << >>
      /\ t >= End(PeriodContaining(policy[s][Len(policy[s])].cadence, clock))
  BY DEF ScheduleServiceBillingCadenceChange, Started
<1>2. policy[s] \in Seq(PolicyRow) /\ clock \in Nat /\ t \in Nat
  BY TimelineTypes, Moments DEF IInv
<1>3. PICK d \in Cadences : d = policy[s][Len(policy[s])].cadence
  <2>1. policy[s][Len(policy[s])] \in PolicyRow
    BY <1>1, <1>2, Spans, RowFacts
  <2> QED BY <2>1 DEF PolicyRow
<1>4. End(PeriodContaining(d, clock)) > clock
  BY <1>2, ContainingPeriod
<1>5. End(PeriodContaining(d, clock)) \in Int
  <2>1. Length(d) \in Nat \ {0}
    BY LengthType
  <2>2. clock % Length(d) \in Int
    BY <1>2, <2>1
  <2> QED BY <1>2, <2>1, <2>2 DEF End, PeriodContaining
<1> QED BY <1>1, <1>2, <1>3, <1>4, <1>5

LEMMA ScheduleTimeline ==
    ASSUME IInv, TypeOK', Timelines, NEW s \in Services, NEW c \in Cadences, NEW t \in Ticks,
           ScheduleServiceBillingCadenceChange(s, c, t)
    PROVE  Timelines' /\ Extends(policy[s], policy'[s], t)
<1>1. PICK P \in Seq(PolicyRow), R \in Seq(VersionRow) : P = policy[s] /\ R = resource[s]
  BY TimelineTypes DEF IInv
<1> DEFINE next == [cadence |-> c, from |-> t, to |-> Never]
<1>2. /\ policy \in [Services -> Seq(PolicyRow)] /\ resource \in [Services -> Seq(VersionRow)]
      /\ usage \in [Services -> SUBSET UsageRow] /\ TypeOK
      /\ clock \in Nat /\ t \in Nat /\ t > clock
  BY ScheduledAfterNow, Moments DEF IInv, TypeOK
<1>3. /\ P # << >> /\ \A x \in DOMAIN P : P[x].from <= clock
      /\ policy' = [policy EXCEPT ![s] = Append([P EXCEPT ![Len(P)].to = t], next)]
      /\ resource' = resource /\ clock' = clock
  BY <1>1 DEF ScheduleServiceBillingCadenceChange, Started
<1>4. PICK open \in usage[s] :
         /\ open.to = Never
         /\ usage' = [usage EXCEPT ![s] =
               (usage[s] \ {open}) \cup {[open EXCEPT !.to = t],
                                         [open EXCEPT !.policy = Len(P) + 1, !.from = t]}]
  BY <1>1 DEF ScheduleServiceBillingCadenceChange
<1>5. /\ Chain(P) /\ Chain(R) /\ R # << >>
      /\ P[1].from = R[1].from /\ usage[s] = SharedSpans(P, R)
      /\ \A r \in DOMAIN R : R[r].from <= clock
  BY <1>1, <1>2, <1>3 DEF Timelines, Timeline, Started
<1>6. Len(P) \in 1..Len(P) /\ 1 \in 1..Len(P) /\ P[Len(P)].from < t /\ \A r \in DOMAIN R : R[r].from < t
  <2>1. /\ Len(P) \in 1..Len(P) /\ 1 \in 1..Len(P) /\ Len(P) \in DOMAIN P
        /\ P[Len(P)].from \in Nat /\ \A r \in DOMAIN R : R[r].from \in Nat
    BY <1>1, <1>3, <1>5, Spans, RowFacts
  <2> QED BY <1>2, <1>3, <1>5, <2>1
<1>7. /\ P \in Seq(PolicyRow) /\ R \in Seq(VersionRow) /\ P # << >> /\ R # << >>
      /\ Chain(P) /\ Chain(R) /\ P[Len(P)].from < t /\ AllBefore(R, t)
  BY <1>1, <1>3, <1>5, <1>6 DEF AllBefore
<1>8. PICK P2 \in Seq(PolicyRow) : P2 = policy'[s] /\ Extends(P, P2, t)
  <2>1. PICK cut : cut = [P[Len(P)] EXCEPT !.to = t]
    OBVIOUS
  <2>2. P[Len(P)] \in PolicyRow /\ t \in 0..Never
    BY <1>5, <1>6, Spans, RowFacts, Moments DEF Ticks, Never
  <2>3. cut \in PolicyRow /\ cut.from = P[Len(P)].from /\ cut.to = t
    BY <2>1, <2>2 DEF PolicyRow
  <2>4. next \in PolicyRow /\ next.from = t /\ next.to = Never
    BY Moments DEF PolicyRow
  <2> HIDE DEF next
  <2>5. policy'[s] = Append([P EXCEPT ![Len(P)] = cut], next)
    BY <1>1, <1>2, <1>3, <2>1
  <2>6. PICK more : more = policy'[s]
    OBVIOUS
  <2>7. more = Append([P EXCEPT ![Len(P)] = cut], next)
    BY <2>5, <2>6
  <2>8. more \in Seq(PolicyRow) /\ Extends(P, more, t)
    BY <1>7, <2>3, <2>4, <2>7, AppendExtends
  <2> QED BY <2>6, <2>8
<1>9. Chain(P2) /\ P2[1].from = P[1].from /\ P2 # << >>
  <2>1. Chain(P2) /\ P2[1].from = P[1].from
    BY <1>7, <1>6, <1>8, Spans, ExtendedChain
  <2>2. P2 # << >>
    BY <1>6, <1>8, EmptySeq DEF Extends
  <2> QED BY <2>1, <2>2
<1>10. usage'[s] = SharedSpans(P2, R)
  <2>1. open \in SharedSpans(P, R)
    BY <1>4, <1>5
  <2>2. SharedSpans(P2, R) =
           (SharedSpans(P, R) \ {open}) \cup {CutOpen(open, t), NextOpen(open, Len(P), t)}
    <3>1. P2 \in Seq(PolicyRow) /\ Extends(P, P2, t) /\ open.to = Never
      BY <1>4, <1>8
    <3> QED BY <1>7, <2>1, <3>1, CutPolicy
  <2>3. usage'[s] = (usage[s] \ {open}) \cup {CutOpen(open, t), NextOpen(open, Len(P), t)}
    BY <1>2, <1>4 DEF CutOpen, NextOpen
  <2> QED BY <1>5, <2>2, <2>3
<1>11. Timeline(s)'
  BY <1>1, <1>3, <1>5, <1>8, <1>9, <1>10 DEF Timeline, Started
<1>12. \A x \in Services \ {s} : Timeline(x)'
  BY <1>2, <1>3, <1>4, TimelineKept DEF Timelines
<1> QED BY <1>1, <1>8, <1>11, <1>12 DEF Timelines

\* A confirmed version cuts what is billed after it, on both sides of a policy change.
LEMMA RecordTimeline ==
    ASSUME IInv, TypeOK', Timelines, NEW s \in Services, NEW active \in BOOLEAN, NEW t \in Ticks,
           RecordProviderConfirmedResourceVersion(s, active, t)
    PROVE  Timelines' /\ Extends(resource[s], resource'[s], t)
<1>1. PICK P \in Seq(PolicyRow), R \in Seq(VersionRow) : P = policy[s] /\ R = resource[s]
  BY TimelineTypes DEF IInv
<1> DEFINE next == [active |-> active, from |-> t, to |-> Never]
<1>2. /\ policy \in [Services -> Seq(PolicyRow)] /\ resource \in [Services -> Seq(VersionRow)]
      /\ usage \in [Services -> SUBSET UsageRow] /\ TypeOK
      /\ clock \in Nat /\ t \in Nat
  BY Moments DEF IInv, TypeOK
<1>3. /\ P # << >> /\ R[Len(R)].from < t /\ t <= clock
      /\ resource' = [resource EXCEPT ![s] = Append([R EXCEPT ![Len(R)].to = t], next)]
      /\ policy' = policy /\ clock' = clock
  <2>1. Len(R) + 1 - 1 = Len(R)
    BY <1>1, Spans, RowFacts
  <2> QED BY <1>1, <2>1
          DEF RecordProviderConfirmedResourceVersion, Started, Confirmable, Current
<1>4. PICK v \in DOMAIN P :
         /\ Covers(P[v], t)
         /\ usage' = [usage EXCEPT ![s] = Versioned(usage[s], v, P[v].to, Len(R) + 1, t)]
  <2>1. \E v \in DOMAIN policy[s] :
           /\ Covers(policy[s][v], t)
           /\ usage' = [usage EXCEPT ![s] =
                 Versioned(usage[s], v, policy[s][v].to, Len(resource[s]) + 1, t)]
    BY Zenon DEF RecordProviderConfirmedResourceVersion, Versioned
  <2> QED BY <1>1, <2>1
<1>5. /\ Chain(P) /\ Chain(R) /\ R # << >>
      /\ P[1].from = R[1].from /\ usage[s] = SharedSpans(P, R)
      /\ \A i \in DOMAIN R : R[i].from <= clock
  BY <1>1, <1>3 DEF Timelines, Timeline, Started
<1>6. Len(R) \in 1..Len(R) /\ 1 \in 1..Len(R) /\ DOMAIN R = 1..Len(R)
  BY <1>5, Spans, RowFacts
<1>7. /\ P \in Seq(PolicyRow) /\ R \in Seq(VersionRow) /\ P # << >> /\ R # << >>
      /\ Chain(P) /\ Chain(R) /\ R[Len(R)].from < t
  BY <1>1, <1>3, <1>5
<1>8. PICK R2 \in Seq(VersionRow) : R2 = resource'[s] /\ Extends(R, R2, t)
  <2>1. PICK cut : cut = [R[Len(R)] EXCEPT !.to = t]
    OBVIOUS
  <2>2. R[Len(R)] \in VersionRow /\ t \in 0..Never
    BY <1>5, <1>6, Spans, RowFacts, Moments DEF Ticks, Never
  <2>3. cut \in VersionRow /\ cut.from = R[Len(R)].from /\ cut.to = t
    BY <2>1, <2>2 DEF VersionRow
  <2>4. next \in VersionRow /\ next.from = t /\ next.to = Never
    BY Moments DEF VersionRow
  <2> HIDE DEF next
  <2>5. resource'[s] = Append([R EXCEPT ![Len(R)] = cut], next)
    BY <1>1, <1>2, <1>3, <2>1
  <2>6. PICK more : more = resource'[s]
    OBVIOUS
  <2>7. more = Append([R EXCEPT ![Len(R)] = cut], next)
    BY <2>5, <2>6
  <2>8. more \in Seq(VersionRow) /\ Extends(R, more, t)
    BY <1>7, <2>3, <2>4, <2>7, AppendExtends
  <2> QED BY <2>6, <2>8
<1>9. /\ Chain(R2) /\ DOMAIN R2 = 1..(Len(R) + 1) /\ R2 # << >>
      /\ \A i \in 1..Len(R) : R2[i].from = R[i].from
      /\ R2[Len(R) + 1].from = t
  <2>1. Chain(R2) /\ \A i \in 1..Len(R) : R2[i].from = R[i].from
    BY <1>7, <1>8, Spans, ExtendedChain
  <2>2. DOMAIN R2 = 1..(Len(R) + 1)
    BY <1>8, Spans, RowFacts DEF Extends
  <2>3. R2[Len(R) + 1].from = t
    BY <1>8 DEF Extends
  <2>4. R2 # << >>
    <3>1. 1 \in DOMAIN R2
      BY <1>6, <2>2
    <3>2. DOMAIN << >> = {}
      OBVIOUS
    <3> QED BY <3>1, <3>2
  <2> QED BY <2>1, <2>2, <2>3, <2>4
<1>10. \A i \in DOMAIN R2 : R2[i].from <= clock
  BY <1>3, <1>5, <1>6, <1>9
<1>11. usage'[s] = SharedSpans(P, R2)
  <2>1. SharedSpans(P, R2) = Versioned(SharedSpans(P, R), v, P[v].to, Len(R) + 1, t)
    BY <1>7, <1>4, <1>8, CutResource
  <2> QED BY <1>2, <1>4, <1>5, <2>1
<1>12. Timeline(s)'
  BY <1>1, <1>3, <1>5, <1>8, <1>9, <1>10, <1>11 DEF Timeline, Started
<1>13. \A x \in Services \ {s} : Timeline(x)'
  BY <1>2, <1>3, <1>4, TimelineKept DEF Timelines
<1> QED BY <1>1, <1>8, <1>12, <1>13 DEF Timelines

\* What the service's timeline says of it survives every step.
LEMMA TimelinesInit == Init => Timelines
<1> SUFFICES ASSUME Init, NEW s \in Services PROVE Timeline(s)
  BY DEF Timelines
<1>1. policy[s] = << >> /\ resource[s] = << >> /\ usage[s] = {}
  BY DEF Init
<1>2. DOMAIN << >> = {} /\ Chain(<< >>)
  BY DEF Chain
<1>3. SharedSpans(<< >>, << >>) = {}
  BY <1>2 DEF SharedSpans
<1> QED BY <1>1, <1>2, <1>3 DEF Timeline, Started

LEMMA WorkerKeepsTimeline ==
    ASSUME NEW w \in Workers, Works(w) \/ TransactionLost(w) \/ Crash(w)
    PROVE  UNCHANGED <<clock, timeline>>
<1>1. CASE Settles(w)
  <2>1. CASE CommitSettlement(w)
    BY <2>1 DEF CommitSettlement
  <2>2. CASE RecordBillingRunFailure(w)
    BY <2>2 DEF RecordBillingRunFailure
  <2>3. CASE BeginSettlement(w) \/ AcquireRunLock(w) \/ SerializationFailure(w)
    BY <2>3 DEF BeginSettlement, AcquireRunLock, SerializationFailure
  <2>4. CASE \E l \in worker[w].lines :
                MarkInvoiceForReview(w, l) \/ ChargeUsage(w, l) \/ RejectUsage(w, l)
    BY <2>4 DEF MarkInvoiceForReview, ChargeUsage, RejectUsage, Billed, Rejected
  <2> QED BY <1>1, <2>1, <2>2, <2>3, <2>4 DEF Settles
<1>2. CASE StartCycle(w) \/ ListClosedBillingPeriodsForCatchUp(w) \/ EnqueueExpiredDunning(w)
  BY <1>2 DEF StartCycle, ListClosedBillingPeriodsForCatchUp, EnqueueExpiredDunning
<1>3. CASE TransactionLost(w) \/ Crash(w)
  BY <1>3 DEF TransactionLost, Crash
<1> QED BY <1>1, <1>2, <1>3 DEF Works

LEMMA TimelinesNext ==
    ASSUME IInv, IInv', Timelines, [Next]_vars
    PROVE  Timelines'
<1>1. TypeOK /\ TypeOK'
  BY DEF IInv
<1>2. CASE policy' = policy /\ resource' = resource /\ usage' = usage /\ clock <= clock'
  BY <1>1, <1>2, TimelineKept DEF Timelines
<1>3. CASE UNCHANGED vars
  <2>1. clock <= clock
    BY <1>1, Moments DEF TypeOK
  <2> QED BY <1>2, <1>3, <2>1 DEF vars, timeline
<1>4. CASE Tick
  <2>1. clock <= clock'
    BY <1>1, <1>4, Moments DEF TypeOK, Tick
  <2> QED BY <1>2, <1>4, <2>1 DEF Tick, timeline
<1>5. CASE MoneyNext
  <2>1. UNCHANGED <<clock, timeline>>
    BY <1>5 DEF MoneyNext, MoveMoney, ApplyProviderBillingAdjustment
  <2>2. clock <= clock
    BY <1>1, Moments DEF TypeOK
  <2> QED BY <1>2, <2>1, <2>2 DEF timeline
<1>6. CASE \E s \in Services : TimelineNext(s)
  <2>1. PICK s \in Services : TimelineNext(s)
    BY <1>6
  <2>2. CASE ApproveControlledSuspension(s)
    <3>1. clock <= clock
      BY <1>1, Moments DEF TypeOK
    <3> QED BY <1>2, <2>2, <3>1 DEF ApproveControlledSuspension, timeline
  <2>3. CASE \E t \in Ticks, c \in Cadences : StartInitialUsageBilling(s, c, t)
    BY <1>1, <2>3, StartTimeline
  <2>4. CASE \E t \in Ticks, c \in Cadences : ScheduleServiceBillingCadenceChange(s, c, t)
    BY <1>1, <2>4, ScheduleTimeline
  <2>5. CASE \E t \in Ticks, active \in BOOLEAN :
                RecordProviderConfirmedResourceVersion(s, active, t)
    BY <1>1, <2>5, RecordTimeline
  <2> QED BY <2>1, <2>2, <2>3, <2>4, <2>5 DEF TimelineNext
<1>7. CASE \E w \in Workers : Works(w) \/ TransactionLost(w) \/ Crash(w)
  <2>1. UNCHANGED <<clock, timeline>>
    BY <1>7, WorkerKeepsTimeline
  <2>2. clock <= clock
    BY <1>1, Moments DEF TypeOK
  <2> QED BY <1>2, <2>1, <2>2 DEF timeline
<1> QED BY <1>3, <1>4, <1>5, <1>6, <1>7 DEF Next

\* Each moment of a service has one policy, one version and one interval of the two.
LEMMA WholeTimeline ==
    ASSUME TypeOK, Timelines
    PROVE  TimelineIsWhole
<1> SUFFICES ASSUME NEW s \in Services, Started(s), NEW t \in policy[s][1].from..Horizon
             PROVE  \E v \in DOMAIN policy[s], r \in DOMAIN resource[s] :
                        /\ Matching(policy[s], t) = {v}
                        /\ Matching(resource[s], t) = {r}
                        /\ \E i \in usage[s] :
                            /\ {x \in usage[s] : Covers(x, t)} = {i}
                            /\ i.policy = v /\ i.resource = r
  BY DEF TimelineIsWhole
<1>1. PICK P \in Seq(PolicyRow), R \in Seq(VersionRow) : P = policy[s] /\ R = resource[s]
  BY TimelineTypes
<1>2. /\ P # << >> /\ R # << >> /\ Chain(P) /\ Chain(R) /\ P[1].from = R[1].from
      /\ usage[s] = SharedSpans(P, R)
  BY <1>1 DEF Timelines, Timeline, Started
<1>3. P[1].from \in Nat /\ Horizon \in Nat
  BY <1>2, Spans, RowFacts, Moments
<1>4. t \in Ticks /\ t \in Nat /\ P[1].from <= t /\ R[1].from <= t
  BY <1>1, <1>2, <1>3 DEF Ticks
<1>5. PICK v \in DOMAIN P : Matching(P, t) = {v}
  BY <1>2, <1>4, Spans, ChainCovers
<1>6. PICK r \in DOMAIN R : Matching(R, t) = {r}
  BY <1>2, <1>4, Spans, ChainCovers
<1>7. /\ \A x \in DOMAIN P : P[x].from \in Nat /\ P[x].to \in Nat
      /\ \A y \in DOMAIN R : R[y].from \in Nat /\ R[y].to \in Nat
  BY Spans, RowFacts
<1>8. \A x \in DOMAIN P, y \in DOMAIN R :
         Covers(Shared(P, R, x, y), t) <=> Covers(P[x], t) /\ Covers(R[y], t)
  <2> SUFFICES ASSUME NEW x \in DOMAIN P, NEW y \in DOMAIN R
               PROVE  Covers(Shared(P, R, x, y), t) <=> Covers(P[x], t) /\ Covers(R[y], t)
    OBVIOUS
  <2>1. PICK a, b, c, d \in Nat : a = P[x].from /\ b = P[x].to /\ c = R[y].from /\ d = R[y].to
    BY <1>7
  <2>2. PICK i : i = Shared(P, R, x, y)
    OBVIOUS
  <2>3. i.from = Later(a, c) /\ i.to = Earlier(b, d)
    BY <2>1, <2>2 DEF Shared
  <2>4. /\ Later(a, c) <= t <=> a <= t /\ c <= t
        /\ t < Earlier(b, d) <=> t < b /\ t < d
    BY <1>4 DEF Later, Earlier
  <2> QED BY <2>1, <2>2, <2>3, <2>4 DEF Covers
<1>9. \A x \in DOMAIN P, y \in DOMAIN R : Covers(Shared(P, R, x, y), t) => x = v /\ y = r
  BY <1>5, <1>6, <1>8 DEF Matching
<1>10. PICK i : i = Shared(P, R, v, r)
  OBVIOUS
<1>11. Covers(P[v], t) /\ Covers(R[r], t)
  BY <1>5, <1>6 DEF Matching
<1>12. Covers(i, t) /\ i.policy = v /\ i.resource = r /\ i.from \in Nat /\ i.to \in Nat
  <2>1. i.policy = v /\ i.resource = r
    BY <1>10 DEF Shared
  <2>2. i.from \in Nat /\ i.to \in Nat
    BY <1>7, <1>10, SharedFacts
  <2> QED BY <1>8, <1>10, <1>11, <2>1, <2>2
<1>13. i \in SharedSpans(P, R)
  BY <1>4, <1>10, <1>12 DEF SharedSpans, Covers
<1>14. {x \in SharedSpans(P, R) : Covers(x, t)} = {i}
  BY <1>9, <1>10, <1>12, <1>13 DEF SharedSpans
<1> QED BY <1>1, <1>2, <1>5, <1>6, <1>12, <1>13, <1>14

\* From its start on, every moment of every service has exactly one policy snapshot,
\* one resource version and one usage interval, which is of the two
\* (resource-timeline.ts:137-218, policy-admin.ts:478-528).
THEOREM TimelineHasNoGap == Spec => []TimelineIsWhole
<1>1. Init => Timelines
  BY TimelinesInit
<1>2. IInv /\ IInv' /\ Timelines /\ [Next]_vars => Timelines'
  BY TimelinesNext
<1>3. IInv /\ Timelines => TimelineIsWhole
  BY WholeTimeline DEF IInv
<1> QED BY Invariance, <1>1, <1>2, <1>3, PTL DEF Spec

(***************************************************************************)
(* What a step does to what a worker has read and drafted                  *)
(***************************************************************************)

Resting == {"idle", "listing", "dunning"}
Busy(x) == worker[x].pc \notin Resting

\* A worker's lines, bills and periods are as they were.
SameDrafts(x) ==
    /\ worker'[x].lines = worker[x].lines /\ worker'[x].bills = worker[x].bills
    /\ worker'[x].cadence = worker[x].cadence /\ worker'[x].todo = worker[x].todo
    /\ worker'[x].now = worker[x].now
    /\ (Busy(x)' <=> Busy(x)) /\ (InTransaction(x)' <=> InTransaction(x))

\* An invoice, or the bill it comes from, charges what the line says.
AsUsed(i, l) ==
    /\ i.status \in (IF l.outcome = "review" THEN {"UNDER_REVIEW"} ELSE SettledInvoice)
    /\ i.from = l.from /\ i.to = l.to
    /\ l.outcome = "bill" => i.total = l.total
    /\ l.outcome # "throw"

BillOf(b, l) ==
    /\ b.service = l.service /\ b.policy = l.policy /\ AsUsed(b, l)
    /\ b.paid < b.total => b.status \in {"PARTIALLY_PAID", "UNPAID"}

\* One of its lines becomes a bill.
Drafted(x) ==
    /\ InTransaction(x) /\ InTransaction(x)'
    /\ worker'[x].cadence = worker[x].cadence /\ worker'[x].todo = worker[x].todo
    /\ worker'[x].now = worker[x].now
    /\ \E l \in worker[x].lines, b \in BillRow :
          /\ BillOf(b, l)
          /\ worker'[x].lines = worker[x].lines \ {l}
          /\ worker'[x].bills = worker[x].bills \cup {b}

\* The oldest of the closed periods that are to be settled.
Oldest(c, now) ==
    {t \in Outstanding(c, now) : Cardinality({x \in Outstanding(c, now) : x < t}) < CatchUpLimit}

\* It has nothing in hand, and the same periods to do, or all but the least, which
\* is settled, or the oldest that are outstanding.
EmptyHanded(x) ==
    /\ ~InTransaction(x)' /\ worker'[x].lines = {} /\ worker'[x].bills = {}
    /\ Busy(x)' => /\ worker'[x].cadence = worker[x].cadence /\ worker'[x].now = worker[x].now
                   /\ \/ Busy(x) /\ worker'[x].todo = worker[x].todo
                      \/ /\ Busy(x) /\ worker'[x].todo = worker[x].todo \ {PeriodOf(x)[2]}
                         /\ run'[PeriodOf(x)] \in TerminalRun
                      \/ worker'[x].todo = Oldest(worker[x].cadence, worker[x].now)

DraftEffect(x) == SameDrafts(x) \/ EmptyHanded(x) \/ Begins(x) \/ Drafted(x)

LEMMA SameWhenOvertaken ==
    ASSUME TypeOK, NEW x \in Workers, NEW p, NEW us, NEW ss,
           worker'[x] = Overtaken(x, p, us, ss)
    PROVE  SameDrafts(x)
BY OvertakenFacts DEF SameDrafts, Busy, InTransaction

LEMMA SameWhenUnchanged ==
    ASSUME NEW x \in Workers, worker'[x] = worker[x]
    PROVE  SameDrafts(x)
BY DEF SameDrafts, Busy, InTransaction

LEMMA OthersSame ==
    ASSUME TypeOK, NEW w \in Workers, NEW r, Goes(w, r)
    PROVE  worker'[w] = r /\ \A x \in Workers \ {w} : DraftEffect(x)
<1>1. worker \in [Workers -> WorkerRow]
  BY DEF TypeOK
<1>2. worker'[w] = r /\ \A x \in Workers \ {w} : worker'[x] = worker[x]
  BY <1>1 DEF Goes
<1> QED BY <1>2, SameWhenUnchanged DEF DraftEffect

LEMMA PlacedFields ==
    ASSUME NEW w, NEW pc, NEW c, NEW todo, NEW attempt
    PROVE  LET r == At(w, pc, c, todo, attempt)
           IN  /\ r.pc = pc /\ r.cadence = c /\ r.now = worker[w].now /\ r.todo = todo
               /\ r.lines = {} /\ r.bills = {}
BY DEF At, Placed

LEMMA RestsEmptyHanded ==
    ASSUME NEW x \in Workers, worker'[x].pc \in Resting,
           worker'[x].lines = {}, worker'[x].bills = {}
    PROVE  DraftEffect(x)
BY DEF DraftEffect, EmptyHanded, Busy, InTransaction, Resting

LEMMA CadenceDoneRests ==
    ASSUME NEW w \in Workers, worker'[w] = CadenceDone(w)
    PROVE  DraftEffect(w)
<1>1. /\ CadenceDone(w).pc \in Resting
      /\ CadenceDone(w).lines = {} /\ CadenceDone(w).bills = {}
  BY PlacedFields DEF CadenceDone, Resting
<1> QED BY <1>1, RestsEmptyHanded

LEMMA PeriodDoneEmptyHanded ==
    ASSUME NEW w \in Workers, Busy(w), worker'[w] = PeriodDone(w),
           run'[PeriodOf(w)] \in TerminalRun
    PROVE  DraftEffect(w)
<1> DEFINE rest == worker[w].todo \ {PeriodOf(w)[2]}
<1>1. CASE rest = {}
  <2>1. PeriodDone(w) = CadenceDone(w)
    BY <1>1 DEF PeriodDone
  <2> QED BY <2>1, CadenceDoneRests
<1>2. CASE rest # {}
  <2>1. worker'[w] = At(w, "settling", worker[w].cadence, rest, 1)
    BY <1>2 DEF PeriodDone
  <2> HIDE DEF rest
  <2>2. /\ worker'[w].pc = "settling" /\ worker'[w].cadence = worker[w].cadence
        /\ worker'[w].now = worker[w].now /\ worker'[w].todo = rest
        /\ worker'[w].lines = {} /\ worker'[w].bills = {}
    BY <2>1, PlacedFields
  <2>3. ~InTransaction(w)'
    BY <2>2 DEF InTransaction
  <2> QED BY <2>2, <2>3 DEF DraftEffect, EmptyHanded, rest
<1> QED BY <1>1, <1>2

\* A worker that tries its period again, or gives it up.
LEMMA LeavesEmptyHanded ==
    ASSUME NEW w \in Workers, Busy(w), NEW pc, pc \notin {"waiting", "working"}, NEW attempt,
           worker'[w] = At(w, pc, worker[w].cadence, worker[w].todo, attempt)
    PROVE  DraftEffect(w)
<1>1. /\ worker'[w].pc = pc /\ worker'[w].cadence = worker[w].cadence
      /\ worker'[w].now = worker[w].now /\ worker'[w].todo = worker[w].todo
      /\ worker'[w].lines = {} /\ worker'[w].bills = {}
  BY PlacedFields
<1>2. ~InTransaction(w)'
  BY <1>1 DEF InTransaction
<1> QED BY <1>1, <1>2 DEF DraftEffect, EmptyHanded

LEMMA RetryDrafts ==
    ASSUME TypeOK, NEW w \in Workers, InTransaction(w), RetryOrGiveUp(w)
    PROVE  \A x \in Workers : DraftEffect(x)
<1>1. Busy(w)
  BY DEF InTransaction, Busy, Resting
<1>2. PICK pc, attempt :
         /\ pc \notin {"waiting", "working"}
         /\ Goes(w, At(w, pc, worker[w].cadence, worker[w].todo, attempt))
  BY DEF RetryOrGiveUp
<1>3. PICK r : r = At(w, pc, worker[w].cadence, worker[w].todo, attempt)
  OBVIOUS
<1>4. worker'[w] = r /\ \A x \in Workers \ {w} : DraftEffect(x)
  BY <1>2, <1>3, OthersSame
<1>5. DraftEffect(w)
  BY <1>1, <1>2, <1>3, <1>4, LeavesEmptyHanded
<1> QED BY <1>4, <1>5

LEMMA ListDrafts ==
    ASSUME TypeOK, NEW w \in Workers, ListClosedBillingPeriodsForCatchUp(w)
    PROVE  \A x \in Workers : DraftEffect(x)
<1>1. PICK r :
         /\ Goes(w, r)
         /\ r = IF Outstanding(worker[w].cadence, worker[w].now) = {} THEN CadenceDone(w)
                ELSE At(w, "settling", worker[w].cadence,
                        Oldest(worker[w].cadence, worker[w].now), 1)
  BY Zenon DEF ListClosedBillingPeriodsForCatchUp, Oldest
<1>2. worker'[w] = r /\ \A x \in Workers \ {w} : DraftEffect(x)
  BY <1>1, OthersSame
<1>3. DraftEffect(w)
  <2>1. CASE r = CadenceDone(w)
    BY <1>2, <2>1, CadenceDoneRests
  <2>2. CASE r = At(w, "settling", worker[w].cadence,
                    Oldest(worker[w].cadence, worker[w].now), 1)
    <3>1. /\ worker'[w].pc = "settling" /\ worker'[w].cadence = worker[w].cadence
          /\ worker'[w].now = worker[w].now
          /\ worker'[w].todo = Oldest(worker[w].cadence, worker[w].now)
          /\ worker'[w].lines = {} /\ worker'[w].bills = {}
      BY <1>2, <2>2, PlacedFields
    <3>2. ~InTransaction(w)'
      BY <3>1 DEF InTransaction
    <3> QED BY <3>1, <3>2 DEF DraftEffect, EmptyHanded
  <2> QED BY <1>1, <2>1, <2>2
<1> QED BY <1>2, <1>3

LEMMA BeginDrafts ==
    ASSUME IInv, NEW w \in Workers, BeginSettlement(w)
    PROVE  \A x \in Workers : DraftEffect(x)
<1>1. TypeOK /\ worker[w] \in WorkerRow /\ Busy(w) /\ ~InTransaction(w)
  BY DEF IInv, TypeOK, BeginSettlement, Busy, Resting, InTransaction
<1>2. CASE run[PeriodOf(w)] \in TerminalRun
  <2>1. Goes(w, PeriodDone(w)) /\ run' = run
    BY <1>2 DEF BeginSettlement, books
  <2>2. worker'[w] = PeriodDone(w) /\ \A x \in Workers \ {w} : DraftEffect(x)
    BY <1>1, <2>1, OthersSame
  <2> QED BY <1>1, <1>2, <2>1, <2>2, PeriodDoneEmptyHanded
<1>3. CASE run[PeriodOf(w)] \notin TerminalRun
  <2>1. PICK r : Goes(w, r) /\ r = [worker[w] EXCEPT
                      !.pc = "waiting", !.balance = wallet,
                      !.lines = {Line(x[1], x[2], PeriodOf(w)) : x \in LoadSnapshots(PeriodOf(w))}]
    BY <1>3 DEF BeginSettlement
  <2>2. worker'[w] = r /\ \A x \in Workers \ {w} : DraftEffect(x)
    BY <1>1, <2>1, OthersSame
  <2>3. r.pc = "waiting"
    BY <1>1, <2>1 DEF WorkerRow
  <2>4. WorkerEffect(w)
    BY BeginStep
  <2>5. ~Outside(worker'[w]) /\ ~KeepsOn(w)
    BY <1>1, <2>2, <2>3 DEF Outside, KeepsOn, BeginSettlement
  <2> QED BY <2>2, <2>4, <2>5 DEF DraftEffect, WorkerEffect
<1> QED BY <1>2, <1>3

LEMMA AcquireDrafts ==
    ASSUME TypeOK, NEW w \in Workers, AcquireRunLock(w)
    PROVE  \A x \in Workers : DraftEffect(x)
<1>1. worker[w] \in WorkerRow /\ worker[w].pc = "waiting"
  BY DEF TypeOK, AcquireRunLock
<1>2. PICK r : Goes(w, r) /\ r = [worker[w] EXCEPT !.pc = "working"]
  BY DEF AcquireRunLock
<1>3. worker'[w] = r /\ \A x \in Workers \ {w} : DraftEffect(x)
  BY <1>2, OthersSame
<1>4. /\ r.pc = "working" /\ r.cadence = worker[w].cadence
      /\ r.now = worker[w].now /\ r.todo = worker[w].todo
      /\ r.lines = worker[w].lines /\ r.bills = worker[w].bills
  BY <1>1, <1>2 DEF WorkerRow
<1>5. SameDrafts(w)
  BY <1>1, <1>3, <1>4 DEF SameDrafts, Busy, InTransaction, Resting
<1> QED BY <1>3, <1>5 DEF DraftEffect

LEMMA BilledDrafts ==
    ASSUME TypeOK, NEW w \in Workers, NEW l \in worker[w].lines, worker[w].pc = "working",
           NEW bill \in BillRow, BillOf(bill, l), Billed(w, l, bill)
    PROVE  \A x \in Workers : DraftEffect(x)
<1>1. worker[w] \in WorkerRow
  BY DEF TypeOK
<1>2. PICK r : Goes(w, r) /\ r = [worker[w] EXCEPT !.lines = @ \ {l}, !.bills = @ \cup {bill},
                              !.balance[Owner[l.service]] = @ - bill.paid]
  BY DEF Billed
<1>3. worker'[w] = r /\ \A x \in Workers \ {w} : DraftEffect(x)
  BY <1>2, OthersSame
<1>4. /\ r.pc = worker[w].pc /\ r.cadence = worker[w].cadence
      /\ r.now = worker[w].now /\ r.todo = worker[w].todo
      /\ r.lines = worker[w].lines \ {l} /\ r.bills = worker[w].bills \cup {bill}
  BY <1>1, <1>2 DEF WorkerRow
<1>5. InTransaction(w) /\ InTransaction(w)'
  BY <1>3, <1>4 DEF InTransaction
<1>6. Drafted(w)
  BY <1>3, <1>4, <1>5 DEF Drafted
<1> QED BY <1>3, <1>6 DEF DraftEffect

LEMMA ReviewDrafts ==
    ASSUME TypeOK, NEW w \in Workers, NEW l \in worker[w].lines, MarkInvoiceForReview(w, l)
    PROVE  \A x \in Workers : DraftEffect(x)
<1>1. PICK bill : bill = [service |-> l.service, policy |-> l.policy, from |-> l.from, to |-> l.to,
                          total |-> 0, paid |-> 0, status |-> "UNDER_REVIEW", low |-> FALSE]
  OBVIOUS
<1>2. worker[w].pc = "working" /\ l.outcome = "review" /\ Billed(w, l, bill)
  BY <1>1 DEF MarkInvoiceForReview, NextLine
<1>3. l \in LineRow
  BY DEF TypeOK, WorkerRow
<1>4. bill \in BillRow
  BY <1>1, <1>3 DEF LineRow, BillRow, SettledInvoice
<1>5. BillOf(bill, l)
  BY <1>1, <1>2 DEF BillOf, AsUsed
<1> QED BY <1>2, <1>4, <1>5, BilledDrafts

LEMMA ChargeDrafts ==
    ASSUME TypeOK, NEW w \in Workers, NEW l \in worker[w].lines, ChargeUsage(w, l)
    PROVE  \A x \in Workers : DraftEffect(x)
<1>1. PICK paid, isLow : paid = Payable(w, l) /\ isLow = IsLow(w, l)
  OBVIOUS
<1>2. PICK bill : bill = [service |-> l.service, policy |-> l.policy, from |-> l.from, to |-> l.to,
                          total |-> l.total, paid |-> paid,
                          status |-> InvoiceStatus(l.total, paid), low |-> isLow]
  OBVIOUS
<1>3. worker[w].pc = "working" /\ l.outcome = "bill" /\ Billed(w, l, bill)
  BY <1>1, <1>2 DEF ChargeUsage, NextLine
<1>4. l \in LineRow /\ worker[w].balance \in [Users -> Nat]
  BY DEF TypeOK, WorkerRow
<1>5. worker[w].balance[Owner[l.service]] \in Nat /\ l.total \in Nat
  BY <1>4, ConstantsAssumption DEF LineRow
<1>6. paid \in Nat /\ isLow \in BOOLEAN
  BY <1>1, <1>5 DEF Payable, Earlier, IsLow
<1>7. InvoiceStatus(l.total, paid) \in SettledInvoice
  BY DEF InvoiceStatus, SettledInvoice
<1>8. paid # l.total => InvoiceStatus(l.total, paid) \in {"PARTIALLY_PAID", "UNPAID"}
  BY DEF InvoiceStatus
<1>9. bill \in BillRow
  BY <1>2, <1>4, <1>6, <1>7 DEF LineRow, BillRow
<1>10. /\ bill.service = l.service /\ bill.policy = l.policy /\ bill.from = l.from
       /\ bill.to = l.to /\ bill.total = l.total /\ bill.paid = paid
       /\ bill.status = InvoiceStatus(l.total, paid)
  BY <1>2
<1>11. bill.paid < bill.total => bill.status \in {"PARTIALLY_PAID", "UNPAID"}
  BY <1>5, <1>6, <1>8, <1>10
<1>12. BillOf(bill, l)
  BY <1>3, <1>7, <1>10, <1>11 DEF BillOf, AsUsed
<1> QED BY <1>3, <1>9, <1>12, BilledDrafts

LEMMA RejectDrafts ==
    ASSUME TypeOK, NEW w \in Workers, NEW l \in worker[w].lines, RejectUsage(w, l)
    PROVE  \A x \in Workers : DraftEffect(x)
<1>1. PICK r : Goes(w, r) /\ r = At(w, "failed", worker[w].cadence, worker[w].todo, 1)
  BY DEF RejectUsage, Rejected
<1>2. worker'[w] = r /\ \A x \in Workers \ {w} : DraftEffect(x)
  BY <1>1, OthersSame
<1>3. Busy(w)
  BY DEF RejectUsage, NextLine, Busy, Resting
<1>4. DraftEffect(w)
  BY <1>1, <1>2, <1>3, LeavesEmptyHanded
<1> QED BY <1>2, <1>4

LEMMA RestDrafts ==
    ASSUME TypeOK, NEW w \in Workers, StartCycle(w) \/ Crash(w)
    PROVE  \A x \in Workers : DraftEffect(x)
<1>1. PICK r : Goes(w, r) /\ r.pc \in Resting /\ r.lines = {} /\ r.bills = {}
  BY DEF StartCycle, Crash, IdleWorker, Placed, Resting
<1>2. worker'[w] = r /\ \A x \in Workers \ {w} : DraftEffect(x)
  BY <1>1, OthersSame
<1> QED BY <1>1, <1>2, RestsEmptyHanded

\* The steps that write every worker's row.
LEMMA CommitDrafts ==
    ASSUME IInv, NEW w \in Workers, CommitSettlement(w)
    PROVE  \A x \in Workers : DraftEffect(x)
<1>1. PICK p, us, ss : /\ p = PeriodOf(w)
                       /\ worker' = [x \in Workers |->
                             IF x = w THEN PeriodDone(w) ELSE Overtaken(x, p, us, ss)]
  BY DEF CommitSettlement
<1>2. ASSUME NEW x \in Workers \ {w} PROVE DraftEffect(x)
  <2>1. worker'[x] = Overtaken(x, p, us, ss)
    BY <1>1
  <2> QED BY <2>1, SameWhenOvertaken DEF DraftEffect, IInv
<1>3. TypeOK /\ WorkShape /\ Busy(w) /\ worker[w].pc \notin {"idle", "listing", "dunning"}
  BY DEF IInv, CommitSettlement, Busy, Resting
<1>4. PeriodOf(w) \in Periods
  BY <1>3, PeriodOfType
<1>5. run'[PeriodOf(w)] \in TerminalRun
  BY <1>4, CommitStep DEF Commits
<1>6. worker'[w] = PeriodDone(w)
  BY <1>1
<1>7. DraftEffect(w)
  BY <1>3, <1>5, <1>6, PeriodDoneEmptyHanded
<1> QED BY <1>2, <1>7

LEMMA FailureDrafts ==
    ASSUME IInv, NEW w \in Workers, RecordBillingRunFailure(w)
    PROVE  \A x \in Workers : DraftEffect(x)
<1>1. PICK p : worker' = [x \in Workers |->
               IF x = w
               THEN IF worker[w].pc = "caught" THEN IdleWorker ELSE [worker[w] EXCEPT !.pc = "caught"]
               ELSE IF run[p] \in TerminalRun THEN worker[x] ELSE Overtaken(x, p, {}, {})]
  BY DEF RecordBillingRunFailure
<1>2. ASSUME NEW x \in Workers \ {w} PROVE DraftEffect(x)
  <2>1. worker'[x] = worker[x] \/ worker'[x] = Overtaken(x, p, {}, {})
    BY <1>1
  <2> QED BY <2>1, SameWhenOvertaken, SameWhenUnchanged DEF DraftEffect, IInv
<1>3. worker[w] \in WorkerRow /\ Busy(w)
  BY DEF IInv, TypeOK, RecordBillingRunFailure, Busy, Resting
<1>4. CASE worker[w].pc = "caught"
  <2>1. worker'[w] = IdleWorker
    BY <1>1, <1>4
  <2> QED BY <1>2, <2>1, IdleFacts, RestsEmptyHanded DEF Resting
<1>5. CASE worker[w].pc = "failed"
  <2>1. PICK r : r = [worker[w] EXCEPT !.pc = "caught"]
    OBVIOUS
  <2>2. /\ r.pc = "caught" /\ r.cadence = worker[w].cadence
        /\ r.now = worker[w].now /\ r.todo = worker[w].todo
        /\ r.lines = worker[w].lines /\ r.bills = worker[w].bills
    BY <1>3, <2>1 DEF WorkerRow
  <2>3. worker'[w] = r
    BY <1>1, <1>5, <2>1
  <2>4. SameDrafts(w)
    BY <1>3, <1>5, <2>2, <2>3 DEF SameDrafts, Busy, InTransaction, Resting
  <2> QED BY <1>2, <2>4 DEF DraftEffect
<1> QED BY <1>2, <1>4, <1>5 DEF RecordBillingRunFailure

LEMMA DunningDrafts ==
    ASSUME TypeOK, NEW w \in Workers, EnqueueExpiredDunning(w)
    PROVE  \A x \in Workers : DraftEffect(x)
<1>1. PICK ss : worker' = [x \in Workers |->
               IF x = w THEN IdleWorker ELSE Overtaken(x, NoPeriod, {}, ss)]
  BY DEF EnqueueExpiredDunning
<1>2. ASSUME NEW x \in Workers \ {w} PROVE DraftEffect(x)
  <2>1. worker'[x] = Overtaken(x, NoPeriod, {}, ss)
    BY <1>1
  <2> QED BY <2>1, SameWhenOvertaken DEF DraftEffect
<1>3. DraftEffect(w)
  <2>1. worker'[w] = IdleWorker
    BY <1>1
  <2> QED BY <2>1, IdleFacts, RestsEmptyHanded DEF Resting
<1> QED BY <1>2, <1>3

LEMMA MoneyDrafts ==
    ASSUME TypeOK, MoneyNext
    PROVE  \A x \in Workers : DraftEffect(x)
<1>1. PICK us, ss : Overtakes(us, ss)
  BY DEF MoneyNext, MoveMoney, ApplyProviderBillingAdjustment
<1>2. \A x \in Workers : worker'[x] = Overtaken(x, NoPeriod, us, ss)
  BY <1>1 DEF Overtakes
<1> QED BY <1>2, SameWhenOvertaken DEF DraftEffect

LEMMA TimelineKeepsBooks ==
    ASSUME NEW s \in Services, TimelineNext(s)
    PROVE  /\ worker' = worker /\ run' = run /\ invoice' = invoice /\ clock' = clock
           /\ dunning' = dunning \/ ApproveControlledSuspension(s)
<1>1. CASE \E t \in Ticks, c \in Cadences : StartInitialUsageBilling(s, c, t)
  BY <1>1 DEF StartInitialUsageBilling, books
<1>2. CASE \E t \in Ticks, c \in Cadences : ScheduleServiceBillingCadenceChange(s, c, t)
  BY <1>2 DEF ScheduleServiceBillingCadenceChange, books
<1>3. CASE \E t \in Ticks, active \in BOOLEAN :
              RecordProviderConfirmedResourceVersion(s, active, t)
  BY <1>3 DEF RecordProviderConfirmedResourceVersion, books
<1>4. CASE ApproveControlledSuspension(s)
  BY <1>4 DEF ApproveControlledSuspension, books
<1> QED BY <1>1, <1>2, <1>3, <1>4 DEF TimelineNext

\* Whatever happens, each worker keeps what it has, begins, drafts a bill, or ends up
\* with empty hands.
LEMMA AnyDrafts ==
    ASSUME IInv, [Next]_vars
    PROVE  \A x \in Workers : DraftEffect(x)
<1>1. TypeOK
  BY DEF IInv
<1>2. CASE worker' = worker
  BY <1>2, SameWhenUnchanged DEF DraftEffect
<1>3. CASE Tick \/ UNCHANGED vars \/ \E s \in Services : TimelineNext(s)
  <2>1. CASE Tick \/ UNCHANGED vars
    BY <1>2, <2>1 DEF Tick, vars
  <2>2. CASE \E s \in Services : TimelineNext(s)
    BY <1>2, <2>2, TimelineKeepsBooks
  <2> QED BY <1>3, <2>1, <2>2
<1>4. ASSUME NEW w \in Workers, Works(w) \/ TransactionLost(w) \/ Crash(w)
      PROVE  \A x \in Workers : DraftEffect(x)
  <2>1. CASE BeginSettlement(w) \/ AcquireRunLock(w)
    BY <1>1, <2>1, BeginDrafts, AcquireDrafts
  <2>2. CASE \E l \in worker[w].lines :
                MarkInvoiceForReview(w, l) \/ ChargeUsage(w, l) \/ RejectUsage(w, l)
    BY <1>1, <2>2, ReviewDrafts, ChargeDrafts, RejectDrafts
  <2>3. CASE SerializationFailure(w) \/ TransactionLost(w)
    <3>1. InTransaction(w) /\ RetryOrGiveUp(w)
      BY <2>3 DEF SerializationFailure, TransactionLost, InTransaction
    <3> QED BY <1>1, <3>1, RetryDrafts
  <2>4. CASE CommitSettlement(w) \/ RecordBillingRunFailure(w)
    BY <2>4, CommitDrafts, FailureDrafts
  <2>5. CASE StartCycle(w) \/ Crash(w)
    BY <1>1, <2>5, RestDrafts
  <2>6. CASE ListClosedBillingPeriodsForCatchUp(w) \/ EnqueueExpiredDunning(w)
    BY <1>1, <2>6, ListDrafts, DunningDrafts
  <2> QED BY <1>4, <2>1, <2>2, <2>3, <2>4, <2>5, <2>6 DEF Works, Settles
<1> QED BY <1>1, <1>3, <1>4, MoneyDrafts DEF Next

(***************************************************************************)
(* Invoices and dunning                                                    *)
(***************************************************************************)

SameKey(x, y) == x.service = y.service /\ x.policy = y.policy

\* A snapshot of the period is in hand once: as a line, or as a bill.
OneDraft ==
    \A w \in Workers :
        /\ \A x, y \in worker[w].lines : SameKey(x, y) => x = y
        /\ \A x, y \in worker[w].bills : SameKey(x, y) => x = y
        /\ \A x \in worker[w].lines, y \in worker[w].bills : ~SameKey(x, y)

\* A bill that is not paid in full says so.
Owed ==
    \A w \in Workers : \A b \in worker[w].bills :
        b.paid < b.total => b.status \in {"PARTIALLY_PAID", "UNPAID"}

\* The service has an invoice that was not paid in full and whose grace ends by g.
Unpaid(s, g) ==
    \E k \in Keys :
        /\ k[1] = s /\ invoice[k].status \in {"PARTIALLY_PAID", "UNPAID"}
        /\ End(k[3]) + GracePeriods * Length(k[3][1]) <= g

CasesOf(s) ==
    /\ dunning[s].outstanding # "NONE" => Unpaid(s, dunning[s].graceEndsAt)
    /\ dunning[s].suspension # "NONE" => Unpaid(s, clock)

Cases == \A s \in Services : CasesOf(s)

LEMMA OneDraftStep ==
    ASSUME IInv, OneDraft, NEW w \in Workers, DraftEffect(w)
    PROVE  /\ \A x, y \in worker'[w].lines : SameKey(x, y) => x = y
           /\ \A x, y \in worker'[w].bills : SameKey(x, y) => x = y
           /\ \A x \in worker'[w].lines, y \in worker'[w].bills : ~SameKey(x, y)
<1>1. CASE SameDrafts(w) \/ EmptyHanded(w)
  BY <1>1 DEF OneDraft, SameDrafts, EmptyHanded
<1>2. CASE Begins(w)
  <2>1. /\ worker'[w].bills = {}
        /\ worker'[w].lines = {Line(y[1], y[2], PeriodOf(w)) : y \in LoadSnapshots(PeriodOf(w))}
    BY <1>2 DEF Begins
  <2>2. \A y \in LoadSnapshots(PeriodOf(w)) :
           /\ y = <<y[1], y[2]>>
           /\ Line(y[1], y[2], PeriodOf(w)).service = y[1]
           /\ Line(y[1], y[2], PeriodOf(w)).policy = y[2]
    BY DEF LoadSnapshots, Line
  <2> QED BY <2>1, <2>2 DEF SameKey
<1>3. CASE Drafted(w)
  <2>1. PICK l \in worker[w].lines, b \in BillRow :
           /\ b.service = l.service /\ b.policy = l.policy
           /\ worker'[w].lines = worker[w].lines \ {l}
           /\ worker'[w].bills = worker[w].bills \cup {b}
    BY <1>3 DEF Drafted, BillOf
  <2>2. \A x : SameKey(x, b) <=> SameKey(x, l)
    BY <2>1 DEF SameKey
  <2>3. \A x, y : SameKey(x, y) <=> SameKey(y, x)
    BY DEF SameKey
  <2> QED BY <2>1, <2>2, <2>3 DEF OneDraft
<1> QED BY <1>1, <1>2, <1>3 DEF DraftEffect

LEMMA OwedStep ==
    ASSUME Owed, NEW w \in Workers, DraftEffect(w), NEW b \in worker'[w].bills, b.paid < b.total
    PROVE  b.status \in {"PARTIALLY_PAID", "UNPAID"}
BY DEF Owed, DraftEffect, SameDrafts, EmptyHanded, Begins, Drafted, BillOf

\* An invoice is written once.
LEMMA InvoiceKept ==
    ASSUME IInv, [Next]_vars, NEW k \in Keys, invoice[k].status # "ABSENT"
    PROVE  invoice'[k] = invoice[k]
<1>1. BooksEffect
  BY AnyStepEffect DEF StepEffect
<1>2. SUFFICES ASSUME NEW w \in Workers, Commits(w), invoice'[k] # invoice[k]
               PROVE  FALSE
  BY <1>1 DEF BooksEffect
<1>3. PICK b \in worker[w].bills : KeyOf(b, PeriodOf(w)) = k
  BY <1>2 DEF Commits
<1>4. k[3] = PeriodOf(w)
  BY <1>3 DEF KeyOf
<1> QED BY <1>2, <1>4 DEF IInv, Fresh, Invoiced, Commits

LEMMA UnpaidKept ==
    ASSUME IInv, IInv', [Next]_vars, NEW s \in Services, NEW g \in Nat, NEW h \in Nat, g <= h, Unpaid(s, g)
    PROVE  Unpaid(s, h)'
<1>1. PICK k \in Keys :
         /\ k[1] = s /\ invoice[k].status \in {"PARTIALLY_PAID", "UNPAID"}
         /\ End(k[3]) + GracePeriods * Length(k[3][1]) <= g
  BY DEF Unpaid
<1>2. invoice'[k] = invoice[k]
  BY <1>1, InvoiceKept
<1>3. k[3] \in Periods
  BY DEF Keys
<1>4. End(k[3]) \in Nat /\ Length(k[3][1]) \in Nat /\ GracePeriods \in Nat
  BY <1>3, PeriodType, LengthType, ConstantsAssumption
<1>5. End(k[3]) + GracePeriods * Length(k[3][1]) <= h
  <2>1. PICK d \in Nat : d = GracePeriods * Length(k[3][1])
    BY <1>4
  <2> QED BY <1>1, <1>4, <2>1
<1> QED BY <1>1, <1>2, <1>5 DEF Unpaid

\* The invoice a commit writes for a bill is that bill's.
LEMMA CommittedBill ==
    ASSUME IInv, OneDraft, NEW w \in Workers, CommitSettlement(w), NEW b \in worker[w].bills
    PROVE  /\ KeyOf(b, PeriodOf(w)) \in Keys
           /\ invoice'[KeyOf(b, PeriodOf(w))] = InvoiceOf(b)
<1>1. PICK p : p = PeriodOf(w)
  OBVIOUS
<1>2. TypeOK /\ WorkShape /\ worker[w].pc \notin {"idle", "listing", "dunning"}
  BY DEF IInv, CommitSettlement
<1>3. p \in Periods
  BY <1>1, <1>2, PeriodOfType
<1>4. worker[w].bills \subseteq BillRow
  BY <1>2 DEF TypeOK, WorkerRow
<1>5. PICK k \in Keys : k = <<b.service, b.policy, p>> /\ k = KeyOf(b, p)
  <2>1. b.service \in Services /\ b.policy \in 1..MaxPolicies
    BY <1>4 DEF BillRow
  <2> QED BY <1>3, <2>1 DEF KeyOf, Keys
<1>6. invoice'[k] = InvoiceOf(CHOOSE x \in worker[w].bills : KeyOf(x, p) = k)
  BY <1>1, <1>5 DEF CommitSettlement
<1>7. (CHOOSE x \in worker[w].bills : KeyOf(x, p) = k) = b
  <2>1. \A x \in worker[w].bills : KeyOf(x, p) = k => x = b
    BY <1>5 DEF KeyOf, OneDraft, SameKey
  <2> QED BY <1>5, <2>1
<1> QED BY <1>1, <1>5, <1>6, <1>7

LEMMA CasesKept ==
    ASSUME IInv, IInv', [Next]_vars, NEW s \in Services, Cases, clock <= clock',
           dunning'[s] = dunning[s]
    PROVE  CasesOf(s)'
<1>1. dunning[s].graceEndsAt \in Nat /\ clock \in Nat /\ clock' \in Nat
  BY Moments DEF IInv, TypeOK, CaseRow
<1>2. PICK g \in Nat, c \in Nat, d \in Nat :
         g = dunning[s].graceEndsAt /\ c = clock /\ d = clock'
  BY <1>1
<1>3. dunning[s].outstanding # "NONE" => Unpaid(s, g)
  BY <1>2 DEF Cases, CasesOf
<1>4. dunning[s].suspension # "NONE" => Unpaid(s, c)
  BY <1>2 DEF Cases, CasesOf
<1>5. g <= g /\ c <= d
  BY <1>2
<1>6. dunning[s].outstanding # "NONE" => Unpaid(s, g)'
  BY <1>3, <1>5, UnpaidKept
<1>7. dunning[s].suspension # "NONE" => Unpaid(s, d)'
  BY <1>4, <1>5, UnpaidKept
<1> QED BY <1>2, <1>6, <1>7 DEF Unpaid, CasesOf

LEMMA CommitCases ==
    ASSUME IInv, IInv', [Next]_vars, OneDraft, Owed, Cases, NEW w \in Workers,
           CommitSettlement(w), NEW s \in Services
    PROVE  CasesOf(s)'
<1>1. PICK p \in Periods : p = PeriodOf(w)
  <2>1. TypeOK /\ WorkShape /\ worker[w].pc \notin {"idle", "listing", "dunning"}
    BY DEF IInv, CommitSettlement
  <2> QED BY <2>1, PeriodOfType
<1>2. clock' = clock /\ clock \in Nat /\ clock <= clock'
  BY Moments DEF CommitSettlement, IInv, TypeOK
<1>3. dunning'[s] = IF \E b \in worker[w].bills : b.service = s /\ b.paid < b.total
                    THEN OutstandingCase(s, p) ELSE dunning[s]
  BY <1>1 DEF CommitSettlement
<1>4. CASE ~\E b \in worker[w].bills : b.service = s /\ b.paid < b.total
  BY <1>2, <1>3, <1>4, CasesKept
<1>5. CASE \E b \in worker[w].bills : b.service = s /\ b.paid < b.total
  <2>1. PICK b \in worker[w].bills : b.service = s /\ b.paid < b.total
    BY <1>5
  <2>2. dunning[s] \in CaseRow
    BY DEF IInv, TypeOK
  <2>3. PICK g \in Nat, h \in Nat :
           g = dunning[s].graceEndsAt /\ h = End(p) + GracePeriods * Length(p[1])
    <3>1. End(p) \in Nat /\ Length(p[1]) \in Nat /\ GracePeriods \in Nat
      BY PeriodType, LengthType, ConstantsAssumption
    <3>2. GracePeriods * Length(p[1]) \in Nat
      BY <3>1
    <3> QED BY <2>2, <3>1, <3>2 DEF CaseRow
  <2>4. PICK e \in Nat : e = IF dunning[s].outstanding = "NONE" THEN h ELSE g
    BY <2>3
  <2>5. /\ dunning'[s].outstanding = "NOTIFIED"
        /\ dunning'[s].graceEndsAt = e
        /\ dunning'[s].suspension = dunning[s].suspension
    BY <1>3, <1>5, <2>2, <2>3, <2>4 DEF OutstandingCase, CaseRow
  <2>6. Unpaid(s, e)'
    <3>1. CASE dunning[s].outstanding = "NONE"
      <4>1. PICK k \in Keys : k = KeyOf(b, p) /\ invoice'[k] = InvoiceOf(b)
        BY <1>1, CommittedBill
      <4>2. k[1] = s /\ k[3] = p
        BY <2>1, <4>1 DEF KeyOf
      <4>3. invoice'[k].status \in {"PARTIALLY_PAID", "UNPAID"}
        BY <2>1, <4>1 DEF InvoiceOf, Owed
      <4>4. e = h /\ e <= e
        BY <2>3, <2>4, <3>1
      <4> QED BY <2>3, <4>2, <4>3, <4>4 DEF Unpaid
    <3>2. CASE dunning[s].outstanding # "NONE"
      <4>1. Unpaid(s, e) /\ e <= e
        BY <2>3, <2>4, <3>2 DEF Cases, CasesOf
      <4> QED BY <4>1, UnpaidKept
    <3> QED BY <3>1, <3>2
  <2>7. dunning[s].suspension # "NONE" => Unpaid(s, clock)'
    <3>1. PICK c \in Nat : c = clock /\ c <= c
      BY <1>2
    <3>2. dunning[s].suspension # "NONE" => Unpaid(s, c)
      BY <3>1 DEF Cases, CasesOf
    <3>3. dunning[s].suspension # "NONE" => Unpaid(s, c)'
      BY <3>1, <3>2, UnpaidKept
    <3> QED BY <1>2, <3>1, <3>3 DEF Unpaid
  <2>8. Unpaid(s, dunning[s].graceEndsAt)'
    BY <2>5, <2>6 DEF Unpaid
  <2> QED BY <2>5, <2>7, <2>8 DEF CasesOf
<1> QED BY <1>4, <1>5

LEMMA DunningCases ==
    ASSUME IInv, IInv', [Next]_vars, Cases, NEW w \in Workers,
           EnqueueExpiredDunning(w), NEW s \in Services
    PROVE  CasesOf(s)'
<1>1. clock' = clock /\ clock \in Nat /\ clock <= clock'
  <2>1. clock' = clock
    BY DEF EnqueueExpiredDunning
  <2>2. clock \in Nat
    BY Moments DEF IInv, TypeOK
  <2> QED BY <2>1, <2>2
<1>2. CASE s \notin Expired(worker[w].now)
  <2>1. dunning'[s] = dunning[s]
    BY <1>2 DEF EnqueueExpiredDunning
  <2> QED BY <1>1, <2>1, CasesKept
<1>3. CASE s \in Expired(worker[w].now)
  <2>1. dunning[s] \in CaseRow /\ dunning[s].outstanding = "NOTIFIED"
    BY <1>3 DEF IInv, TypeOK, Expired
  <2>2. PICK g \in Nat, c \in Nat : g = dunning[s].graceEndsAt /\ c = clock
    BY <1>1, <2>1 DEF CaseRow
  <2>3. g <= c
    <3>1. g <= worker[w].now /\ worker[w].now <= clock /\ worker[w].now \in Nat
      BY <1>3, <2>2, Moments DEF Expired, IInv, WorkShape, TypeOK, WorkerRow
    <3> QED BY <2>2, <3>1
  <2>4. Unpaid(s, g) /\ g <= g
    BY <2>1, <2>2 DEF Cases, CasesOf
  <2>5. Unpaid(s, g)' /\ Unpaid(s, c)'
    BY <2>3, <2>4, UnpaidKept
  <2>6. dunning'[s].graceEndsAt = g
    <3>1. dunning'[s] = [dunning[s] EXCEPT !.outstanding = "ADMIN_REVIEW",
                                            !.suspension = "ADMIN_REVIEW"]
      BY <1>3 DEF EnqueueExpiredDunning
    <3> QED BY <2>1, <2>2, <3>1 DEF CaseRow
  <2> QED BY <1>1, <2>2, <2>5, <2>6 DEF CasesOf, Unpaid
<1> QED BY <1>2, <1>3

LEMMA ApproveCases ==
    ASSUME IInv, IInv', [Next]_vars, Cases, NEW x \in Services,
           ApproveControlledSuspension(x), NEW s \in Services
    PROVE  CasesOf(s)'
<1>1. clock' = clock /\ clock \in Nat /\ clock <= clock'
  <2>1. clock' = clock
    BY DEF ApproveControlledSuspension
  <2>2. clock \in Nat
    BY Moments DEF IInv, TypeOK
  <2> QED BY <2>1, <2>2
<1>2. dunning \in [Services -> CaseRow]
  BY DEF IInv, TypeOK
<1>3. CASE s # x
  <2>1. dunning'[s] = dunning[s]
    BY <1>2, <1>3 DEF ApproveControlledSuspension
  <2> QED BY <1>1, <2>1, CasesKept
<1>4. CASE s = x
  <2>1. /\ dunning[s].suspension = "ADMIN_REVIEW"
        /\ dunning'[s].outstanding = dunning[s].outstanding
        /\ dunning'[s].graceEndsAt = dunning[s].graceEndsAt
    BY <1>2, <1>4 DEF ApproveControlledSuspension, CaseRow
  <2>2. PICK g \in Nat, c \in Nat : /\ g = dunning[s].graceEndsAt /\ c = clock
                                    /\ g <= g /\ c <= c
    BY <1>1, <1>2 DEF CaseRow
  <2>3. Unpaid(s, c)'
    BY <2>1, <2>2, UnpaidKept DEF Cases, CasesOf
  <2>4. dunning[s].outstanding # "NONE" => Unpaid(s, g)'
    <3>1. dunning[s].outstanding # "NONE" => Unpaid(s, g)
      BY <2>2 DEF Cases, CasesOf
    <3> QED BY <2>2, <3>1, UnpaidKept
  <2> QED BY <1>1, <2>1, <2>2, <2>3, <2>4 DEF CasesOf, Unpaid
<1> QED BY <1>3, <1>4

\* Steps of a worker that do not touch the cases.
LEMMA WorkerKeepsCases ==
    ASSUME NEW w \in Workers, Works(w) \/ TransactionLost(w) \/ Crash(w)
    PROVE  dunning' = dunning \/ CommitSettlement(w) \/ EnqueueExpiredDunning(w)
<1>1. CASE Settles(w)
  <2>1. CASE RecordBillingRunFailure(w)
    BY <2>1 DEF RecordBillingRunFailure
  <2>2. CASE BeginSettlement(w) \/ AcquireRunLock(w) \/ SerializationFailure(w)
    BY <2>2 DEF BeginSettlement, AcquireRunLock, SerializationFailure
  <2>3. CASE \E l \in worker[w].lines :
                MarkInvoiceForReview(w, l) \/ ChargeUsage(w, l) \/ RejectUsage(w, l)
    BY <2>3 DEF MarkInvoiceForReview, ChargeUsage, RejectUsage, Billed, Rejected
  <2> QED BY <1>1, <2>1, <2>2, <2>3 DEF Settles
<1>2. CASE StartCycle(w) \/ ListClosedBillingPeriodsForCatchUp(w)
  BY <1>2 DEF StartCycle, ListClosedBillingPeriodsForCatchUp
<1>3. CASE TransactionLost(w) \/ Crash(w)
  BY <1>3 DEF TransactionLost, Crash
<1> QED BY <1>1, <1>2, <1>3 DEF Works

LEMMA CasesNext ==
    ASSUME IInv, IInv', [Next]_vars, OneDraft, Owed, Cases
    PROVE  Cases'
<1> SUFFICES ASSUME NEW s \in Services PROVE CasesOf(s)'
  BY DEF Cases
<1>1. clock <= clock'
  BY AnyStepEffect DEF StepEffect
<1>2. CASE dunning' = dunning
  BY <1>1, <1>2, CasesKept
<1>3. CASE Tick \/ UNCHANGED vars \/ MoneyNext
  <2>1. dunning' = dunning
    BY <1>3 DEF Tick, vars, MoneyNext, MoveMoney, ApplyProviderBillingAdjustment
  <2> QED BY <1>2, <2>1
<1>4. CASE \E x \in Services : TimelineNext(x)
  BY <1>2, <1>4, TimelineKeepsBooks, ApproveCases
<1>5. CASE \E w \in Workers : Works(w) \/ TransactionLost(w) \/ Crash(w)
  BY <1>2, <1>5, WorkerKeepsCases, CommitCases, DunningCases
<1> QED BY <1>3, <1>4, <1>5 DEF Next

LEMMA DraftsNext ==
    ASSUME IInv, [Next]_vars, OneDraft, Owed
    PROVE  OneDraft' /\ Owed'
<1>1. \A w \in Workers : DraftEffect(w)
  BY AnyDrafts
<1>2. OneDraft'
  BY <1>1, OneDraftStep DEF OneDraft
<1>3. Owed'
  BY <1>1, OwedStep DEF Owed
<1> QED BY <1>2, <1>3

\* A service is put up for suspension only once the grace of an invoice of its own
\* that was not paid in full is over (dunning.ts:17-66).
THEOREM SuspensionsComeAfterGrace == Spec => []SuspensionAfterGrace
<1>1. Init => OneDraft /\ Owed /\ Cases
  <2> SUFFICES ASSUME Init PROVE OneDraft /\ Owed /\ Cases
    OBVIOUS
  <2>1. \A w \in Workers : worker[w].lines = {} /\ worker[w].bills = {}
    BY IdleFacts DEF Init
  <2>2. \A s \in Services : dunning[s].outstanding = "NONE" /\ dunning[s].suspension = "NONE"
    BY DEF Init, NoCases
  <2> QED BY <2>1, <2>2 DEF OneDraft, Owed, Cases, CasesOf
<1>2. IInv /\ IInv' /\ OneDraft /\ Owed /\ Cases /\ [Next]_vars => OneDraft' /\ Owed' /\ Cases'
  BY DraftsNext, CasesNext
<1>3. Cases => SuspensionAfterGrace
  BY DEF Cases, CasesOf, Unpaid, SuspensionAfterGrace
<1> QED BY Invariance, <1>1, <1>2, <1>3, PTL DEF Spec

(***************************************************************************)
(* The past                                                                *)
(***************************************************************************)

\* A moment of a period that is over lies in an hour that is over.
LEMMA HourEnds ==
    ASSUME TypeOK, NEW p \in Periods, End(p) <= clock, NEW t \in Nat, t < End(p)
    PROVE  HourHasEnded(t)
<1>1. PICK n \in Nat \ {0} : n = HourLength
  BY ConstantsAssumption
<1>2. PICK e \in Nat : End(p) = n * e
  <2>1. PICK a \in Nat, l \in Nat \ {0} : /\ a = p[2] /\ l = Length(p[1])
                                          /\ a % l = 0 /\ End(p) = a + l
    BY PeriodType, LengthType, Moments DEF End
  <2>2. PICK d \in Nat : l = n * d
    <3>1. l = n \/ (l = DayLength /\ l % n = 0)
      BY <1>1, <2>1, ConstantsAssumption DEF Length
    <3>2. CASE l = n
      <4>1. l = n * 1
        BY <3>2
      <4> QED BY <4>1
    <3>3. CASE l % n = 0
      <4>1. l = n * (l \div n) /\ l \div n \in Nat
        BY <3>3
      <4> QED BY <4>1
    <3> QED BY <3>1, <3>2, <3>3
  <2>3. PICK q \in Nat : a = l * q
    <3>1. a = l * (a \div l) /\ a \div l \in Nat
      BY <2>1
    <3> QED BY <3>1
  <2>4. (n * d) * q = n * (d * q) /\ d * q \in Nat
    OBVIOUS
  <2>5. n * (d * q) + n * d = n * (d * q + d) /\ d * q + d \in Nat
    OBVIOUS
  <2> QED BY <2>1, <2>2, <2>3, <2>4, <2>5
<1>3. PICK b \in Nat : t - (t % n) = n * b /\ n * b <= t
  <2>1. t = n * (t \div n) + (t % n) /\ t \div n \in Nat /\ t % n \in 0..(n - 1)
    OBVIOUS
  <2>2. n * (t \div n) \in Nat
    BY <2>1
  <2>3. t - (t % n) = n * (t \div n) /\ n * (t \div n) <= t
    BY <2>1, <2>2
  <2> QED BY <2>1, <2>3
<1>4. n * b \in Nat /\ n * e \in Nat
  OBVIOUS
<1>5. n * b + n <= n * e
  <2>1. CASE b < e
    BY <2>1, NextMultiple
  <2>2. CASE b = e
    BY <1>2, <1>3, <1>4, <2>2
  <2>3. CASE e < b
    <3>1. n * e + n <= n * b
      BY <2>3, NextMultiple
    <3> QED BY <1>2, <1>3, <1>4, <3>1
  <2> QED BY <2>1, <2>2, <2>3
<1>6. clock \in Nat
  BY Moments DEF TypeOK
<1>7. End(PeriodContaining("HOURLY", t)) = n * b + n
  BY <1>1, <1>3 DEF End, PeriodContaining, Length
<1> QED BY <1>2, <1>4, <1>5, <1>6, <1>7 DEF HourHasEnded

\* Up to moment e two sequences of rows have the same spans.
SameUntil(rows, more, e) ==
    /\ \A i \in DOMAIN rows : rows[i].from < e => i \in DOMAIN more
    /\ \A i \in DOMAIN more : more[i].from < e => i \in DOMAIN rows
    /\ \A i \in DOMAIN rows \cap DOMAIN more :
          /\ more[i].from = rows[i].from
          /\ more[i].to = rows[i].to \/ (rows[i].to >= e /\ more[i].to >= e)

LEMMA SameUntilSymmetric ==
    ASSUME NEW rows, NEW more, NEW e, SameUntil(rows, more, e)
    PROVE  SameUntil(more, rows, e)
BY DEF SameUntil

LEMMA SameUntilUnchanged ==
    ASSUME NEW rows, NEW more, more = rows, NEW e
    PROVE  SameUntil(rows, more, e)
BY DEF SameUntil

\* What starts or is cut from e on leaves what was before e.
LEMMA ExtendsSameUntil ==
    ASSUME NEW Row, SpanRow(Row), NEW rows \in Seq(Row), rows # << >>, Chain(rows),
           NEW more \in Seq(Row), NEW t \in Ticks, Extends(rows, more, t),
           rows[Len(rows)].from < t, NEW e \in Nat, e <= t
    PROVE  SameUntil(rows, more, e)
<1>1. PICK n \in Nat : n = Len(rows)
  BY RowFacts
<1>2. DOMAIN rows = 1..n /\ rows[n].to = Never
  BY <1>1, RowFacts DEF Chain
<1>3. DOMAIN more = 1..(n + 1)
  BY <1>1, RowFacts DEF Extends
<1>4. /\ \A i \in 1..n : more[i].from = rows[i].from
      /\ \A i \in 1..n : i # n => more[i].to = rows[i].to
      /\ more[n].to = t
  BY <1>1, ExtendedChain
<1>5. more[n + 1].from = t
  BY <1>1 DEF Extends
<1>6. t \in Nat /\ Never \in Nat /\ t < Never
  BY Moments
<1>7. ASSUME NEW i \in 1..(n + 1), more[i].from < e
      PROVE  i \in 1..n
  <2>1. i = n + 1 \/ i \in 1..n
    OBVIOUS
  <2>2. i # n + 1
    BY <1>5, <1>6, <1>7
  <2> QED BY <2>1, <2>2
<1>8. \A i \in 1..n : i \in 1..(n + 1)
  OBVIOUS
<1>9. rows[n].to >= e /\ more[n].to >= e
  BY <1>2, <1>4, <1>6
<1> QED BY <1>2, <1>3, <1>4, <1>7, <1>8, <1>9 DEF SameUntil

\* What the step leaves of the timelines that a period of service s, over at e, is
\* worked out from: its policies, its versions and the cards of its plan.
CardsStay(plan, e) ==
    \A x \in Services : Plan[x] = plan =>
        /\ Started(x) => Started(x)' /\ policy'[x][1].from = policy[x][1].from
        /\ Started(x)' /\ ~Started(x) => policy'[x][1].from >= e

PastStays(s, e) ==
    /\ SameUntil(policy[s], policy'[s], e)
    /\ \A v \in DOMAIN policy[s] \cap DOMAIN policy'[s] :
          policy'[s][v].cadence = policy[s][v].cadence
    /\ SameUntil(resource[s], resource'[s], e)
    /\ \A r \in DOMAIN resource[s] \cap DOMAIN resource'[s] :
          resource'[s][r].active = resource[s][r].active
    /\ CardsStay(Plan[s], e)

LEMMA PastStaysUnchanged ==
    ASSUME NEW s \in Services, NEW e, policy' = policy, resource' = resource
    PROVE  PastStays(s, e)
<1>1. CardsStay(Plan[s], e)
  BY DEF CardsStay, Started
<1>2. SameUntil(policy[s], policy'[s], e) /\ SameUntil(resource[s], resource'[s], e)
  BY SameUntilUnchanged
<1> QED BY <1>1, <1>2 DEF PastStays

\* The first policy of a service stays where it is.
LEMMA CardKept ==
    ASSUME TypeOK, PolicyGrows, NEW x \in Services, Started(x)
    PROVE  Started(x)' /\ policy'[x][1].from = policy[x][1].from
<1>1. policy[x] \in Seq(PolicyRow) /\ policy[x] # << >>
  BY DEF TypeOK, Started
<1>2. 1 \in DOMAIN policy[x]
  BY <1>1, Spans, RowFacts
<1>3. 1 \in DOMAIN policy'[x] /\ policy'[x][1].from = policy[x][1].from
  BY <1>2 DEF PolicyGrows
<1>4. DOMAIN << >> = {}
  OBVIOUS
<1>5. policy'[x] # << >>
  BY <1>3, <1>4
<1> QED BY <1>3, <1>5 DEF Started

LEMMA StartKeepsPast ==
    ASSUME IInv, Timelines, NEW x \in Services, NEW c \in Cadences, NEW t \in Ticks,
           StartInitialUsageBilling(x, c, t),
           NEW s \in Services, s \notin late', NEW p \in Periods, End(p) <= clock
    PROVE  PastStays(s, End(p)) /\ late \subseteq late'
<1>1. TypeOK /\ t \in Nat /\ PolicyGrows
  BY Moments, StartStep DEF IInv
<1>2. PICK e \in Nat : e = End(p)
  BY PeriodType
<1>3. Plan[s] = Plan[x] => t >= e
  <2>1. Plan[s] = Plan[x] /\ HourHasEnded(t) => s \in late'
    BY DEF StartInitialUsageBilling, Delayed
  <2>2. t < e => HourHasEnded(t)
    BY <1>1, <1>2, HourEnds
  <2> QED BY <1>1, <2>1, <2>2
<1>4. late \subseteq late'
  BY DEF StartInitialUsageBilling, Delayed
<1>5. PICK row, version : /\ row.from = t /\ policy'[x] = <<row>> /\ resource'[x] = <<version>>
                          /\ version.from = t
  <2>1. policy'[x] = <<[cadence |-> c, from |-> t, to |-> Never]>>
    BY <1>1 DEF TypeOK, StartInitialUsageBilling
  <2>2. resource'[x] = <<[active |-> TRUE, from |-> t, to |-> Never]>>
    BY <1>1 DEF TypeOK, StartInitialUsageBilling
  <2>3. \E row, version : /\ row.from = t /\ <<[cadence |-> c, from |-> t, to |-> Never]>> = <<row>>
                          /\ <<[active |-> TRUE, from |-> t, to |-> Never]>> = <<version>>
                          /\ version.from = t
    <3> WITNESS [cadence |-> c, from |-> t, to |-> Never], [active |-> TRUE, from |-> t, to |-> Never]
    <3> QED OBVIOUS
  <2> QED BY <2>1, <2>2, <2>3
<1>6. \A y \in Services \ {x} : policy'[y] = policy[y] /\ resource'[y] = resource[y]
  BY <1>1 DEF TypeOK, StartInitialUsageBilling
<1>7. policy[x] = << >> /\ resource[x] \in Seq(VersionRow)
  BY <1>1 DEF StartInitialUsageBilling, Started, TypeOK
<1>8. CardsStay(Plan[s], e)
  <2> SUFFICES ASSUME NEW y \in Services, Plan[y] = Plan[s]
               PROVE  /\ Started(y) => Started(y)' /\ policy'[y][1].from = policy[y][1].from
                      /\ Started(y)' /\ ~Started(y) => policy'[y][1].from >= e
    BY DEF CardsStay
  <2>1. Started(y)' /\ ~Started(y) => y = x
    BY <1>6 DEF Started
  <2>2. policy'[x][1].from = t
    BY <1>5
  <2> QED BY <1>1, <1>3, <2>1, <2>2, CardKept
<1>9. CASE s # x
  <2>1. SameUntil(policy[s], policy'[s], e) /\ SameUntil(resource[s], resource'[s], e)
    BY <1>6, <1>9, SameUntilUnchanged
  <2> QED BY <1>2, <1>4, <1>6, <1>8, <1>9, <2>1 DEF PastStays
<1>10. CASE s = x
  <2>1. \A r : r.from = t => SameUntil(<< >>, <<r>>, e)
    <3> SUFFICES ASSUME NEW r, r.from = t PROVE SameUntil(<< >>, <<r>>, e)
      OBVIOUS
    <3>1. DOMAIN << >> = {} /\ DOMAIN <<r>> = {1} /\ <<r>>[1] = r
      OBVIOUS
    <3>2. ~(r.from < e)
      BY <1>1, <1>3, <1>10
    <3> QED BY <3>1, <3>2 DEF SameUntil
  <2>2. policy[s] = << >> /\ resource[s] = << >>
    BY <1>7, <1>10 DEF Timelines, Timeline, Started
  <2>3. DOMAIN policy[s] = {} /\ DOMAIN resource[s] = {}
    BY <2>2
  <2>4. SameUntil(policy[s], policy'[s], e) /\ SameUntil(resource[s], resource'[s], e)
    BY <1>5, <1>10, <2>1, <2>2
  <2> QED BY <1>2, <1>4, <1>8, <2>3, <2>4 DEF PastStays
<1> QED BY <1>9, <1>10

LEMMA ScheduleKeepsPast ==
    ASSUME IInv, TypeOK', Timelines, NEW x \in Services, NEW c \in Cadences, NEW t \in Ticks,
           ScheduleServiceBillingCadenceChange(x, c, t),
           NEW s \in Services, NEW p \in Periods, End(p) <= clock
    PROVE  PastStays(s, End(p)) /\ late \subseteq late'
<1>1. /\ TypeOK /\ TypeOK' /\ PolicyGrows /\ Timelines' /\ Extends(policy[x], policy'[x], t)
      /\ t \in Nat /\ clock \in Nat /\ t > clock
  BY Moments, ScheduleStep, ScheduleTimeline, ScheduledAfterNow DEF IInv, TypeOK
<1>2. PICK e \in Nat : e = End(p) /\ e <= t
  BY <1>1, PeriodType
<1>3. /\ resource' = resource /\ late' = late
      /\ Started(x) /\ \A v \in DOMAIN policy[x] : policy[x][v].from <= clock
      /\ \A y \in Services \ {x} : policy'[y] = policy[y]
  BY <1>1 DEF ScheduleServiceBillingCadenceChange, TypeOK
<1>4. SameUntil(policy[s], policy'[s], e)
  <2>1. CASE s # x
    BY <1>3, <2>1, SameUntilUnchanged
  <2>2. CASE s = x
    <3>1. PICK P \in Seq(PolicyRow), P2 \in Seq(PolicyRow) : P = policy[s] /\ P2 = policy'[s]
      BY <1>1 DEF TypeOK
    <3>2. P # << >> /\ Chain(P) /\ Extends(P, P2, t) /\ \A v \in DOMAIN P : P[v].from <= clock
      BY <1>1, <1>3, <2>2, <3>1 DEF Started, Timelines, Timeline
    <3>3. Len(P) \in DOMAIN P /\ P[Len(P)].from \in Nat
      BY <3>2, Spans, RowFacts
    <3>4. P[Len(P)].from < t
      BY <1>1, <3>2, <3>3
    <3>5. SameUntil(P, P2, e)
      BY <1>2, <3>2, <3>4, Spans, ExtendsSameUntil
    <3> QED BY <3>1, <3>5
  <2> QED BY <2>1, <2>2
<1>5. CardsStay(Plan[s], e)
  <2>1. ASSUME NEW y \in Services, Started(y)' PROVE Started(y)
    BY <1>3, <2>1 DEF Started
  <2> QED BY <1>1, <2>1, CardKept DEF CardsStay
<1>6. SameUntil(resource[s], resource'[s], e)
  BY <1>3, SameUntilUnchanged
<1> QED BY <1>1, <1>2, <1>3, <1>4, <1>5, <1>6 DEF PastStays, PolicyGrows

LEMMA RecordKeepsPast ==
    ASSUME IInv, TypeOK', Timelines, NEW x \in Services, NEW active \in BOOLEAN, NEW t \in Ticks,
           RecordProviderConfirmedResourceVersion(x, active, t),
           NEW s \in Services, s \notin late', NEW p \in Periods, End(p) <= clock
    PROVE  PastStays(s, End(p)) /\ late \subseteq late'
<1>1. /\ TypeOK /\ TypeOK' /\ Timelines' /\ Extends(resource[x], resource'[x], t) /\ t \in Nat
  BY Moments, RecordTimeline DEF IInv
<1>2. PICK e \in Nat : e = End(p)
  BY PeriodType
<1>3. s = x => e <= t
  <2>1. HourHasEnded(t) => x \in late'
    BY DEF RecordProviderConfirmedResourceVersion, Delayed
  <2>2. t < e => HourHasEnded(t)
    BY <1>1, <1>2, HourEnds
  <2> QED BY <1>1, <2>1, <2>2
<1>4. /\ policy' = policy /\ late \subseteq late' /\ Started(x) /\ Current(x).from < t
      /\ \A y \in Services \ {x} : resource'[y] = resource[y]
  BY <1>1 DEF RecordProviderConfirmedResourceVersion, TypeOK, Delayed
<1>5. ASSUME s = x
      PROVE  /\ SameUntil(resource[s], resource'[s], e)
             /\ \A r \in DOMAIN resource[s] : resource'[s][r].active = resource[s][r].active
  <2>1. PICK R \in Seq(VersionRow), R2 \in Seq(VersionRow) : R = resource[s] /\ R2 = resource'[s]
    BY <1>1 DEF TypeOK
  <2>2. R # << >> /\ Chain(R) /\ Extends(R, R2, t) /\ R[Len(R)].from < t
    BY <1>1, <1>4, <1>5, <2>1 DEF Started, Timelines, Timeline, Current
  <2>3. SameUntil(R, R2, e)
    BY <1>2, <1>3, <1>5, <2>2, Spans, ExtendsSameUntil
  <2>4. R2 = Append([R EXCEPT ![Len(R) + 1 - 1].to = t], [active |-> active, from |-> t, to |-> Never])
    BY <1>1, <1>5, <2>1 DEF RecordProviderConfirmedResourceVersion, TypeOK
  <2>5. PICK n \in Nat : n = Len(R) /\ DOMAIN R = 1..n /\ n \in 1..n /\ R[n] \in VersionRow
    BY <2>2, Spans, RowFacts
  <2>6. PICK cut : cut = [R[n] EXCEPT !.to = t]
    OBVIOUS
  <2>7. cut.active = R[n].active /\ cut \in VersionRow
    <3>1. t \in 0..Never
      BY Moments DEF Ticks, Never
    <3> QED BY <2>5, <2>6, <3>1 DEF VersionRow
  <2>8. PICK old : old = [R EXCEPT ![n] = cut]
    OBVIOUS
  <2>9. old \in Seq(VersionRow) /\ Len(old) = n /\ \A r \in 1..n : old[r].active = R[r].active
    BY <2>5, <2>7, <2>8, ExceptSeq
  <2>10. PICK next : next = [active |-> active, from |-> t, to |-> Never]
    OBVIOUS
  <2>11. R2 = Append(old, next) /\ next \in VersionRow
    <3>1. n + 1 - 1 = n
      OBVIOUS
    <3>2. R2 = Append([R EXCEPT ![n].to = t], next)
      BY <2>4, <2>5, <2>10, <3>1
    <3> QED BY <2>6, <2>8, <2>10, <3>2, Moments DEF VersionRow
  <2>12. \A r \in 1..n : R2[r] = old[r]
    BY <2>9, <2>11, AppendProperties
  <2> QED BY <2>1, <2>3, <2>5, <2>9, <2>12
<1>6. CardsStay(Plan[s], e) /\ SameUntil(policy[s], policy'[s], e)
  BY <1>4, SameUntilUnchanged DEF CardsStay, Started
<1>7. s # x => SameUntil(resource[s], resource'[s], e)
  BY <1>4, SameUntilUnchanged
<1> QED BY <1>2, <1>4, <1>5, <1>6, <1>7 DEF PastStays

\* No step changes what a period that is over is worked out from, except the late ones.
LEMMA PastKept ==
    ASSUME IInv, IInv', Timelines, [Next]_vars,
           NEW s \in Services, s \notin late', NEW p \in Periods, End(p) <= clock
    PROVE  PastStays(s, End(p)) /\ late \subseteq late'
<1>1. CASE UNCHANGED timeline
  BY <1>1, PastStaysUnchanged DEF timeline
<1>2. CASE UNCHANGED vars \/ Tick \/ MoneyNext
  <2>1. UNCHANGED timeline
    BY <1>2 DEF vars, Tick, MoneyNext, MoveMoney, ApplyProviderBillingAdjustment
  <2> QED BY <1>1, <2>1
<1>3. CASE \E x \in Services : TimelineNext(x)
  <2>1. PICK x \in Services : TimelineNext(x)
    BY <1>3
  <2>2. TypeOK'
    BY DEF IInv
  <2>3. CASE ApproveControlledSuspension(x)
    BY <1>1, <2>3 DEF ApproveControlledSuspension
  <2>4. CASE \E t \in Ticks, c \in Cadences : StartInitialUsageBilling(x, c, t)
    BY <2>4, StartKeepsPast
  <2>5. CASE \E t \in Ticks, c \in Cadences : ScheduleServiceBillingCadenceChange(x, c, t)
    BY <2>2, <2>5, ScheduleKeepsPast
  <2>6. CASE \E t \in Ticks, active \in BOOLEAN :
                RecordProviderConfirmedResourceVersion(x, active, t)
    BY <2>2, <2>6, RecordKeepsPast
  <2> QED BY <2>1, <2>3, <2>4, <2>5, <2>6 DEF TimelineNext
<1>4. CASE \E w \in Workers : Works(w) \/ TransactionLost(w) \/ Crash(w)
  BY <1>1, <1>4, WorkerKeepsTimeline
<1> QED BY <1>2, <1>3, <1>4 DEF Next

(***************************************************************************)
(* What a period that is over is worked out to                             *)
(***************************************************************************)

\* The parts of a window that the versions account for.
Part(R, r, w) == [active |-> R[r].active, from |-> Later(w.from, R[r].from),
                  to |-> Earlier(w.to, R[r].to)]
Parts(R, w) == {u \in {Part(R, r, w) : r \in DOMAIN R} : u.from < u.to}

SpanParts(P, R, v, w) ==
    {u \in {[active |-> R[i.resource].active,
             from |-> Later(Later(w.from, i.from), R[i.resource].from),
             to |-> Earlier(Earlier(w.to, i.to), R[i.resource].to)] :
              i \in {j \in SharedSpans(P, R) : j.policy = v}} : u.from < u.to}

\* The usage intervals of a policy are, inside its window, its versions.
LEMMA UsageParts ==
    ASSUME NEW P \in Seq(PolicyRow), NEW R \in Seq(VersionRow), NEW v \in DOMAIN P, NEW w,
           w.from \in Nat, w.to \in Nat, P[v].from <= w.from, w.to <= P[v].to
    PROVE  SpanParts(P, R, v, w) = Parts(R, w)
<1>1. /\ \A x \in DOMAIN P : P[x].from \in Nat /\ P[x].to \in Nat
      /\ \A y \in DOMAIN R : R[y].from \in Nat /\ R[y].to \in Nat
  BY Spans, RowFacts
<1>2. PICK a \in Nat, b \in Nat : a = w.from /\ b = w.to
  OBVIOUS
<1>3. P[v].from \in Nat /\ P[v].to \in Nat /\ P[v].from <= a /\ b <= P[v].to
  BY <1>1, <1>2
<1>4. ASSUME NEW r \in DOMAIN R, NEW i, i = Shared(P, R, v, r)
      PROVE  /\ Later(Later(a, i.from), R[r].from) = Later(a, R[r].from)
             /\ Earlier(Earlier(b, i.to), R[r].to) = Earlier(b, R[r].to)
             /\ Later(a, R[r].from) < Earlier(b, R[r].to) => i.from < i.to
             /\ i.resource = r /\ i.policy = v
  <2>1. /\ i.from = IF P[v].from < R[r].from THEN R[r].from ELSE P[v].from
        /\ i.to = IF P[v].to < R[r].to THEN P[v].to ELSE R[r].to
        /\ i.resource = r /\ i.policy = v
    BY <1>1, <1>3, <1>4, SharedFacts
  <2>2. R[r].from \in Nat /\ R[r].to \in Nat
    BY <1>1
  <2>3. Later(Later(a, i.from), R[r].from) = Later(a, R[r].from)
    BY <1>3, <2>1, <2>2 DEF Later
  <2>4. Earlier(Earlier(b, i.to), R[r].to) = Earlier(b, R[r].to)
    <3>1. PICK c, d \in Nat : c = P[v].to /\ d = R[r].to
      BY <1>3, <2>2
    <3>2. b <= c /\ i.to = Earlier(c, d)
      BY <1>3, <1>4, <3>1 DEF Shared
    <3>3. Earlier(Earlier(b, Earlier(c, d)), d) = Earlier(b, d)
      BY <3>2, EarlierOnce
    <3> QED BY <3>1, <3>2, <3>3
  <2>5. Later(a, R[r].from) < Earlier(b, R[r].to) => i.from < i.to
    <3>1. PICK p, q, f, g \in Nat :
            p = P[v].from /\ q = P[v].to /\ f = R[r].from /\ g = R[r].to
      BY <1>3, <2>2
    <3>2. p <= a /\ b <= q
      BY <1>3, <3>1
    <3>3. i.from = Later(p, f) /\ i.to = Earlier(q, g)
      BY <1>4, <3>1 DEF Shared
    <3>4. Later(a, f) < Earlier(b, g) => Later(p, f) < Earlier(q, g)
      BY <3>2, WiderOverlaps
    <3> QED BY <3>1, <3>3, <3>4
  <2> QED BY <2>1, <2>3, <2>4, <2>5
<1>5. PICK spans : spans = {i \in SharedSpans(P, R) : i.policy = v}
  OBVIOUS
<1>6. \A i \in spans : i.resource \in DOMAIN R /\ i = Shared(P, R, v, i.resource)
  BY <1>5 DEF SharedSpans, Shared
<1>7. \A r \in DOMAIN R : Part(R, r, w).from < Part(R, r, w).to => Shared(P, R, v, r) \in spans
  <2> SUFFICES ASSUME NEW r \in DOMAIN R, Part(R, r, w).from < Part(R, r, w).to
               PROVE  Shared(P, R, v, r) \in spans
    OBVIOUS
  <2>1. PICK i : i = Shared(P, R, v, r)
    OBVIOUS
  <2>2. Later(a, R[r].from) < Earlier(b, R[r].to)
    BY <1>2 DEF Part
  <2>3. i.from < i.to /\ i.policy = v
    BY <1>4, <2>1, <2>2
  <2>4. i \in SharedSpans(P, R)
    BY <1>3, <2>1, <2>3 DEF SharedSpans
  <2> QED BY <1>5, <2>1, <2>3, <2>4
<1> DEFINE Use(i) == [active |-> R[i.resource].active,
                      from |-> Later(Later(w.from, i.from), R[i.resource].from),
                      to |-> Earlier(Earlier(w.to, i.to), R[i.resource].to)]
<1>8. \A i \in spans : Use(i) = Part(R, i.resource, w)
  <2> SUFFICES ASSUME NEW i \in spans PROVE Use(i) = Part(R, i.resource, w)
    OBVIOUS
  <2>1. PICK r \in DOMAIN R : r = i.resource /\ i = Shared(P, R, v, r)
    BY <1>6
  <2>2. /\ Later(Later(a, i.from), R[r].from) = Later(a, R[r].from)
        /\ Earlier(Earlier(b, i.to), R[r].to) = Earlier(b, R[r].to)
    BY <1>4, <2>1
  <2> QED BY <1>2, <2>1, <2>2 DEF Part
<1>9. SpanParts(P, R, v, w) = {u \in {Use(i) : i \in spans} : u.from < u.to}
  BY <1>5 DEF SpanParts
<1> HIDE DEF Use
<1>10. \A i \in spans : i.resource \in DOMAIN R
  BY <1>6
<1>11. \A r \in DOMAIN R : Shared(P, R, v, r).resource = r
  BY <1>4
<1>12. {u \in {Use(i) : i \in spans} : u.from < u.to} = Parts(R, w)
  <2>1. ASSUME NEW i \in spans, Use(i).from < Use(i).to PROVE Use(i) \in Parts(R, w)
    <3>1. Use(i) = Part(R, i.resource, w) /\ i.resource \in DOMAIN R
      BY <1>8, <1>10
    <3> QED BY <2>1, <3>1 DEF Parts
  <2>2. ASSUME NEW r \in DOMAIN R, Part(R, r, w).from < Part(R, r, w).to
        PROVE  \E i \in spans : Use(i) = Part(R, r, w)
    <3>1. PICK i \in spans : i = Shared(P, R, v, r)
      BY <1>7, <2>2
    <3>2. i.resource = r
      BY <1>11, <3>1
    <3> QED BY <1>8, <3>2
  <2> QED BY <2>1, <2>2 DEF Parts
<1> QED BY <1>9, <1>12

\* Versions that are the same until a window ends account for the same parts of it.
LEMMA PartsWithin ==
    ASSUME NEW R \in Seq(VersionRow), NEW R2 \in Seq(VersionRow), NEW e \in Nat,
           SameUntil(R, R2, e),
           \A r \in DOMAIN R \cap DOMAIN R2 : R2[r].active = R[r].active,
           NEW w, w.from \in Nat, w.to \in Nat, w.to <= e
    PROVE  Parts(R, w) \subseteq Parts(R2, w)
<1> SUFFICES ASSUME NEW u \in Parts(R, w) PROVE u \in Parts(R2, w)
  OBVIOUS
<1>1. PICK r \in DOMAIN R : u = Part(R, r, w) /\ u.from < u.to
  BY DEF Parts
<1>2. /\ \A y \in DOMAIN R : R[y].from \in Nat /\ R[y].to \in Nat
      /\ \A y \in DOMAIN R2 : R2[y].from \in Nat /\ R2[y].to \in Nat
  BY Spans, RowFacts
<1>3. R[r].from \in Nat /\ R[r].to \in Nat
  BY <1>2
<1>4. R[r].from < e
  BY <1>1, <1>3 DEF Part, Later, Earlier
<1>5. r \in DOMAIN R2 /\ R2[r].from = R[r].from /\ R2[r].active = R[r].active
  BY <1>4 DEF SameUntil
<1>6. R2[r].to = R[r].to \/ (R[r].to >= e /\ R2[r].to >= e)
  BY <1>5 DEF SameUntil
<1>7. Earlier(w.to, R2[r].to) = Earlier(w.to, R[r].to)
  BY <1>2, <1>3, <1>5, <1>6 DEF Earlier
<1>8. Part(R2, r, w) = u
  BY <1>1, <1>5, <1>7 DEF Part
<1> QED BY <1>1, <1>5, <1>8 DEF Parts

LEMMA PartsKept ==
    ASSUME NEW R \in Seq(VersionRow), NEW R2 \in Seq(VersionRow), NEW e \in Nat,
           SameUntil(R, R2, e),
           \A r \in DOMAIN R \cap DOMAIN R2 : R2[r].active = R[r].active,
           NEW w, w.from \in Nat, w.to \in Nat, w.to <= e
    PROVE  Parts(R, w) = Parts(R2, w)
<1>1. SameUntil(R2, R, e)
  BY SameUntilSymmetric
<1>2. \A r \in DOMAIN R2 \cap DOMAIN R : R[r].active = R2[r].active
  OBVIOUS
<1>3. Parts(R, w) \subseteq Parts(R2, w)
  BY PartsWithin
<1>4. Parts(R2, w) \subseteq Parts(R, w)
  BY <1>1, <1>2, PartsWithin
<1> QED BY <1>3, <1>4

\* The moments at which an interval is cut, and the slices between them.
Bounds(plan, u) ==
    {t \in {u.from, u.to} \cup {CardStart(x) : x \in Cards(plan)} : u.from <= t /\ t <= u.to}
Between(bounds) ==
    {z \in bounds \X bounds : z[1] < z[2] /\ \A t \in bounds : ~(z[1] < t /\ t < z[2])}

LEMMA CardTypes ==
    ASSUME NEW P \in Seq(PolicyRow), P # << >>
    PROVE  P[1].from \in Nat
BY Spans, RowFacts

LEMMA BoundsKept ==
    ASSUME TypeOK, TypeOK', NEW plan, NEW e \in Nat, CardsStay(plan, e),
           NEW u, u.from \in Nat, u.to \in Nat, u.to <= e
    PROVE  Bounds(plan, u)' = Bounds(plan, u)
<1>1. ASSUME NEW x \in Services
      PROVE  /\ Started(x) => CardStart(x) \in Nat
             /\ Started(x)' => CardStart(x)' \in Nat
  BY CardTypes DEF TypeOK, Started, CardStart
<1>2. ASSUME NEW x \in Services, Plan[x] = plan
      PROVE  /\ Started(x) => Started(x)' /\ CardStart(x)' = CardStart(x)
             /\ Started(x)' /\ ~Started(x) => CardStart(x)' >= e
  BY <1>2 DEF CardsStay, CardStart
<1>3. ASSUME NEW t \in Bounds(plan, u) PROVE t \in Bounds(plan, u)'
  <2>1. t \in {u.from, u.to} \/ \E x \in Cards(plan) : t = CardStart(x)
    BY <1>3 DEF Bounds
  <2>2. u.from <= t /\ t <= u.to
    BY <1>3 DEF Bounds
  <2>3. CASE \E x \in Cards(plan) : t = CardStart(x)
    <3>1. PICK x \in Services : Plan[x] = plan /\ Started(x) /\ t = CardStart(x)
      BY <2>3 DEF Cards
    <3>2. Started(x)' /\ t = CardStart(x)'
      BY <1>2, <3>1
    <3> QED BY <2>2, <3>1, <3>2 DEF Bounds, Cards
  <2> QED BY <2>1, <2>2, <2>3 DEF Bounds
<1>4. ASSUME NEW t \in Bounds(plan, u)' PROVE t \in Bounds(plan, u)
  <2>1. t \in {u.from, u.to} \/ \E x \in Cards(plan)' : t = CardStart(x)'
    BY <1>4 DEF Bounds
  <2>2. u.from <= t /\ t <= u.to
    BY <1>4 DEF Bounds
  <2>3. CASE \E x \in Cards(plan)' : t = CardStart(x)'
    <3>1. PICK x \in Services : Plan[x] = plan /\ Started(x)' /\ t = CardStart(x)'
      BY <2>3 DEF Cards
    <3>2. CASE Started(x)
      <4>1. t = CardStart(x)
        BY <1>2, <3>1, <3>2
      <4> QED BY <2>2, <3>1, <3>2, <4>1 DEF Bounds, Cards
    <3>3. CASE ~Started(x)
      <4>1. t >= e /\ t \in Nat
        BY <1>1, <1>2, <3>1, <3>3
      <4>2. t = u.to
        BY <2>2, <4>1
      <4> QED BY <2>2, <4>2 DEF Bounds
    <3> QED BY <3>2, <3>3
  <2> QED BY <2>1, <2>2, <2>3 DEF Bounds
<1> QED BY <1>3, <1>4

LEMMA SlicesKept ==
    ASSUME TypeOK, TypeOK', NEW plan, NEW e \in Nat, CardsStay(plan, e),
           NEW u, u.from \in Nat, u.to \in Nat, u.to <= e
    PROVE  /\ Slices(plan, u)' = Slices(plan, u)
           /\ \A z \in Slices(plan, u) : z[1] \in Nat /\ z[1] < e
<1>1. PICK B : B = Bounds(plan, u)
  OBVIOUS
<1>2. Bounds(plan, u)' = B
  BY <1>1, BoundsKept
<1>3. Slices(plan, u) = Between(B)
  BY <1>1 DEF Slices, Bounds, Between
<1>4. Slices(plan, u)' = Between(B)
  BY <1>2 DEF Slices, Bounds, Between
<1>5. \A t \in B : t \in Nat /\ t <= u.to
  BY <1>1, CardTypes DEF Bounds, Cards, TypeOK, Started, CardStart
<1>6. \A z \in Between(B) : z[1] \in B /\ z[2] \in B /\ z[1] < z[2]
  BY DEF Between
<1>7. \A z \in Between(B) : z[1] \in Nat /\ z[1] < e
  BY <1>5, <1>6
<1> QED BY <1>3, <1>4, <1>7

LEMMA InForceKept ==
    ASSUME TypeOK, TypeOK', NEW plan, NEW e \in Nat, CardsStay(plan, e), NEW t \in Nat, t < e
    PROVE  InForce(plan, t)' = InForce(plan, t)
<1>1. ASSUME NEW x \in Services
      PROVE  /\ Started(x) => CardStart(x) \in Nat
             /\ Started(x)' => CardStart(x)' \in Nat
  BY CardTypes DEF TypeOK, Started, CardStart
<1>2. ASSUME NEW x \in Services, Plan[x] = plan
      PROVE  /\ Started(x) => Started(x)' /\ CardStart(x)' = CardStart(x)
             /\ Started(x)' /\ ~Started(x) => CardStart(x)' >= e
  BY <1>2 DEF CardsStay, CardStart
<1>3. ASSUME NEW x \in Services, Plan[x] = plan
      PROVE  Started(x) /\ CardStart(x) <= t <=> Started(x)' /\ CardStart(x)' <= t
  BY <1>1, <1>2, <1>3
<1> QED BY <1>3 DEF InForce, Cards

LEMMA OutcomeKept ==
    ASSUME TypeOK, TypeOK', NEW s \in Services, NEW e \in Nat, CardsStay(Plan[s], e),
           NEW J, \A u \in J : u.from \in Nat /\ u.to \in Nat /\ u.to <= e, NEW w
    PROVE  Outcome(s, J, w)' = Outcome(s, J, w)
<1>1. PICK plan : plan = Plan[s]
  OBVIOUS
<1>2. \A u \in J : /\ Slices(plan, u)' = Slices(plan, u)
                   /\ \A z \in Slices(plan, u) : z[1] \in Nat /\ z[1] < e
  BY <1>1, SlicesKept
<1>3. PICK A : A = {x \in J : x.active}
  OBVIOUS
<1>4. PICK Z : Z = UNION {Slices(plan, u) : u \in A}
  OBVIOUS
<1>5. Z = UNION {Slices(plan, u)' : u \in A}
  BY <1>2, <1>3, <1>4
<1>6. \A z \in Z : Unratable(plan, z)' <=> Unratable(plan, z)
  <2> SUFFICES ASSUME NEW z \in Z PROVE Unratable(plan, z)' <=> Unratable(plan, z)
    OBVIOUS
  <2>1. z[1] \in Nat /\ z[1] < e
    BY <1>2, <1>3, <1>4
  <2>2. InForce(plan, z[1])' = InForce(plan, z[1])
    BY <1>1, <2>1, InForceKept
  <2> QED BY <2>2 DEF Unratable
<1>7. PICK bad : bad = {z \in Z : Unratable(plan, z) \/ ~WholeSeconds(z)}
  OBVIOUS
<1>8. bad = {z \in Z : Unratable(plan, z)' \/ ~WholeSeconds(z)}
  BY <1>6, <1>7
<1>9. (\E z \in bad : Unratable(plan, z) /\ \A y \in bad : z[1] <= y[1]) <=>
      (\E z \in bad : Unratable(plan, z)' /\ \A y \in bad : z[1] <= y[1])
  BY <1>6, <1>7
<1>10. Outcome(s, J, w) =
          IF J = {} \/ ~ValidCoverage(w, J) THEN "review"
          ELSE IF bad = {} THEN "bill"
          ELSE IF \E z \in bad : Unratable(plan, z) /\ \A y \in bad : z[1] <= y[1]
               THEN "review" ELSE "throw"
  <2>1. bad = {z \in UNION {Slices(plan, u) : u \in {x \in J : x.active}} :
                 Unratable(plan, z) \/ ~WholeSeconds(z)}
    BY <1>3, <1>4, <1>7
  <2> QED BY <1>1, <2>1 DEF Outcome
<1>11. Outcome(s, J, w)' =
          IF J = {} \/ ~ValidCoverage(w, J) THEN "review"
          ELSE IF bad = {} THEN "bill"
          ELSE IF \E z \in bad : Unratable(plan, z)' /\ \A y \in bad : z[1] <= y[1]
               THEN "review" ELSE "throw"
  <2>1. bad = {z \in UNION {Slices(plan, u)' : u \in {x \in J : x.active}} :
                 Unratable(plan, z)' \/ ~WholeSeconds(z)}
    BY <1>3, <1>5, <1>8
  <2> QED BY <1>1, <2>1 DEF Outcome
<1> QED BY <1>9, <1>10, <1>11

\* The snapshots of a period that is over are the same after the step, and so is
\* what each of them is charged.
LEMMA SnapshotsKept ==
    ASSUME TypeOK, TypeOK', NEW p \in Periods, NEW x \in LoadSnapshots(p)',
           PastStays(x[1], End(p))
    PROVE  x \in LoadSnapshots(p)
<1>1. PICK s \in Services, v \in 1..MaxPolicies : s = x[1] /\ v = x[2] /\ x = <<s, v>>
  BY DEF LoadSnapshots
<1>2. PICK P \in Seq(PolicyRow), P2 \in Seq(PolicyRow) : P = policy[s] /\ P2 = policy'[s]
  BY DEF TypeOK
<1>3. PICK e \in Nat, b \in Nat : e = End(p) /\ b = p[2] /\ b < e
  BY PeriodType, Moments
<1>4. v \in DOMAIN P2 /\ P2[v].cadence = p[1] /\ P2[v].from < e /\ P2[v].to > b
  BY <1>1, <1>2, <1>3 DEF LoadSnapshots, Overlaps
<1>5. SameUntil(P, P2, e) /\ \A i \in DOMAIN P \cap DOMAIN P2 : P2[i].cadence = P[i].cadence
  BY <1>1, <1>2, <1>3 DEF PastStays
<1>6. /\ v \in DOMAIN P /\ P2[v].from = P[v].from /\ P[v].cadence = p[1]
      /\ P2[v].to = P[v].to \/ (P[v].to >= e /\ P2[v].to >= e)
  BY <1>4, <1>5 DEF SameUntil
<1>7. P[v].to \in Nat /\ P2[v].to \in Nat
  BY <1>4, <1>6, Spans, RowFacts
<1>8. P[v].from < e /\ P[v].to > b
  BY <1>3, <1>4, <1>6, <1>7
<1> QED BY <1>1, <1>2, <1>3, <1>6, <1>8 DEF LoadSnapshots, Overlaps

LEMMA WindowFacts ==
    ASSUME NEW P \in Seq(PolicyRow), NEW v \in DOMAIN P, NEW p \in Periods,
           NEW w, w = [from |-> Later(p[2], P[v].from), to |-> Earlier(End(p), P[v].to)]
    PROVE  /\ w.from \in Nat /\ w.to \in Nat /\ w.to <= End(p)
           /\ P[v].from <= w.from /\ w.to <= P[v].to
<1>1. PICK a \in Nat, b \in Nat : a = P[v].from /\ b = P[v].to
  BY Spans, RowFacts
<1>2. PICK c \in Nat, e \in Nat : c = p[2] /\ e = End(p)
  BY PeriodType, Moments
<1>3. w.from = Later(c, a) /\ w.to = Earlier(e, b)
  BY <1>1, <1>2
<1>4. /\ Later(c, a) \in Nat /\ Earlier(e, b) \in Nat
      /\ a <= Later(c, a) /\ Earlier(e, b) <= e /\ Earlier(e, b) <= b
  BY DEF Later, Earlier
<1> QED BY <1>1, <1>2, <1>3, <1>4

LEMMA WindowKept ==
    ASSUME TypeOK, TypeOK', NEW p \in Periods, NEW x \in LoadSnapshots(p)',
           PastStays(x[1], End(p))
    PROVE  Window(x[1], x[2], p)' = Window(x[1], x[2], p)
<1>1. PICK s \in Services, v \in {x[2]} : s = x[1] /\ v = x[2] /\ v \in DOMAIN policy'[s]
  BY DEF LoadSnapshots
<1>2. PICK P \in Seq(PolicyRow), P2 \in Seq(PolicyRow) : P = policy[s] /\ P2 = policy'[s]
  BY DEF TypeOK
<1>3. PICK e \in Nat, b \in Nat : e = End(p) /\ b = p[2] /\ b < e
  BY PeriodType, Moments
<1>4. P2[v].from < e /\ v \in DOMAIN P2
  BY <1>1, <1>2, <1>3 DEF LoadSnapshots, Overlaps
<1>5. SameUntil(P, P2, e)
  BY <1>1, <1>2, <1>3 DEF PastStays
<1>6. /\ v \in DOMAIN P /\ P2[v].from = P[v].from
      /\ P2[v].to = P[v].to \/ (P[v].to >= e /\ P2[v].to >= e)
  BY <1>4, <1>5 DEF SameUntil
<1>7. P[v].to \in Nat /\ P2[v].to \in Nat
  BY <1>4, <1>6, Spans, RowFacts
<1>8. Earlier(e, P2[v].to) = Earlier(e, P[v].to)
  BY <1>6, <1>7 DEF Earlier
<1> QED BY <1>1, <1>2, <1>3, <1>6, <1>8 DEF Window

LEMMA LineKept ==
    ASSUME TypeOK, TypeOK', Timelines, Timelines', NEW p \in Periods,
           NEW x \in LoadSnapshots(p)', PastStays(x[1], End(p))
    PROVE  Line(x[1], x[2], p)' = Line(x[1], x[2], p)
<1>1. PICK s \in Services, v \in {x[2]} : s = x[1] /\ v = x[2]
  BY DEF LoadSnapshots
<1>2. PICK e \in Nat : e = End(p)
  BY PeriodType
<1>3. x \in LoadSnapshots(p)
  BY SnapshotsKept
<1>4. PICK w : w = Window(s, v, p)
  OBVIOUS
<1>5. Window(s, v, p)' = w
  BY <1>1, <1>4, WindowKept
<1>6. PICK P \in Seq(PolicyRow), P2 \in Seq(PolicyRow) : P = policy[s] /\ P2 = policy'[s]
  BY DEF TypeOK
<1>7. PICK R \in Seq(VersionRow), R2 \in Seq(VersionRow) : R = resource[s] /\ R2 = resource'[s]
  BY DEF TypeOK
<1>8. /\ v \in DOMAIN P /\ w = [from |-> Later(p[2], P[v].from), to |-> Earlier(End(p), P[v].to)]
      /\ v \in DOMAIN P2
      /\ w = [from |-> Later(p[2], P2[v].from), to |-> Earlier(End(p), P2[v].to)]
  BY <1>1, <1>3, <1>4, <1>5, <1>6 DEF LoadSnapshots, Window
<1>9. PICK J : J = Parts(R, w)
  OBVIOUS
<1>10. w.from \in Nat /\ w.to \in Nat /\ w.to <= e /\ BoundedIntervals(s, v, w) = J
  <2>1. /\ w.from \in Nat /\ w.to \in Nat /\ w.to <= e
        /\ P[v].from <= w.from /\ w.to <= P[v].to
    BY <1>2, <1>8, WindowFacts
  <2>2. SpanParts(P, R, v, w) = J
    BY <1>8, <1>9, <2>1, UsageParts
  <2>3. BoundedIntervals(s, v, w) = SpanParts(P, R, v, w)
    BY <1>6, <1>7 DEF Timelines, Timeline, BoundedIntervals, SpanParts
  <2> QED BY <2>1, <2>2, <2>3
<1>11. Parts(R2, w) = J
  <2>1. SameUntil(R, R2, e) /\ \A r \in DOMAIN R \cap DOMAIN R2 : R2[r].active = R[r].active
    BY <1>1, <1>2, <1>7 DEF PastStays
  <2>2. Parts(R, w) = Parts(R2, w)
    BY <1>2, <1>10, <2>1, PartsKept
  <2> QED BY <1>9, <2>2
<1>12. BoundedIntervals(s, v, w)' = J
  <2>1. P2[v].from <= w.from /\ w.to <= P2[v].to
    BY <1>8, WindowFacts
  <2>2. SpanParts(P2, R2, v, w) = J
    BY <1>8, <1>10, <1>11, <2>1, UsageParts
  <2>3. BoundedIntervals(s, v, w)' = SpanParts(P2, R2, v, w)
    BY <1>6, <1>7 DEF Timelines, Timeline, BoundedIntervals, SpanParts
  <2> QED BY <2>2, <2>3
<1>13. \A u \in J : u.from \in Nat /\ u.to \in Nat /\ u.to <= e
  <2> SUFFICES ASSUME NEW u \in J PROVE u.from \in Nat /\ u.to \in Nat /\ u.to <= e
    OBVIOUS
  <2>1. PICK r \in DOMAIN R : u = Part(R, r, w)
    BY <1>9 DEF Parts
  <2>2. R[r].from \in Nat /\ R[r].to \in Nat
    BY Spans, RowFacts
  <2>3. u.from = Later(w.from, R[r].from) /\ u.to = Earlier(w.to, R[r].to)
    BY <2>1 DEF Part
  <2> QED BY <1>10, <2>2, <2>3 DEF Later, Earlier
<1>14. CardsStay(Plan[s], e)
  BY <1>1, <1>2 DEF PastStays
<1>15. PICK o : o = Outcome(s, J, w)
  OBVIOUS
<1>16. Outcome(s, J, w)' = o
  BY <1>13, <1>14, <1>15, OutcomeKept
<1>17. Line(s, v, p) = [service |-> s, policy |-> v, from |-> w.from, to |-> w.to,
                        outcome |-> o, total |-> Rate * UsageOf(w, J)]
  BY <1>4, <1>10, <1>15 DEF Line
<1>18. Line(s, v, p)' = [service |-> s, policy |-> v, from |-> w.from, to |-> w.to,
                         outcome |-> o, total |-> Rate * UsageOf(w, J)]
  BY <1>5, <1>12, <1>16 DEF Line
<1> QED BY <1>1, <1>17, <1>18

(***************************************************************************)
(* What was charged, and in which order                                    *)
(***************************************************************************)

\* A period that is settled is over.
Closed == \A p \in Periods : run[p] \in TerminalRun => End(p) <= clock

\* The transaction has the line still to do, or its bill charges what it says.
InHand(w, l) ==
    \/ l \in worker[w].lines
    \/ \E b \in worker[w].bills : b.service = l.service /\ b.policy = l.policy /\ AsUsed(b, l)

\* A transaction has read all that its period's timelines say now.
Read ==
    \A w \in Workers : InTransaction(w) =>
        \A x \in LoadSnapshots(PeriodOf(w)) : x[1] \notin late =>
            InHand(w, Line(x[1], x[2], PeriodOf(w)))

LEMMA TransactionPeriod ==
    ASSUME IInv, NEW w \in Workers, Busy(w)
    PROVE  /\ PeriodOf(w) \in Periods /\ End(PeriodOf(w)) <= clock
           /\ PeriodOf(w)[1] = worker[w].cadence /\ PeriodOf(w)[2] \in worker[w].todo
BY PeriodOfType DEF IInv, Busy, Resting

\* Only the commit of its own transaction settles a period.
LEMMA NewlySettled ==
    ASSUME IInv, [Next]_vars, NEW p \in Periods,
           run'[p] \in TerminalRun, run[p] \notin TerminalRun
    PROVE  \E w \in Workers : CommitSettlement(w) /\ p = PeriodOf(w)
<1>1. run' # run
  OBVIOUS
<1>2. ~(UNCHANGED vars \/ Tick \/ MoneyNext)
  BY <1>1 DEF vars, Tick, MoneyNext, MoveMoney, ApplyProviderBillingAdjustment, books
<1>3. ~\E s \in Services : TimelineNext(s)
  BY <1>1, TimelineKeepsBooks
<1>4. PICK w \in Workers : Works(w) \/ TransactionLost(w) \/ Crash(w)
  BY <1>2, <1>3 DEF Next
<1>5. ~RecordBillingRunFailure(w)
  BY FailureStep
<1>6. CommitSettlement(w)
  <2>1. ~(TransactionLost(w) \/ Crash(w) \/ StartCycle(w) \/ ListClosedBillingPeriodsForCatchUp(w)
          \/ EnqueueExpiredDunning(w))
    BY <1>1 DEF TransactionLost, Crash, StartCycle, ListClosedBillingPeriodsForCatchUp,
                EnqueueExpiredDunning, books
  <2>2. ~(BeginSettlement(w) \/ AcquireRunLock(w) \/ SerializationFailure(w))
    BY <1>1 DEF BeginSettlement, AcquireRunLock, SerializationFailure, books
  <2>3. ~\E l \in worker[w].lines :
             MarkInvoiceForReview(w, l) \/ ChargeUsage(w, l) \/ RejectUsage(w, l)
    BY <1>1 DEF MarkInvoiceForReview, ChargeUsage, RejectUsage, Billed, Rejected, books
  <2> QED BY <1>4, <1>5, <2>1, <2>2, <2>3 DEF Works, Settles
<1>7. run'[p] \in TerminalRun <=> p = PeriodOf(w) \/ run[p] \in TerminalRun
  BY <1>6, CommitStep DEF Commits
<1> QED BY <1>6, <1>7

LEMMA ClosedStep ==
    ASSUME IInv, [Next]_vars, Closed
    PROVE  Closed'
<1> SUFFICES ASSUME NEW p \in Periods, run'[p] \in TerminalRun PROVE End(p) <= clock'
  BY DEF Closed
<1>1. End(p) \in Nat /\ clock \in Nat /\ clock' \in Nat /\ clock <= clock'
  BY AnyStepEffect, PeriodType, Moments DEF StepEffect, IInv, TypeOK
<1>2. CASE run[p] \in TerminalRun
  BY <1>1, <1>2 DEF Closed
<1>3. CASE run[p] \notin TerminalRun
  <2>1. PICK w \in Workers : CommitSettlement(w) /\ p = PeriodOf(w)
    BY <1>3, NewlySettled
  <2>2. Busy(w)
    BY <2>1 DEF CommitSettlement, Busy, Resting
  <2> QED BY <1>1, <2>1, <2>2, TransactionPeriod
<1> QED BY <1>2, <1>3

LEMMA InHandStep ==
    ASSUME NEW w \in Workers, DraftEffect(w), InTransaction(w), InTransaction(w)',
           NEW l, InHand(w, l)
    PROVE  InHand(w, l)'
<1>1. ~EmptyHanded(w) /\ ~Begins(w)
  BY DEF EmptyHanded, Begins, InTransaction
<1>2. CASE SameDrafts(w)
  BY <1>2 DEF SameDrafts, InHand
<1>3. CASE Drafted(w)
  <2>1. PICK d \in worker[w].lines, b \in BillRow :
           /\ b.service = d.service /\ b.policy = d.policy /\ AsUsed(b, d)
           /\ worker'[w].lines = worker[w].lines \ {d}
           /\ worker'[w].bills = worker[w].bills \cup {b}
    BY <1>3 DEF Drafted, BillOf
  <2>2. CASE l = d
    BY <2>1, <2>2 DEF InHand
  <2>3. CASE l # d
    BY <2>1, <2>3 DEF InHand
  <2> QED BY <2>2, <2>3
<1> QED BY <1>1, <1>2, <1>3 DEF DraftEffect

LEMMA ReadStep ==
    ASSUME IInv, IInv', Timelines, Timelines', [Next]_vars, Read
    PROVE  Read'
<1> SUFFICES ASSUME NEW w \in Workers, InTransaction(w)', NEW x \in LoadSnapshots(PeriodOf(w))',
                    x[1] \notin late'
             PROVE  InHand(w, Line(x[1], x[2], PeriodOf(w)))'
  BY DEF Read
<1>1. TypeOK /\ TypeOK' /\ DraftEffect(w)
  BY AnyDrafts DEF IInv
<1>2. /\ ~EmptyHanded(w)
      /\ PeriodOf(w)' = PeriodOf(w) /\ Busy(w)
      /\ Begins(w) \/ InTransaction(w)
  <2>1. ~EmptyHanded(w)
    BY DEF EmptyHanded
  <2>2. worker'[w].cadence = worker[w].cadence /\ worker'[w].todo = worker[w].todo
    BY <1>1, <2>1 DEF DraftEffect, SameDrafts, Begins, Drafted
  <2>3. Begins(w) \/ InTransaction(w)
    BY <1>1, <2>1 DEF DraftEffect, SameDrafts, Drafted
  <2>4. Busy(w)
    BY <2>3 DEF Begins, InTransaction, Busy, Resting
  <2> QED BY <2>1, <2>2, <2>3, <2>4, SamePeriodNext
<1>3. PICK p \in Periods : p = PeriodOf(w) /\ End(p) <= clock
  BY <1>2, TransactionPeriod
<1>4. x \in LoadSnapshots(p)'
  BY <1>2, <1>3
<1>5. x[1] \in Services
  BY <1>4 DEF LoadSnapshots
<1>6. PastStays(x[1], End(p)) /\ late \subseteq late'
  BY <1>3, <1>5, PastKept
<1>7. x \in LoadSnapshots(p) /\ x[1] \notin late
  BY <1>1, <1>4, <1>6, SnapshotsKept
<1>8. PICK l : l = Line(x[1], x[2], p)
  OBVIOUS
<1>9. Line(x[1], x[2], p)' = l
  BY <1>1, <1>4, <1>6, <1>8, LineKept
<1>10. InHand(w, l)'
  <2>1. CASE Begins(w)
    BY <1>3, <1>7, <1>8, <2>1 DEF Begins, InHand
  <2>2. CASE InTransaction(w)
    <3>1. InHand(w, l)
      BY <1>3, <1>7, <1>8, <2>2 DEF Read
    <3> QED BY <1>1, <2>2, <3>1, InHandStep
  <2> QED BY <1>2, <2>1, <2>2
<1>11. Line(x[1], x[2], PeriodOf(w))' = l
  BY <1>2, <1>3, <1>9
<1> QED BY <1>10, <1>11

LEMMA SettledStep ==
    ASSUME IInv, IInv', Timelines, Timelines', [Next]_vars, OneDraft, Closed, Read, SettledAsUsed
    PROVE  SettledAsUsed'
<1> SUFFICES ASSUME NEW p \in Periods, run'[p] \in TerminalRun, NEW x \in LoadSnapshots(p)',
                    x[1] \notin late'
             PROVE  AsUsed(invoice[<<x[1], x[2], p>>], Line(x[1], x[2], p))'
  BY DEF SettledAsUsed, AsUsed
<1>1. TypeOK /\ TypeOK' /\ clock \in Nat
  BY Moments DEF IInv, TypeOK
<1>2. x[1] \in Services /\ x[2] \in 1..MaxPolicies
  BY DEF LoadSnapshots
<1>3. PICK k \in Keys : k = <<x[1], x[2], p>>
  BY <1>2 DEF Keys
<1>4. ASSUME End(p) <= clock
      PROVE  /\ x \in LoadSnapshots(p) /\ x[1] \notin late
             /\ Line(x[1], x[2], p)' = Line(x[1], x[2], p)
  <2>1. PastStays(x[1], End(p)) /\ late \subseteq late'
    BY <1>2, <1>4, PastKept
  <2> QED BY <1>1, <2>1, SnapshotsKept, LineKept
<1>5. PICK l : l = Line(x[1], x[2], p)
  OBVIOUS
<1>6. CASE run[p] \in TerminalRun
  <2>1. End(p) <= clock
    BY <1>6 DEF Closed
  <2>2. AsUsed(invoice[k], l)
    BY <1>3, <1>4, <1>5, <1>6, <2>1 DEF SettledAsUsed, AsUsed
  <2>3. invoice[k].status # "ABSENT"
    BY <2>2 DEF AsUsed, SettledInvoice
  <2>4. invoice'[k] = invoice[k]
    BY <2>3, InvoiceKept
  <2>5. PICK i : i = invoice[k] /\ i = invoice'[k] /\ AsUsed(i, l)
    BY <2>2, <2>4
  <2> QED BY <1>3, <1>4, <1>5, <2>1, <2>5
<1>7. CASE run[p] \notin TerminalRun
  <2>1. PICK w \in Workers : CommitSettlement(w) /\ p = PeriodOf(w)
    BY <1>7, NewlySettled
  <2>2. InTransaction(w) /\ Busy(w) /\ worker[w].lines = {}
    BY <2>1 DEF CommitSettlement, InTransaction, Busy, Resting
  <2>3. End(p) <= clock
    BY <2>1, <2>2, TransactionPeriod
  <2>4. InHand(w, l)
    BY <1>4, <1>5, <2>1, <2>2, <2>3 DEF Read
  <2>5. PICK b \in worker[w].bills :
           b.service = l.service /\ b.policy = l.policy /\ AsUsed(b, l)
    BY <2>2, <2>4 DEF InHand
  <2>6. l.service = x[1] /\ l.policy = x[2]
    BY <1>5 DEF Line
  <2>7. KeyOf(b, p) = k
    BY <1>3, <2>5, <2>6 DEF KeyOf
  <2>8. invoice'[k] = InvoiceOf(b)
    BY <2>1, <2>7, CommittedBill
  <2>9. AsUsed(InvoiceOf(b), l)
    BY <2>5 DEF AsUsed, InvoiceOf
  <2>10. PICK i : i = invoice'[k] /\ AsUsed(i, l)
    BY <2>8, <2>9
  <2> QED BY <1>3, <1>4, <1>5, <2>3, <2>10
<1> QED BY <1>6, <1>7

\* A settled period has charged each of its services what the service's timeline says
\* of it, whatever crashed, was tried again, raced with it or changed since
\* (worker.ts:1107-1137, resource-timeline.ts:137-218).
THEOREM SettlementsStandAsUsed == Spec => []SettledAsUsed
<1>1. Init => Timelines /\ OneDraft /\ Owed /\ Closed /\ Read /\ SettledAsUsed
  <2> SUFFICES ASSUME Init PROVE OneDraft /\ Owed /\ Closed /\ Read /\ SettledAsUsed
    BY TimelinesInit
  <2>1. \A w \in Workers : worker[w].lines = {} /\ worker[w].bills = {} /\ ~InTransaction(w)
    BY IdleFacts DEF Init, InTransaction
  <2>2. \A p \in Periods : run[p] \notin TerminalRun
    BY DEF Init, TerminalRun
  <2> QED BY <2>1, <2>2 DEF OneDraft, Owed, Closed, Read, SettledAsUsed
<1>2. /\ IInv /\ IInv' /\ [Next]_vars
      /\ Timelines /\ OneDraft /\ Owed /\ Closed /\ Read /\ SettledAsUsed
      => Timelines' /\ OneDraft' /\ Owed' /\ Closed' /\ Read' /\ SettledAsUsed'
  <2> SUFFICES ASSUME IInv, IInv', [Next]_vars, Timelines, OneDraft, Owed, Closed, Read,
                      SettledAsUsed
               PROVE  Timelines' /\ OneDraft' /\ Owed' /\ Closed' /\ Read' /\ SettledAsUsed'
    OBVIOUS
  <2>1. Timelines'
    BY TimelinesNext
  <2> QED BY <2>1, DraftsNext, ClosedStep, ReadStep, SettledStep
<1> QED BY Invariance, <1>1, <1>2, PTL DEF Spec

\* A period of the cadence before one that is to be settled, with usage of a service
\* without a late confirmation, is settled unless the worker is to settle it too.
InOrder ==
    \A w \in Workers : Busy(w) =>
        \A q \in Periods :
            /\ q[1] = worker[w].cadence /\ q[2] \notin worker[w].todo
            /\ \E t \in worker[w].todo : q[2] < t
            /\ \E x \in LoadSnapshots(q) : x[1] \notin late
            => run[q] \in TerminalRun

\* A period ends before the next one of its cadence starts.
LEMMA EarlierEnds ==
    ASSUME NEW q \in Periods, NEW p \in Periods, q[1] = p[1], q[2] < p[2]
    PROVE  End(q) \in Nat /\ End(p) \in Nat /\ End(q) <= p[2] /\ End(q) < End(p)
<1>1. PICK l \in Nat \ {0}, a \in Nat, b \in Nat :
         /\ l = Length(p[1]) /\ a = q[2] /\ b = p[2] /\ a % l = 0 /\ b % l = 0
         /\ End(q) = a + l /\ End(p) = b + l
  BY PeriodType, LengthType, Moments DEF End
<1>2. a = l * (a \div l) /\ a \div l \in Nat /\ b = l * (b \div l) /\ b \div l \in Nat
  BY <1>1
<1>3. PICK x \in Nat, y \in Nat : a = l * x /\ b = l * y
  BY <1>2
<1>4. l * x \in Nat /\ l * y \in Nat
  OBVIOUS
<1>5. x < y
  <2>1. x # y
    BY <1>1, <1>3, <1>4
  <2>2. ~(y < x)
    <3>1. y < x => l * y + l <= l * x
      BY NextMultiple
    <3> QED BY <1>1, <1>3, <1>4, <3>1
  <2> QED BY <2>1, <2>2
<1>6. l * x + l <= l * y
  BY <1>5, NextMultiple
<1> QED BY <1>1, <1>3, <1>4, <1>6

LEMMA RunKept ==
    ASSUME IInv, [Next]_vars, NEW p \in Periods, run[p] \in TerminalRun
    PROVE  run'[p] \in TerminalRun
BY AnyStepEffect DEF StepEffect, BooksEffect, Commits

\* The period a worker settles is the first of those it is to settle.
LEMMA FirstPeriod ==
    ASSUME IInv, NEW w \in Workers, Busy(w)
    PROVE  \A t \in worker[w].todo : t \in Nat /\ PeriodOf(w)[2] <= t
<1>1. worker[w].todo \in SUBSET Nat /\ worker[w].todo # {}
  BY Moments DEF IInv, TypeOK, WorkerRow, WorkShape, Busy, Resting
<1>2. \E y \in worker[w].todo : \A x \in worker[w].todo : y <= x
  BY <1>1, LeastExists
<1>3. PeriodOf(w)[2] = CHOOSE y \in worker[w].todo : \A x \in worker[w].todo : y <= x
  BY DEF PeriodOf
<1>4. \A x \in worker[w].todo : PeriodOf(w)[2] <= x
  BY <1>2, <1>3
<1> QED BY <1>1, <1>4

\* What a worker is to settle are periods of its cadence that are over.
LEMMA ToDo ==
    ASSUME IInv, NEW w \in Workers, Busy(w), NEW t \in worker[w].todo, NEW p,
           p = <<worker[w].cadence, t>>
    PROVE  p \in Periods /\ p[1] = worker[w].cadence /\ p[2] = t /\ End(p) <= clock
<1>1. /\ worker[w].cadence \in Cadences /\ t \in Ticks /\ worker[w].now \in Nat /\ clock \in Nat
      /\ worker[w].now <= clock
      /\ t % Length(worker[w].cadence) = 0 /\ t + Length(worker[w].cadence) <= worker[w].now
  BY Moments DEF IInv, TypeOK, WorkerRow, WorkShape, Busy, Resting
<1>2. p[1] = worker[w].cadence /\ p[2] = t /\ p \in Periods
  BY <1>1 DEF Periods
<1>3. End(p) = t + Length(worker[w].cadence) /\ End(p) \in Nat
  BY <1>2, PeriodType DEF End
<1> QED BY <1>1, <1>2, <1>3

\* The oldest that are outstanding leave out none that is older than one of them.
LEMMA OldestInOrder ==
    ASSUME IInv, NEW c \in Cadences, NEW now \in Nat, NEW t \in Oldest(c, now),
           NEW q \in Periods, q[1] = c, q[2] < t, LoadSnapshots(q) # {},
           q[2] \notin Oldest(c, now)
    PROVE  run[q] \in TerminalRun
<1> SUFFICES ASSUME run[q] \notin TerminalRun PROVE FALSE
  OBVIOUS
<1>1. PICK S : S = Outstanding(c, now)
  OBVIOUS
<1>2. PICK p \in Periods : p[1] = c /\ p[2] = t /\ End(p) <= now
  BY DEF Oldest, Outstanding
<1>3. End(q) <= now
  <2>1. End(q) \in Nat /\ End(p) \in Nat /\ End(q) < End(p)
    BY <1>2, EarlierEnds
  <2> QED BY <1>2, <2>1
<1>4. q[2] \in S
  BY <1>1, <1>3 DEF Outstanding
<1>5. S \subseteq Ticks /\ IsFiniteSet(S)
  <2>1. S \subseteq Ticks
    BY <1>1, PeriodType DEF Outstanding
  <2>2. IsFiniteSet(Ticks)
    BY Moments, FS_Interval DEF Ticks
  <2> QED BY <2>1, <2>2, FS_Subset
<1>6. PICK A, B : A = {x \in S : x < q[2]} /\ B = {x \in S : x < t}
  OBVIOUS
<1>7. A \subseteq B /\ IsFiniteSet(B)
  <2>1. \A x \in S : x \in Nat
    BY <1>5, Moments
  <2>2. q[2] \in Nat /\ t \in Nat
    BY <1>2, PeriodType, Moments
  <2>3. A \subseteq B
    BY <1>6, <2>1, <2>2
  <2>4. B \subseteq S
    BY <1>6
  <2> QED BY <1>5, <2>3, <2>4, FS_Subset
<1>8. Cardinality(A) \in Nat /\ Cardinality(B) \in Nat /\ Cardinality(A) <= Cardinality(B)
  <2>1. IsFiniteSet(A) /\ Cardinality(A) <= Cardinality(B)
    BY <1>7, FS_Subset
  <2> QED BY <1>7, <2>1, FS_CardinalityType
<1>9. Cardinality(B) < CatchUpLimit
  BY <1>1, <1>6 DEF Oldest
<1>10. Cardinality(A) < CatchUpLimit
  BY <1>8, <1>9, ConstantsAssumption
<1>11. q[2] \in Oldest(c, now)
  BY <1>1, <1>4, <1>6, <1>10 DEF Oldest
<1> QED BY <1>11

LEMMA TodoEffect ==
    ASSUME NEW w \in Workers, DraftEffect(w), Busy(w)'
    PROVE  /\ worker'[w].cadence = worker[w].cadence
           /\ \/ Busy(w) /\ worker'[w].todo = worker[w].todo
              \/ /\ Busy(w) /\ worker'[w].todo = worker[w].todo \ {PeriodOf(w)[2]}
                 /\ run'[PeriodOf(w)] \in TerminalRun
              \/ worker'[w].todo = Oldest(worker[w].cadence, worker[w].now)
<1>1. CASE SameDrafts(w)
  BY <1>1 DEF SameDrafts
<1>2. CASE EmptyHanded(w)
  BY <1>2 DEF EmptyHanded
<1>3. CASE Begins(w) \/ Drafted(w)
  BY <1>3 DEF Begins, Drafted, Busy, Resting, InTransaction
<1> QED BY <1>1, <1>2, <1>3 DEF DraftEffect

LEMMA InOrderStep ==
    ASSUME IInv, IInv', Timelines, [Next]_vars, InOrder
    PROVE  InOrder'
<1> SUFFICES ASSUME NEW w \in Workers, Busy(w)', NEW q \in Periods,
                    q[1] = worker'[w].cadence, q[2] \notin worker'[w].todo,
                    NEW t \in worker'[w].todo, q[2] < t,
                    NEW x \in LoadSnapshots(q)', x[1] \notin late'
             PROVE  run'[q] \in TerminalRun
  BY DEF InOrder
<1>1. TypeOK /\ TypeOK' /\ DraftEffect(w)
  BY AnyDrafts DEF IInv
<1>2. ASSUME NEW p \in Periods, p[1] = q[1], p[2] = t, End(p) <= clock
      PROVE  x \in LoadSnapshots(q) /\ x[1] \notin late
  <2>1. End(q) <= clock
    <3>1. End(q) \in Nat /\ End(p) \in Nat /\ End(q) < End(p)
      BY <1>2, EarlierEnds
    <3>2. clock \in Nat
      BY <1>1, Moments DEF TypeOK
    <3> QED BY <1>2, <3>1, <3>2
  <2>2. x[1] \in Services
    BY DEF LoadSnapshots
  <2>3. PastStays(x[1], End(q)) /\ late \subseteq late'
    BY <2>1, <2>2, PastKept
  <2> QED BY <1>1, <2>3, SnapshotsKept
<1>3. worker'[w].cadence = worker[w].cadence
  BY <1>1, TodoEffect
<1>4. ASSUME Busy(w), t \in worker[w].todo, q[2] \notin worker[w].todo
      PROVE  run'[q] \in TerminalRun
  <2>1. PICK p \in Periods : p[1] = q[1] /\ p[2] = t /\ End(p) <= clock
    <3>1. PICK p : p = <<worker[w].cadence, t>>
      OBVIOUS
    <3>2. p \in Periods /\ p[1] = worker[w].cadence /\ p[2] = t /\ End(p) <= clock
      BY <1>4, <3>1, ToDo
    <3> QED BY <1>3, <3>2
  <2>2. x \in LoadSnapshots(q) /\ x[1] \notin late
    BY <1>2, <2>1
  <2>3. run[q] \in TerminalRun
    BY <1>3, <1>4, <2>2 DEF InOrder
  <2> QED BY <2>3, RunKept
<1>5. CASE Busy(w) /\ worker'[w].todo = worker[w].todo
  BY <1>4, <1>5
<1>6. CASE /\ Busy(w) /\ worker'[w].todo = worker[w].todo \ {PeriodOf(w)[2]}
           /\ run'[PeriodOf(w)] \in TerminalRun
  <2>1. CASE q[2] \in worker[w].todo
    <3>1. q[2] = PeriodOf(w)[2]
      BY <1>6, <2>1
    <3>2. PeriodOf(w) \in Periods /\ PeriodOf(w)[1] = q[1]
      BY <1>3, <1>6, TransactionPeriod
    <3>3. q = PeriodOf(w)
      BY <3>1, <3>2, PeriodType
    <3> QED BY <1>6, <3>3
  <2>2. CASE q[2] \notin worker[w].todo
    BY <1>4, <1>6, <2>2
  <2> QED BY <2>1, <2>2
<1>7. CASE worker'[w].todo = Oldest(worker[w].cadence, worker[w].now)
  <2>1. PICK c \in Cadences, now \in Nat :
           c = worker[w].cadence /\ now = worker[w].now /\ now <= clock
    BY <1>1, Moments DEF IInv, TypeOK, WorkerRow, WorkShape
  <2>2. t \in Oldest(c, now) /\ q[2] \notin Oldest(c, now) /\ q[1] = c
    BY <1>3, <1>7, <2>1
  <2>3. PICK p \in Periods : p[1] = q[1] /\ p[2] = t /\ End(p) <= now
    BY <2>2 DEF Oldest, Outstanding
  <2>4. End(p) <= clock
    BY <1>1, <2>1, <2>3, PeriodType, Moments DEF TypeOK
  <2>5. LoadSnapshots(q) # {}
    BY <1>2, <2>3, <2>4
  <2>6. run[q] \in TerminalRun
    BY <2>2, <2>5, OldestInOrder
  <2> QED BY <2>6, RunKept
<1> QED BY <1>1, <1>5, <1>6, <1>7, TodoEffect

LEMMA SettledInOrderStep ==
    ASSUME IInv, IInv', Timelines, [Next]_vars, Closed, InOrder, SettledInOrder
    PROVE  SettledInOrder'
<1> SUFFICES ASSUME NEW p \in Periods, NEW q \in Periods, run'[p] \in TerminalRun,
                    q[1] = p[1], q[2] < p[2], NEW x \in LoadSnapshots(q)', x[1] \notin late'
             PROVE  run'[q] \in TerminalRun
  BY DEF SettledInOrder
<1>1. TypeOK /\ TypeOK' /\ clock \in Nat
  BY Moments DEF IInv, TypeOK
<1>2. ASSUME End(p) <= clock
      PROVE  x \in LoadSnapshots(q) /\ x[1] \notin late
  <2>1. End(q) <= clock
    <3>1. End(q) \in Nat /\ End(p) \in Nat /\ End(q) < End(p)
      BY EarlierEnds
    <3> QED BY <1>1, <1>2, <3>1
  <2>2. x[1] \in Services
    BY DEF LoadSnapshots
  <2>3. PastStays(x[1], End(q)) /\ late \subseteq late'
    BY <2>1, <2>2, PastKept
  <2> QED BY <1>1, <2>3, SnapshotsKept
<1>3. CASE run[p] \in TerminalRun
  <2>1. x \in LoadSnapshots(q) /\ x[1] \notin late
    BY <1>2, <1>3 DEF Closed
  <2>2. run[q] \in TerminalRun
    BY <1>3, <2>1 DEF SettledInOrder
  <2> QED BY <2>2, RunKept
<1>4. CASE run[p] \notin TerminalRun
  <2>1. PICK w \in Workers : CommitSettlement(w) /\ p = PeriodOf(w)
    BY <1>4, NewlySettled
  <2>2. Busy(w)
    BY <2>1 DEF CommitSettlement, Busy, Resting
  <2>3. End(p) <= clock /\ p[1] = worker[w].cadence /\ p[2] \in worker[w].todo
    BY <2>1, <2>2, TransactionPeriod
  <2>4. q[2] \notin worker[w].todo
    <3>1. \A t \in worker[w].todo : t \in Nat /\ p[2] <= t
      BY <2>1, <2>2, FirstPeriod
    <3>2. p[2] \in Nat
      BY PeriodType, Moments
    <3> QED BY <3>1, <3>2
  <2>5. x \in LoadSnapshots(q) /\ x[1] \notin late
    BY <1>2, <2>3
  <2>6. run[q] \in TerminalRun
    BY <2>2, <2>3, <2>4, <2>5 DEF InOrder
  <2> QED BY <2>6, RunKept
<1> QED BY <1>3, <1>4

\* A period is settled only after those of its cadence before it, whichever worker
\* settles them and whatever fails in between (worker.ts:1107-1137).
THEOREM PeriodsSettleInOrder == Spec => []SettledInOrder
<1>1. Init => Timelines /\ Closed /\ InOrder /\ SettledInOrder
  <2> SUFFICES ASSUME Init PROVE Closed /\ InOrder /\ SettledInOrder
    BY TimelinesInit
  <2>1. \A w \in Workers : ~Busy(w)
    BY IdleFacts DEF Init, Busy, Resting
  <2>2. \A p \in Periods : run[p] \notin TerminalRun
    BY DEF Init, TerminalRun
  <2> QED BY <2>1, <2>2 DEF Closed, InOrder, SettledInOrder
<1>2. /\ IInv /\ IInv' /\ [Next]_vars
      /\ Timelines /\ Closed /\ InOrder /\ SettledInOrder
      => Timelines' /\ Closed' /\ InOrder' /\ SettledInOrder'
  BY TimelinesNext, ClosedStep, InOrderStep, SettledInOrderStep
<1> QED BY Invariance, <1>1, <1>2, PTL DEF Spec
=================================================================================
