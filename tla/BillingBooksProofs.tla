--------------------------- MODULE BillingBooksProofs ---------------------------
(***************************************************************************)
(* That the books of usage billing balance, for any number of services,    *)
(* users and workers: a wallet holds its opening balance and what other    *)
(* products moved, less the sum of what the user's invoices have been paid *)
(* and their adjustments have moved.                                       *)
(*                                                                         *)
(* A sum over a finite set is worked out by taking out one element after   *)
(* the other; what holds of it is proved by looking at the smallest set    *)
(* for which it would not.                                                 *)
(*                                                                         *)
(* The books hold because a transaction that is not stale has seen the     *)
(* wallets it touches as they are, less what its own bills take, and only  *)
(* one transaction at a time has bills of a user's.                        *)
(***************************************************************************)
EXTENDS BillingUsageProofs

(***************************************************************************)
(* Sums over finite sets                                                   *)
(***************************************************************************)

\* A family of subsets of a finite set has a smallest one.
LEMMA Smallest ==
    ASSUME NEW S, IsFiniteSet(S), NEW F, F \subseteq SUBSET S, F # {}
    PROVE  \E T \in F : \A U \in F : U \subseteq T => U = T
<1>1. IsWellFoundedOn(StrictSubsetOrdering(S), FiniteSubsetsOf(S))
  BY FS_StrictSubsetOrderingWellFounded
<1>2. F \subseteq FiniteSubsetsOf(S)
  BY FS_Subset DEF FiniteSubsetsOf
<1>3. \E T \in F : \A U \in F : ~ (<<U, T>> \in StrictSubsetOrdering(S))
  BY <1>1, <1>2, WFMin
<1> QED BY <1>2, <1>3 DEF StrictSubsetOrdering, FiniteSubsetsOf

Chosen(T) == CHOOSE x \in T : TRUE

LEMMA ChosenIn == \A T : T # {} => Chosen(T) \in T
BY DEF Chosen

\* F adds f up over the subsets of S, as the fold does.
Adding(f, S, F) ==
    F = [T \in SUBSET S |-> IF T = {} THEN 0 ELSE f[Chosen(T)] + F[T \ {Chosen(T)}]]

LEMMA SumFolds ==
    ASSUME NEW f, NEW S, NEW F, Adding(f, S, F)
    PROVE  \E G : Adding(f, S, G) /\ SumFunctionOnSet(f, S) = G[S]
BY DEF SumFunctionOnSet, FoldFunctionOnSet, MapThenFoldSet, Adding, Chosen

LEMMA AddingIsUnique ==
    ASSUME NEW S, IsFiniteSet(S), NEW f, NEW F, NEW G, Adding(f, S, F), Adding(f, S, G)
    PROVE  \A T \in SUBSET S : F[T] = G[T]
<1> DEFINE Bad == {T \in SUBSET S : F[T] # G[T]}
<1>1. SUFFICES ASSUME Bad # {} PROVE FALSE
  OBVIOUS
<1>2. PICK T \in Bad : \A U \in Bad : U \subseteq T => U = T
  <2>1. Bad \subseteq SUBSET S
    OBVIOUS
  <2> HIDE DEF Bad
  <2> QED BY <1>1, <2>1, Smallest
<1>3. CASE T = {}
  BY <1>2, <1>3 DEF Adding
<1>4. CASE T # {}
  <2>1. Chosen(T) \in T
    BY <1>4, ChosenIn
  <2>2. T \ {Chosen(T)} \in SUBSET S /\ T \ {Chosen(T)} \notin Bad
    BY <1>2, <2>1
  <2>3. F[T \ {Chosen(T)}] = G[T \ {Chosen(T)}]
    BY <2>2
  <2>4. F[T] = f[Chosen(T)] + F[T \ {Chosen(T)}] /\ G[T] = f[Chosen(T)] + G[T \ {Chosen(T)}]
    BY <1>2, <1>4 DEF Adding
  <2> QED BY <1>2, <2>3, <2>4
<1> QED BY <1>3, <1>4

\* The sum over a set is that of a chosen element and of the rest.
Summed(f, T) ==
    /\ SumFunctionOnSet(f, T) \in Int
    /\ T = {} => SumFunctionOnSet(f, T) = 0
    /\ T # {} => SumFunctionOnSet(f, T)
                     = f[Chosen(T)] + SumFunctionOnSet(f, T \ {Chosen(T)})

LEMMA SumStep ==
    ASSUME NEW S, IsFiniteSet(S), NEW f, \A x \in S : f[x] \in Int
    PROVE  \A T \in SUBSET S : Summed(f, T)
<1> DEFINE Bad == {T \in SUBSET S : ~Summed(f, T)}
<1>1. SUFFICES ASSUME Bad # {} PROVE FALSE
  OBVIOUS
<1>2. PICK T \in Bad : \A U \in Bad : U \subseteq T => U = T
  <2>1. Bad \subseteq SUBSET S
    OBVIOUS
  <2> HIDE DEF Bad
  <2> QED BY <1>1, <2>1, Smallest
<1>3. \A U \in SUBSET T : U # T => Summed(f, U)
  BY <1>2
<1>4. PICK x : x = Chosen(T)
  OBVIOUS
<1>5. PICK v : v = IF T = {} THEN 0 ELSE f[x] + SumFunctionOnSet(f, T \ {x})
  OBVIOUS
<1>6. PICK F : F = [U \in SUBSET T |-> IF U = T THEN v ELSE SumFunctionOnSet(f, U)]
  OBVIOUS
<1>7. Adding(f, T, F)
  <2>1. ASSUME NEW U \in SUBSET T
        PROVE  F[U] = IF U = {} THEN 0 ELSE f[Chosen(U)] + F[U \ {Chosen(U)}]
    <3>1. U # {} => Chosen(U) \in U
      BY ChosenIn
    <3>2. CASE U = T
      <4>1. U # {} => F[U \ {Chosen(U)}] = SumFunctionOnSet(f, U \ {Chosen(U)})
        BY <1>6, <3>1, <3>2
      <4> QED BY <1>4, <1>5, <1>6, <3>2, <4>1
    <3>3. CASE U # T
      <4>1. U # {} => F[U \ {Chosen(U)}] = SumFunctionOnSet(f, U \ {Chosen(U)})
        BY <1>6, <3>1, <3>3
      <4>2. Summed(f, U) /\ F[U] = SumFunctionOnSet(f, U)
        BY <1>3, <1>6, <3>3
      <4> QED BY <4>1, <4>2 DEF Summed
    <3> QED BY <3>2, <3>3
  <2>2. F = [U \in SUBSET T |-> F[U]]
    BY <1>6
  <2> HIDE <1>6
  <2> QED BY <2>1, <2>2 DEF Adding
<1>8. PICK G : Adding(f, T, G) /\ SumFunctionOnSet(f, T) = G[T]
  BY <1>7, SumFolds
<1>9. IsFiniteSet(T)
  BY <1>2, FS_Subset
<1>10. SumFunctionOnSet(f, T) = v
  <2>1. F[T] = G[T]
    BY <1>7, <1>8, <1>9, AddingIsUnique
  <2> QED BY <1>6, <1>8, <2>1
<1>11. T # {} => x \in S /\ Summed(f, T \ {x})
  BY <1>2, <1>3, <1>4, ChosenIn
<1>12. v \in Int
  BY <1>5, <1>11 DEF Summed
<1>13. Summed(f, T)
  BY <1>4, <1>5, <1>10, <1>12 DEF Summed
<1> QED BY <1>2, <1>13

\* Any element may be taken out of a sum.
LEMMA SumWithout ==
    ASSUME NEW S, IsFiniteSet(S), NEW f, \A x \in S : f[x] \in Int
    PROVE  \A T \in SUBSET S : \A k \in T :
               SumFunctionOnSet(f, T) = f[k] + SumFunctionOnSet(f, T \ {k})
<1> DEFINE Sum(T) == SumFunctionOnSet(f, T)
           Good(T) == \A k \in T : Sum(T) = f[k] + Sum(T \ {k})
           Bad == {T \in SUBSET S : ~Good(T)}
<1>1. SUFFICES ASSUME Bad # {} PROVE FALSE
  OBVIOUS
<1>2. PICK T \in Bad : \A U \in Bad : U \subseteq T => U = T
  <2>1. Bad \subseteq SUBSET S
    OBVIOUS
  <2> HIDE DEF Bad
  <2> QED BY <1>1, <2>1, Smallest
<1>3. \A U \in SUBSET T : U # T => Good(U)
  BY <1>2
<1>4. T \in SUBSET S
  BY <1>2
<1>5. \A U \in SUBSET S : Summed(f, U)
  BY SumStep
<1>6. ASSUME NEW k \in T
      PROVE  Sum(T) = f[k] + Sum(T \ {k})
  <2>1. PICK c : c = Chosen(T)
    OBVIOUS
  <2>2. c \in T
    BY <2>1, ChosenIn
  <2>3. Sum(T) = f[c] + Sum(T \ {c})
    BY <1>4, <1>5, <1>6, <2>1 DEF Summed
  <2>4. CASE c = k
    BY <2>3, <2>4
  <2>5. CASE c # k
    <3>1. k \in T \ {c} /\ T \ {c} \in SUBSET T /\ T \ {c} # T
      BY <1>6, <2>2, <2>5
    <3>2. c \in T \ {k} /\ T \ {k} \in SUBSET T /\ T \ {k} # T
      BY <1>6, <2>2, <2>5
    <3>3. Sum(T \ {c}) = f[k] + Sum((T \ {c}) \ {k})
      BY <1>3, <3>1
    <3>4. Sum(T \ {k}) = f[c] + Sum((T \ {k}) \ {c})
      BY <1>3, <3>2
    <3>5. PICK R : R = (T \ {c}) \ {k}
      OBVIOUS
    <3>6. R = (T \ {k}) \ {c} /\ R \in SUBSET S
      BY <1>4, <3>5
    <3>7. f[c] \in Int /\ f[k] \in Int /\ SumFunctionOnSet(f, R) \in Int
      BY <1>4, <1>5, <1>6, <2>2, <3>6 DEF Summed
    <3>8. Sum(T \ {c}) = f[k] + Sum(R) /\ Sum(T \ {k}) = f[c] + Sum(R)
      BY <3>3, <3>4, <3>5, <3>6
    <3> QED BY <2>3, <3>7, <3>8
  <2> QED BY <2>4, <2>5
<1>7. Good(T)
  BY <1>6
<1>8. ~Good(T)
  BY <1>2
<1> QED BY <1>7, <1>8

\* The sum of a sum is the sum of the sums.
LEMMA SumOfSums ==
    ASSUME NEW S, IsFiniteSet(S), NEW f, NEW g, NEW h,
           \A x \in S : f[x] \in Int /\ g[x] \in Int /\ h[x] = f[x] + g[x]
    PROVE  SumFunctionOnSet(h, S) = SumFunctionOnSet(f, S) + SumFunctionOnSet(g, S)
<1> DEFINE Good(T) == SumFunctionOnSet(h, T) = SumFunctionOnSet(f, T) + SumFunctionOnSet(g, T)
           Bad == {T \in SUBSET S : ~Good(T)}
<1>1. SUFFICES ASSUME Bad # {} PROVE FALSE
  OBVIOUS
<1>2. PICK T \in Bad : \A U \in Bad : U \subseteq T => U = T
  <2>1. Bad \subseteq SUBSET S
    OBVIOUS
  <2> HIDE DEF Bad
  <2> QED BY <1>1, <2>1, Smallest
<1>3. \A U \in SUBSET T : U # T => Good(U)
  BY <1>2
<1>4. T \in SUBSET S /\ ~Good(T)
  BY <1>2
<1>5. \A U \in SUBSET S : Summed(f, U) /\ Summed(g, U) /\ Summed(h, U)
  <2>1. \A x \in S : f[x] \in Int /\ g[x] \in Int /\ h[x] \in Int
    OBVIOUS
  <2> QED BY <2>1, SumStep
<1>6. CASE T = {}
  <2>1. /\ SumFunctionOnSet(f, T) = 0 /\ SumFunctionOnSet(g, T) = 0
        /\ SumFunctionOnSet(h, T) = 0
    BY <1>4, <1>5, <1>6 DEF Summed
  <2> QED BY <1>4, <2>1
<1>7. CASE T # {}
  <2>1. PICK c : c = Chosen(T)
    OBVIOUS
  <2>2. c \in T
    BY <1>7, <2>1, ChosenIn
  <2>3. PICK R : R = T \ {c}
    OBVIOUS
  <2>4. /\ SumFunctionOnSet(f, T) = f[c] + SumFunctionOnSet(f, R)
        /\ SumFunctionOnSet(g, T) = g[c] + SumFunctionOnSet(g, R)
        /\ SumFunctionOnSet(h, T) = h[c] + SumFunctionOnSet(h, R)
    BY <1>4, <1>5, <1>7, <2>1, <2>3 DEF Summed
  <2>5. Good(R)
    BY <1>3, <2>2, <2>3
  <2>6. R \in SUBSET S
    BY <1>4, <2>3
  <2>7. SumFunctionOnSet(f, R) \in Int /\ SumFunctionOnSet(g, R) \in Int
    BY <1>5, <2>6 DEF Summed
  <2>8. f[c] \in Int /\ g[c] \in Int /\ h[c] = f[c] + g[c]
    BY <1>4, <2>2
  <2> QED BY <1>4, <2>4, <2>5, <2>7, <2>8
<1> QED BY <1>6, <1>7

LEMMA SumType ==
    ASSUME NEW S, IsFiniteSet(S), NEW f, \A x \in S : f[x] \in Int
    PROVE  SumFunctionOnSet(f, S) \in Int
BY SumStep DEF Summed

LEMMA SumOfNothing ==
    ASSUME NEW S, IsFiniteSet(S), NEW f, \A x \in S : f[x] = 0
    PROVE  SumFunctionOnSet(f, S) = 0
<1>1. SumFunctionOnSet(f, S) = SumFunctionOnSet(f, S) + SumFunctionOnSet(f, S)
  <2>1. \A x \in S : f[x] \in Int /\ f[x] = f[x] + f[x]
    OBVIOUS
  <2> QED BY <2>1, SumOfSums
<1>2. SumFunctionOnSet(f, S) \in Int
  <2>1. \A x \in S : f[x] \in Int
    OBVIOUS
  <2> QED BY <2>1, SumType
<1>3. PICK n \in Int : n = SumFunctionOnSet(f, S)
  BY <1>2
<1>4. n = n + n
  BY <1>1, <1>3
<1>5. n = 0
  BY <1>4
<1> QED BY <1>3, <1>5

LEMMA SumAgrees ==
    ASSUME NEW S, IsFiniteSet(S), NEW f, NEW g, \A x \in S : f[x] \in Int /\ g[x] = f[x]
    PROVE  SumFunctionOnSet(g, S) = SumFunctionOnSet(f, S)
<1>1. PICK z : z = [x \in S |-> 0]
  OBVIOUS
<1>2. \A x \in S : f[x] \in Int /\ z[x] \in Int /\ g[x] = f[x] + z[x]
  BY <1>1
<1>3. SumFunctionOnSet(g, S) = SumFunctionOnSet(f, S) + SumFunctionOnSet(z, S)
  BY <1>2, SumOfSums
<1>4. SumFunctionOnSet(z, S) = 0
  BY <1>1, SumOfNothing
<1>5. SumFunctionOnSet(f, S) \in Int
  BY SumType
<1> QED BY <1>3, <1>4, <1>5

\* One element changes by d, and so does the sum.
LEMMA SumMoved ==
    ASSUME NEW S, IsFiniteSet(S), NEW f, NEW g, NEW k \in S, NEW d \in Int,
           \A x \in S : f[x] \in Int /\ g[x] = IF x = k THEN f[x] + d ELSE f[x]
    PROVE  SumFunctionOnSet(g, S) = SumFunctionOnSet(f, S) + d
<1>1. IsFiniteSet(S \ {k})
  BY FS_Subset
<1>2. SumFunctionOnSet(f, S) = f[k] + SumFunctionOnSet(f, S \ {k})
  BY SumWithout
<1>3. SumFunctionOnSet(g, S) = g[k] + SumFunctionOnSet(g, S \ {k})
  <2>1. \A x \in S : g[x] \in Int
    OBVIOUS
  <2> QED BY <2>1, SumWithout
<1>4. SumFunctionOnSet(g, S \ {k}) = SumFunctionOnSet(f, S \ {k})
  BY <1>1, SumAgrees
<1>5. SumFunctionOnSet(f, S \ {k}) \in Int
  BY <1>1, SumType
<1>6. f[k] \in Int /\ g[k] = f[k] + d
  OBVIOUS
<1> QED BY <1>2, <1>3, <1>4, <1>5, <1>6

(***************************************************************************)
(* Invoices and drafts as amounts under keys                               *)
(***************************************************************************)

LEMMA FinitelyManyKeys ==
    /\ IsFiniteSet(Keys)
    /\ \A u : InvoicesOf(u) \subseteq Keys /\ IsFiniteSet(InvoicesOf(u))
<1>1. IsFiniteSet(Services) /\ Horizon \in Nat /\ MaxPolicies \in Nat
  BY ConstantsAssumption
<1>2. IsFiniteSet(Ticks) /\ IsFiniteSet(1..MaxPolicies)
  <2>1. 0 \in Int /\ 1 \in Int /\ Horizon \in Int /\ MaxPolicies \in Int
    BY <1>1
  <2> QED BY <2>1, FS_Interval DEF Ticks
<1>3. IsFiniteSet(Cadences)
  <2>1. IsFiniteSet({"HOURLY"})
    BY FS_Singleton
  <2>2. IsFiniteSet({"HOURLY"} \cup {"DAILY"})
    BY <2>1, FS_AddElement
  <2>3. Cadences = {"HOURLY"} \cup {"DAILY"}
    BY DEF Cadences
  <2> QED BY <2>2, <2>3
<1>4. IsFiniteSet(Periods)
  <2>1. IsFiniteSet(Cadences \X Ticks)
    BY <1>2, <1>3, FS_Product
  <2>2. Periods \in SUBSET (Cadences \X Ticks)
    BY DEF Periods
  <2> QED BY <2>1, <2>2, FS_Subset
<1>5. PICK D : D = Services \X ((1..MaxPolicies) \X Periods)
  OBVIOUS
<1>6. IsFiniteSet(D)
  <2>1. IsFiniteSet((1..MaxPolicies) \X Periods)
    BY <1>2, <1>4, FS_Product
  <2> QED BY <1>1, <1>5, <2>1, FS_Product
<1>7. PICK f : f = [d \in D |-> <<d[1], d[2][1], d[2][2]>>]
  OBVIOUS
<1>8. f \in Surjection(D, Keys)
  <2>1. \A d \in D : f[d] \in Keys
    BY <1>5, <1>7 DEF Keys
  <2>2. ASSUME NEW k \in Keys
        PROVE  \E d \in D : f[d] = k
    <3>1. k[1] \in Services /\ k[2] \in 1..MaxPolicies /\ k[3] \in Periods /\ k = <<k[1], k[2], k[3]>>
      BY DEF Keys
    <3>2. PICK d : d = <<k[1], <<k[2], k[3]>>>>
      OBVIOUS
    <3>3. d \in D /\ d[1] = k[1] /\ d[2][1] = k[2] /\ d[2][2] = k[3]
      BY <1>5, <3>1, <3>2
    <3>4. f[d] = <<k[1], k[2], k[3]>>
      BY <1>7, <3>3
    <3> QED BY <3>1, <3>3, <3>4
  <2>3. f \in [D -> Keys]
    BY <1>7, <2>1
  <2> QED BY <2>2, <2>3 DEF Surjection
<1>9. IsFiniteSet(Keys)
  BY <1>6, <1>8, FS_Surjection
<1>10. \A u : InvoicesOf(u) \in SUBSET Keys
  BY DEF InvoicesOf
<1> QED BY <1>9, <1>10, FS_Subset

\* What the bills of period p take, under the keys of their invoices.
Drawn(bills, p) ==
    [k \in Keys |-> IF \E b \in bills : KeyOf(b, p) = k
                    THEN (CHOOSE b \in bills : KeyOf(b, p) = k).paid ELSE 0]
DrawnOf(bills, p, u) == SumFunctionOnSet(Drawn(bills, p), InvoicesOf(u))

LEMMA DrawnType ==
    ASSUME NEW bills \in SUBSET BillRow, NEW p
    PROVE  /\ \A k \in Keys : Drawn(bills, p)[k] \in Nat
           /\ \A u : DrawnOf(bills, p, u) \in Int
<1>1. \A b \in BillRow : b.paid \in Nat
  BY DEF BillRow
<1>2. ASSUME NEW k \in Keys
      PROVE  Drawn(bills, p)[k] \in Nat
  <2>1. CASE \E b \in bills : KeyOf(b, p) = k
    <3>1. PICK c : c = CHOOSE b \in bills : KeyOf(b, p) = k
      OBVIOUS
    <3>2. c \in bills
      BY <2>1, <3>1
    <3>3. Drawn(bills, p)[k] = c.paid
      BY <2>1, <3>1 DEF Drawn
    <3> QED BY <1>1, <3>2, <3>3
  <2>2. CASE ~\E b \in bills : KeyOf(b, p) = k
    BY <2>2 DEF Drawn
  <2> QED BY <2>1, <2>2
<1>3. ASSUME NEW u
      PROVE  DrawnOf(bills, p, u) \in Int
  <2>1. PICK f : f = Drawn(bills, p)
    OBVIOUS
  <2>2. \A k \in InvoicesOf(u) : f[k] \in Int
    BY <1>2, <2>1, FinitelyManyKeys
  <2>3. SumFunctionOnSet(f, InvoicesOf(u)) \in Int
    BY <2>2, FinitelyManyKeys, SumType
  <2> QED BY <2>1, <2>3 DEF DrawnOf
<1> QED BY <1>2, <1>3

LEMMA NothingDrawn ==
    ASSUME NEW bills, NEW p, NEW u,
           \A b \in bills : Owner[b.service] = u => b.paid = 0
    PROVE  DrawnOf(bills, p, u) = 0
<1>1. PICK f : f = Drawn(bills, p)
  OBVIOUS
<1>2. ASSUME NEW k \in InvoicesOf(u)
      PROVE  f[k] = 0
  <2>1. k \in Keys /\ Owner[k[1]] = u
    BY DEF InvoicesOf
  <2>2. CASE \E b \in bills : KeyOf(b, p) = k
    <3>1. PICK c : c = CHOOSE b \in bills : KeyOf(b, p) = k
      OBVIOUS
    <3>2. c \in bills /\ KeyOf(c, p) = k
      BY <2>2, <3>1
    <3>3. f[k] = c.paid
      BY <1>1, <2>1, <2>2, <3>1 DEF Drawn
    <3>4. c.service = k[1]
      BY <3>2 DEF KeyOf
    <3> QED BY <2>1, <3>2, <3>3, <3>4
  <2>3. CASE ~\E b \in bills : KeyOf(b, p) = k
    BY <1>1, <2>1, <2>3 DEF Drawn
  <2> QED BY <2>2, <2>3
<1>3. SumFunctionOnSet(f, InvoicesOf(u)) = 0
  BY <1>2, FinitelyManyKeys, SumOfNothing
<1> QED BY <1>1, <1>3 DEF DrawnOf

\* Another bill takes what it is paid from the wallet of its service's owner.
LEMMA DrawnMore ==
    ASSUME NEW bills \in SUBSET BillRow, NEW p \in Periods, NEW b \in BillRow,
           \A x \in bills : ~SameKey(x, b), NEW u
    PROVE  DrawnOf(bills \cup {b}, p, u)
               = DrawnOf(bills, p, u) + (IF Owner[b.service] = u THEN b.paid ELSE 0)
<1>1. PICK f : f = Drawn(bills, p)
  OBVIOUS
<1>2. PICK more : more = bills \cup {b}
  OBVIOUS
<1>3. PICK g : g = Drawn(more, p)
  OBVIOUS
<1>4. PICK key : key = KeyOf(b, p)
  OBVIOUS
<1>5. key \in Keys /\ key[1] = b.service /\ b.paid \in Nat
  <2>1. b.service \in Services /\ b.policy \in 1..MaxPolicies /\ b.paid \in Nat
    BY DEF BillRow
  <2> QED BY <1>4, <2>1 DEF KeyOf, Keys
<1>6. \A x \in bills : KeyOf(x, p) # key
  BY <1>4 DEF KeyOf, SameKey
<1>7. \A k \in Keys : f[k] \in Int
  BY <1>1, DrawnType
<1>8. ASSUME NEW k \in Keys
      PROVE  g[k] = IF k = key THEN f[k] + b.paid ELSE f[k]
  <2>1. CASE k = key
    <3>1. f[k] = 0
      BY <1>1, <1>6, <2>1 DEF Drawn
    <3>2. (CHOOSE x \in more : KeyOf(x, p) = k) = b
      BY <1>2, <1>4, <1>6, <2>1
    <3>3. \E x \in more : KeyOf(x, p) = k
      BY <1>2, <1>4, <2>1
    <3>4. g[k] = b.paid
      BY <1>3, <3>2, <3>3 DEF Drawn
    <3> QED BY <1>5, <2>1, <3>1, <3>4
  <2>2. CASE k # key
    <3>1. \A x : x \in more /\ KeyOf(x, p) = k <=> x \in bills /\ KeyOf(x, p) = k
      BY <1>2, <1>4, <2>2
    <3>2. (CHOOSE x \in more : KeyOf(x, p) = k) = (CHOOSE x \in bills : KeyOf(x, p) = k)
      BY <3>1
    <3>3. (\E x \in more : KeyOf(x, p) = k) <=> (\E x \in bills : KeyOf(x, p) = k)
      BY <3>1
    <3> QED BY <1>1, <1>3, <2>2, <3>2, <3>3 DEF Drawn
  <2> QED BY <2>1, <2>2
<1>9. PICK S : S = InvoicesOf(u)
  OBVIOUS
<1>10. S \subseteq Keys /\ IsFiniteSet(S) /\ (key \in S <=> Owner[b.service] = u)
  BY <1>5, <1>9, FinitelyManyKeys DEF InvoicesOf
<1>11. SumFunctionOnSet(f, S) \in Int
  BY <1>7, <1>10, SumType
<1>12. SumFunctionOnSet(g, S)
           = SumFunctionOnSet(f, S) + (IF Owner[b.service] = u THEN b.paid ELSE 0)
  <2>1. CASE Owner[b.service] = u
    <3>1. key \in S /\ b.paid \in Int
      BY <1>5, <1>10, <2>1
    <3>2. \A k \in S : f[k] \in Int /\ g[k] = IF k = key THEN f[k] + b.paid ELSE f[k]
      BY <1>7, <1>8, <1>10
    <3>3. SumFunctionOnSet(g, S) = SumFunctionOnSet(f, S) + b.paid
      BY <1>10, <3>1, <3>2, SumMoved
    <3> QED BY <2>1, <3>3
  <2>2. CASE Owner[b.service] # u
    <3>1. \A k \in S : f[k] \in Int /\ g[k] = f[k]
      BY <1>7, <1>8, <1>10, <2>2
    <3>2. SumFunctionOnSet(g, S) = SumFunctionOnSet(f, S)
      BY <1>10, <3>1, SumAgrees
    <3> QED BY <1>11, <2>2, <3>2
  <2> QED BY <2>1, <2>2
<1> QED BY <1>1, <1>2, <1>3, <1>9, <1>12 DEF DrawnOf

(***************************************************************************)
(* What a step does to the money a worker has in hand                      *)
(***************************************************************************)

\* A bill takes no more than its total, and nothing while it is under review.
Spent ==
    \A w \in Workers : \A b \in worker[w].bills :
        /\ b.paid <= b.total
        /\ b.status = "UNDER_REVIEW" => b.paid = 0

\* One transaction at a time has bills of a user's wallet.
OneHolder ==
    \A w, x \in Workers, u \in Users : HasWallet(w, u) /\ HasWallet(x, u) => w = x

\* The worker has a bill, or is to write one, that the wallet of user u pays.
Awaits(w, u) == \E l \in worker[w].lines : l.outcome = "bill" /\ Owner[l.service] = u
Touches(w, u) == HasWallet(w, u) \/ Awaits(w, u)

\* A transaction that is not stale knows what its bills leave in such a wallet.
Foresees(w) ==
    InTransaction(w) /\ ~worker[w].stale =>
        \A u \in Users : Touches(w, u) =>
            worker[w].balance[u] = wallet[u] - DrawnOf(worker[w].bills, PeriodOf(w), u)
Foreseen == \A w \in Workers : Foresees(w)

\* An invoice that is not there has been paid nothing.
Unwritten == \A k \in Keys : invoice[k].status = "ABSENT" => invoice[k].paid = 0

MoneyInv == OneDraft /\ Spent /\ OneHolder /\ Foreseen /\ Unwritten /\ Books

\* The worker's transaction is as it was; once stale it stays stale.
Keeps(x) ==
    /\ worker'[x].lines = worker[x].lines /\ worker'[x].bills = worker[x].bills
    /\ worker'[x].cadence = worker[x].cadence /\ worker'[x].todo = worker[x].todo
    /\ worker'[x].balance = worker[x].balance
    /\ InTransaction(x)' <=> InTransaction(x)
    /\ worker[x].stale => worker'[x].stale

\* It begins with the wallets as they are, and no bill.
Opens(x) == worker'[x].bills = {} /\ worker'[x].balance = wallet

\* One of its lines becomes a bill, which takes its part of a wallet no other holds.
Draws(x) ==
    /\ InTransaction(x)
    /\ worker'[x].cadence = worker[x].cadence /\ worker'[x].todo = worker[x].todo
    /\ worker[x].stale => worker'[x].stale
    /\ \E l \in worker[x].lines, b \in BillRow :
          /\ SameKey(b, l) /\ b.paid <= b.total
          /\ b.status = "UNDER_REVIEW" => b.paid = 0
          /\ b.status \in SettledInvoice =>
               l.outcome = "bill" /\ ~WaitsForWallet(x, Owner[l.service])
          /\ worker'[x].lines = worker[x].lines \ {l}
          /\ worker'[x].bills = worker[x].bills \cup {b}
          /\ worker'[x].balance = [worker[x].balance EXCEPT
                 ![Owner[l.service]] = worker[x].balance[Owner[l.service]] - b.paid]

Handles(x) == ~InTransaction(x)' \/ Keeps(x) \/ Opens(x) \/ Draws(x)

LEMMA KeepsUnchanged ==
    ASSUME NEW x \in Workers, worker'[x] = worker[x]
    PROVE  Keeps(x)
BY DEF Keeps, InTransaction

\* A transaction that another one overtakes: stale if it has yet to touch a wallet
\* of the other's, or a bill to write for one of its services.
LEMMA OvertakenKeeps ==
    ASSUME TypeOK, NEW x \in Workers, NEW p, NEW us, NEW ss,
           worker'[x] = Overtaken(x, p, us, ss)
    PROVE  /\ Keeps(x)
           /\ \A u \in us : InTransaction(x) /\ Awaits(x, u) => worker'[x].stale
<1>1. PICK b : b = (worker[x].stale \/
                  /\ InTransaction(x)
                  /\ \/ PeriodOf(x) = p
                     \/ \E l \in worker[x].lines :
                          l.outcome = "bill" /\ (Owner[l.service] \in us \/ l.service \in ss))
  OBVIOUS
<1>2. worker'[x] = [worker[x] EXCEPT !.stale = b]
  BY <1>1 DEF Overtaken
<1>3. worker[x] \in WorkerRow
  BY DEF TypeOK
<1>4. /\ worker'[x].pc = worker[x].pc /\ worker'[x].stale = b
      /\ worker'[x].lines = worker[x].lines /\ worker'[x].bills = worker[x].bills
      /\ worker'[x].cadence = worker[x].cadence /\ worker'[x].todo = worker[x].todo
      /\ worker'[x].balance = worker[x].balance
  BY <1>2, <1>3 DEF WorkerRow
<1>5. worker[x].stale => b
  BY <1>1
<1>6. Keeps(x)
  BY <1>4, <1>5 DEF Keeps, InTransaction
<1>7. \A u \in us : InTransaction(x) /\ Awaits(x, u) => b
  BY <1>1 DEF Awaits
<1> QED BY <1>4, <1>6, <1>7

LEMMA OthersKeep ==
    ASSUME TypeOK, NEW w \in Workers, NEW r, Goes(w, r)
    PROVE  worker'[w] = r /\ \A x \in Workers \ {w} : Keeps(x)
<1>1. worker \in [Workers -> WorkerRow]
  BY DEF TypeOK
<1>2. worker'[w] = r /\ \A x \in Workers \ {w} : worker'[x] = worker[x]
  BY <1>1 DEF Goes
<1> QED BY <1>2, KeepsUnchanged

LEMMA BeginHandles ==
    ASSUME IInv, NEW w \in Workers, BeginSettlement(w)
    PROVE  Handles(w) /\ \A x \in Workers \ {w} : Keeps(x)
<1>1. TypeOK /\ WorkShape /\ worker[w] \in WorkerRow /\ worker[w].pc = "settling"
  BY DEF IInv, TypeOK, BeginSettlement
<1>2. CASE run[PeriodOf(w)] \in TerminalRun
  <2>1. Goes(w, PeriodDone(w))
    BY <1>2 DEF BeginSettlement
  <2>2. worker'[w] = PeriodDone(w) /\ \A x \in Workers \ {w} : Keeps(x)
    BY <1>1, <2>1, OthersKeep
  <2>3. Outside(PeriodDone(w))
    BY <1>1, PeriodDoneIsOutside
  <2> QED BY <2>2, <2>3 DEF Handles, InTransaction, Outside
<1>3. CASE run[PeriodOf(w)] \notin TerminalRun
  <2>1. PICK lines, r : /\ Goes(w, r)
                        /\ r = [worker[w] EXCEPT !.pc = "waiting", !.balance = wallet,
                                                 !.lines = lines]
    BY <1>3 DEF BeginSettlement
  <2>2. worker'[w] = r /\ \A x \in Workers \ {w} : Keeps(x)
    BY <1>1, <2>1, OthersKeep
  <2>3. r.balance = wallet /\ r.bills = worker[w].bills
    BY <1>1, <2>1 DEF WorkerRow
  <2>4. worker[w].bills = {}
    BY <1>1 DEF WorkShape, InTransaction
  <2> QED BY <2>2, <2>3, <2>4 DEF Handles, Opens
<1> QED BY <1>2, <1>3

LEMMA AcquireHandles ==
    ASSUME TypeOK, NEW w \in Workers, AcquireRunLock(w)
    PROVE  Handles(w) /\ \A x \in Workers \ {w} : Keeps(x)
<1>1. worker[w] \in WorkerRow /\ worker[w].pc = "waiting"
  BY DEF TypeOK, AcquireRunLock
<1>2. PICK r : Goes(w, r) /\ r = [worker[w] EXCEPT !.pc = "working"]
  BY DEF AcquireRunLock
<1>3. worker'[w] = r /\ \A x \in Workers \ {w} : Keeps(x)
  BY <1>2, OthersKeep
<1>4. /\ r.pc = "working" /\ r.cadence = worker[w].cadence /\ r.todo = worker[w].todo
      /\ r.lines = worker[w].lines /\ r.bills = worker[w].bills
      /\ r.balance = worker[w].balance /\ r.stale = worker[w].stale
  BY <1>1, <1>2 DEF WorkerRow
<1>5. Keeps(w)
  BY <1>1, <1>3, <1>4 DEF Keeps, InTransaction
<1> QED BY <1>3, <1>5 DEF Handles

LEMMA BilledHandles ==
    ASSUME TypeOK, NEW w \in Workers, NEW l \in worker[w].lines, worker[w].pc = "working",
           NEW bill \in BillRow, SameKey(bill, l), bill.paid <= bill.total,
           bill.status = "UNDER_REVIEW" => bill.paid = 0,
           bill.status \in SettledInvoice =>
               l.outcome = "bill" /\ ~WaitsForWallet(w, Owner[l.service]),
           Billed(w, l, bill)
    PROVE  Handles(w) /\ \A x \in Workers \ {w} : Keeps(x)
<1>1. worker[w] \in WorkerRow /\ InTransaction(w)
  BY DEF TypeOK, InTransaction
<1>2. PICK balance :
         balance = [worker[w].balance EXCEPT
                       ![Owner[l.service]] = worker[w].balance[Owner[l.service]] - bill.paid]
  OBVIOUS
<1>3. PICK r : /\ Goes(w, r)
               /\ r = [worker[w] EXCEPT !.lines = worker[w].lines \ {l},
                                        !.bills = worker[w].bills \cup {bill},
                                        !.balance = balance]
  BY <1>1, <1>2 DEF Billed, WorkerRow
<1>4. worker'[w] = r /\ \A x \in Workers \ {w} : Keeps(x)
  BY <1>3, OthersKeep
<1>5. /\ r.cadence = worker[w].cadence /\ r.todo = worker[w].todo
      /\ r.lines = worker[w].lines \ {l} /\ r.bills = worker[w].bills \cup {bill}
      /\ r.balance = balance /\ r.stale = worker[w].stale
  BY <1>1, <1>3 DEF WorkerRow
<1>6. Draws(w)
  BY <1>1, <1>2, <1>4, <1>5 DEF Draws
<1> QED BY <1>4, <1>6 DEF Handles

LEMMA ReviewHandles ==
    ASSUME TypeOK, NEW w \in Workers, NEW l \in worker[w].lines, MarkInvoiceForReview(w, l)
    PROVE  Handles(w) /\ \A x \in Workers \ {w} : Keeps(x)
<1>1. PICK bill : bill = [service |-> l.service, policy |-> l.policy, from |-> l.from, to |-> l.to,
                          total |-> 0, paid |-> 0, status |-> "UNDER_REVIEW", low |-> FALSE]
  OBVIOUS
<1>2. worker[w].pc = "working" /\ Billed(w, l, bill)
  BY <1>1 DEF MarkInvoiceForReview, NextLine
<1>3. l \in LineRow
  BY DEF TypeOK, WorkerRow
<1>4. bill \in BillRow
  BY <1>1, <1>3 DEF LineRow, BillRow, SettledInvoice
<1>5. /\ SameKey(bill, l) /\ bill.paid <= bill.total /\ bill.paid = 0
      /\ bill.status \notin SettledInvoice
  BY <1>1 DEF SameKey, SettledInvoice
<1> QED BY <1>2, <1>4, <1>5, BilledHandles

LEMMA ChargeHandles ==
    ASSUME TypeOK, NEW w \in Workers, NEW l \in worker[w].lines, ChargeUsage(w, l)
    PROVE  Handles(w) /\ \A x \in Workers \ {w} : Keeps(x)
<1>1. PICK paid, isLow : paid = Payable(w, l) /\ isLow = IsLow(w, l)
  OBVIOUS
<1>2. PICK bill : bill = [service |-> l.service, policy |-> l.policy, from |-> l.from, to |-> l.to,
                          total |-> l.total, paid |-> paid,
                          status |-> InvoiceStatus(l.total, paid), low |-> isLow]
  OBVIOUS
<1>3. /\ worker[w].pc = "working" /\ l.outcome = "bill" /\ Billed(w, l, bill)
      /\ ~WaitsForWallet(w, Owner[l.service])
  BY <1>1, <1>2 DEF ChargeUsage, NextLine
<1>4. l \in LineRow /\ worker[w].balance \in [Users -> Nat]
  BY DEF TypeOK, WorkerRow
<1>5. worker[w].balance[Owner[l.service]] \in Nat /\ l.total \in Nat
  BY <1>4, ConstantsAssumption DEF LineRow
<1>6. paid \in Nat /\ isLow \in BOOLEAN /\ paid <= l.total
  BY <1>1, <1>5 DEF Payable, Earlier, IsLow
<1>7. InvoiceStatus(l.total, paid) \in SettledInvoice
  BY DEF InvoiceStatus, SettledInvoice
<1>8. bill \in BillRow
  BY <1>2, <1>4, <1>6, <1>7 DEF LineRow, BillRow
<1>9. /\ SameKey(bill, l) /\ bill.total = l.total /\ bill.paid = paid
      /\ bill.status \in SettledInvoice
  BY <1>2, <1>7 DEF SameKey
<1>10. bill.status # "UNDER_REVIEW"
  BY <1>9 DEF SettledInvoice
<1> QED BY <1>3, <1>6, <1>8, <1>9, <1>10, BilledHandles

\* A worker that ends up outside a transaction.
LEMMA LeavesHandles ==
    ASSUME TypeOK, NEW w \in Workers, NEW r, Goes(w, r), r.pc \notin {"waiting", "working"}
    PROVE  Handles(w) /\ \A x \in Workers \ {w} : Keeps(x)
<1>1. worker'[w] = r /\ \A x \in Workers \ {w} : Keeps(x)
  BY OthersKeep
<1> QED BY <1>1 DEF Handles, InTransaction

LEMMA LeavingHandles ==
    ASSUME IInv, NEW w \in Workers,
           \/ StartCycle(w) \/ ListClosedBillingPeriodsForCatchUp(w)
           \/ \E l \in worker[w].lines : RejectUsage(w, l)
           \/ SerializationFailure(w) \/ TransactionLost(w) \/ Crash(w)
    PROVE  Handles(w) /\ \A x \in Workers \ {w} : Keeps(x)
<1>1. TypeOK /\ WorkShape
  BY DEF IInv
<1>2. PICK r : Goes(w, r) /\ r.pc \notin {"waiting", "working"}
  <2>1. CASE StartCycle(w) \/ Crash(w)
    BY <2>1 DEF StartCycle, Crash, IdleWorker, Placed
  <2>2. CASE ListClosedBillingPeriodsForCatchUp(w)
    <3>1. PICK todo : Goes(w, CadenceDone(w))
                      \/ Goes(w, At(w, "settling", worker[w].cadence, todo, 1))
      BY <2>2 DEF ListClosedBillingPeriodsForCatchUp
    <3>2. CadenceDone(w).pc \notin {"waiting", "working"}
      BY <1>1, CadenceDoneIsOutside DEF Outside
    <3>3. At(w, "settling", worker[w].cadence, todo, 1).pc \notin {"waiting", "working"}
      BY PlacedFields
    <3> QED BY <3>1, <3>2, <3>3
  <2>3. CASE SerializationFailure(w) \/ TransactionLost(w)
    BY <2>3, PlacedFields DEF SerializationFailure, TransactionLost, RetryOrGiveUp
  <2>4. CASE \E l \in worker[w].lines : RejectUsage(w, l)
    BY <2>4, PlacedFields DEF RejectUsage, Rejected
  <2> QED BY <2>1, <2>2, <2>3, <2>4
<1> QED BY <1>1, <1>2, LeavesHandles

\* The worker that records a failure, or opens cases, and those it overtakes.
LEMMA OvertakingHandles ==
    ASSUME IInv, NEW w \in Workers, RecordBillingRunFailure(w) \/ EnqueueExpiredDunning(w)
    PROVE  Handles(w) /\ \A x \in Workers \ {w} : Keeps(x)
<1>1. PICK p, ss, r :
         /\ r.pc \notin {"waiting", "working"} /\ worker'[w] = r
         /\ \A x \in Workers \ {w} :
               worker'[x] = worker[x] \/ worker'[x] = Overtaken(x, p, {}, ss)
  <2>1. CASE EnqueueExpiredDunning(w)
    <3>1. PICK ss : worker' = [x \in Workers |->
               IF x = w THEN IdleWorker ELSE Overtaken(x, NoPeriod, {}, ss)]
      BY <2>1 DEF EnqueueExpiredDunning
    <3> QED BY <3>1, IdleFacts
  <2>2. CASE RecordBillingRunFailure(w)
    <3>1. PICK p : worker' = [x \in Workers |->
               IF x = w
               THEN IF worker[w].pc = "caught" THEN IdleWorker ELSE [worker[w] EXCEPT !.pc = "caught"]
               ELSE IF run[p] \in TerminalRun THEN worker[x] ELSE Overtaken(x, p, {}, {})]
      BY <2>2 DEF RecordBillingRunFailure
    <3>2. PICK r : r = IF worker[w].pc = "caught" THEN IdleWorker
                       ELSE [worker[w] EXCEPT !.pc = "caught"]
      OBVIOUS
    <3>3. worker[w] \in WorkerRow
      BY DEF IInv, TypeOK
    <3>4. r.pc \notin {"waiting", "working"}
      BY <3>2, <3>3, IdleFacts DEF WorkerRow
    <3>5. worker'[w] = r
      BY <3>1, <3>2
    <3>6. \A x \in Workers \ {w} :
               worker'[x] = worker[x] \/ worker'[x] = Overtaken(x, p, {}, {})
      BY <3>1
    <3> QED BY <3>4, <3>5, <3>6
  <2> QED BY <2>1, <2>2
<1>2. \A x \in Workers \ {w} : Keeps(x)
  BY <1>1, KeepsUnchanged, OvertakenKeeps DEF IInv
<1> QED BY <1>1, <1>2 DEF Handles, InTransaction

\* What a worker's step does, the commit apart: it leaves wallets and invoices alone.
LEMMA WorkHandles ==
    ASSUME IInv, NEW w \in Workers, Works(w) \/ TransactionLost(w) \/ Crash(w),
           ~CommitSettlement(w)
    PROVE  /\ UNCHANGED <<invoice, wallet, received, adjustment>>
           /\ Handles(w) /\ \A x \in Workers \ {w} : Keeps(x)
<1>1. TypeOK
  BY DEF IInv
<1>2. CASE \/ StartCycle(w) \/ ListClosedBillingPeriodsForCatchUp(w)
           \/ \E l \in worker[w].lines : RejectUsage(w, l)
           \/ SerializationFailure(w) \/ TransactionLost(w) \/ Crash(w)
  <2>1. UNCHANGED <<invoice, wallet, received, adjustment>>
    BY <1>2 DEF StartCycle, ListClosedBillingPeriodsForCatchUp, RejectUsage, Rejected,
                SerializationFailure, TransactionLost, Crash, books, money
  <2> QED BY <1>2, <2>1, LeavingHandles
<1>3. CASE BeginSettlement(w) \/ AcquireRunLock(w)
  <2>1. UNCHANGED <<invoice, wallet, received, adjustment>>
    BY <1>3 DEF BeginSettlement, AcquireRunLock, books, money
  <2> QED BY <1>1, <1>3, <2>1, BeginHandles, AcquireHandles
<1>4. CASE \E l \in worker[w].lines : MarkInvoiceForReview(w, l) \/ ChargeUsage(w, l)
  <2>1. UNCHANGED <<invoice, wallet, received, adjustment>>
    BY <1>4 DEF MarkInvoiceForReview, ChargeUsage, Billed, books, money
  <2> QED BY <1>1, <1>4, <2>1, ReviewHandles, ChargeHandles
<1>5. CASE RecordBillingRunFailure(w) \/ EnqueueExpiredDunning(w)
  <2>1. UNCHANGED <<invoice, wallet, received, adjustment>>
    BY <1>5 DEF RecordBillingRunFailure, EnqueueExpiredDunning, books, money
  <2> QED BY <1>5, <2>1, OvertakingHandles
<1> QED BY <1>2, <1>3, <1>4, <1>5 DEF Works, Settles

(***************************************************************************)
(* The invariant                                                           *)
(***************************************************************************)

LEMMA ForeseesKept ==
    ASSUME NEW x \in Workers, Foresees(x), Keeps(x),
           \A u \in Users : wallet'[u] # wallet[u] =>
               ~HasWallet(x, u) /\ (InTransaction(x) /\ Awaits(x, u) => worker'[x].stale)
    PROVE  Foresees(x)'
<1>1. SUFFICES ASSUME InTransaction(x)', ~worker'[x].stale, NEW u \in Users, Touches(x, u)'
               PROVE  worker'[x].balance[u]
                          = wallet'[u] - DrawnOf(worker'[x].bills, PeriodOf(x)', u)
  BY DEF Foresees
<1>2. InTransaction(x) /\ ~worker[x].stale /\ Touches(x, u)
  BY <1>1 DEF Keeps, Touches, HasWallet, Awaits
<1>3. PeriodOf(x)' = PeriodOf(x)
  BY DEF Keeps, PeriodOf
<1>4. wallet'[u] = wallet[u]
  BY <1>1, <1>2 DEF Touches
<1>5. worker'[x].balance = worker[x].balance /\ worker'[x].bills = worker[x].bills
  BY DEF Keeps
<1> QED BY <1>2, <1>3, <1>4, <1>5 DEF Foresees

LEMMA DrawsForesees ==
    ASSUME IInv, OneDraft, NEW x \in Workers, Foresees(x), Draws(x), wallet' = wallet
    PROVE  Foresees(x)'
<1>1. SUFFICES ASSUME InTransaction(x)', ~worker'[x].stale, NEW u \in Users, Touches(x, u)'
               PROVE  worker'[x].balance[u]
                          = wallet'[u] - DrawnOf(worker'[x].bills, PeriodOf(x)', u)
  BY DEF Foresees
<1>2. PICK l \in worker[x].lines, b \in BillRow :
         /\ SameKey(b, l)
         /\ b.status = "UNDER_REVIEW" => b.paid = 0
         /\ b.status \in SettledInvoice => l.outcome = "bill"
         /\ worker'[x].lines = worker[x].lines \ {l}
         /\ worker'[x].bills = worker[x].bills \cup {b}
         /\ worker'[x].balance = [worker[x].balance EXCEPT
                ![Owner[l.service]] = worker[x].balance[Owner[l.service]] - b.paid]
  BY DEF Draws
<1>3. InTransaction(x) /\ ~worker[x].stale /\ PeriodOf(x)' = PeriodOf(x)
  BY <1>1 DEF Draws, PeriodOf
<1>4. /\ TypeOK /\ WorkShape /\ worker[x] \in WorkerRow /\ wallet \in [Users -> Nat]
      /\ worker[x].pc \notin {"idle", "listing", "dunning"}
  BY <1>3 DEF IInv, TypeOK, InTransaction
<1>5. PICK p : p = PeriodOf(x) /\ p \in Periods
  BY <1>4, PeriodOfType
<1>6. /\ worker[x].balance \in [Users -> Nat] /\ worker[x].bills \in SUBSET BillRow
      /\ l \in LineRow
  BY <1>4 DEF WorkerRow
<1>7. PICK o : o = Owner[l.service]
  OBVIOUS
<1>8. o \in Users /\ Owner[b.service] = o
  BY <1>2, <1>6, <1>7, ConstantsAssumption DEF LineRow, SameKey
<1>9. \A y \in worker[x].bills : ~SameKey(y, b)
  BY <1>2 DEF OneDraft, SameKey
<1>10. DrawnOf(worker'[x].bills, p, u)
           = DrawnOf(worker[x].bills, p, u) + (IF o = u THEN b.paid ELSE 0)
  <2>1. PICK bills : bills = worker[x].bills
    OBVIOUS
  <2>2. bills \in SUBSET BillRow /\ \A y \in bills : ~SameKey(y, b)
    BY <1>6, <1>9, <2>1
  <2>3. DrawnOf(bills \cup {b}, p, u)
            = DrawnOf(bills, p, u) + (IF Owner[b.service] = u THEN b.paid ELSE 0)
    BY <1>5, <2>2, DrawnMore
  <2> QED BY <1>2, <1>8, <2>1, <2>3
<1>11. DrawnOf(worker[x].bills, p, u) \in Int
  BY <1>6, DrawnType
<1>12. b.paid \in Nat /\ b.status \in SettledInvoice \cup {"UNDER_REVIEW"}
  BY DEF BillRow
<1>13. /\ worker[x].balance[u] \in Nat /\ wallet[u] \in Nat
       /\ worker'[x].balance[u] = worker[x].balance[u] - (IF o = u THEN b.paid ELSE 0)
  BY <1>2, <1>4, <1>6, <1>7, <1>8, <1>12
<1>14. Touches(x, u)
  <2>1. CASE b.status \in SettledInvoice /\ o = u
    <3>1. Awaits(x, u)
      BY <1>2, <1>7, <2>1 DEF Awaits
    <3> QED BY <3>1 DEF Touches
  <2>2. CASE ~(b.status \in SettledInvoice /\ o = u)
    <3>1. HasWallet(x, u)' => HasWallet(x, u)
      BY <1>2, <1>8, <2>2 DEF HasWallet
    <3>2. Awaits(x, u)' => Awaits(x, u)
      BY <1>2 DEF Awaits
    <3> QED BY <1>1, <3>1, <3>2 DEF Touches
  <2> QED BY <2>1, <2>2
<1>15. worker[x].balance[u] = wallet[u] - DrawnOf(worker[x].bills, p, u)
  BY <1>3, <1>5, <1>14 DEF Foresees
<1>16. PICK e : e = DrawnOf(worker[x].bills, p, u)
  OBVIOUS
<1>17. PICK n \in Nat : n = IF o = u THEN b.paid ELSE 0
  BY <1>12
<1>18. worker'[x].balance[u] = wallet[u] - (e + n)
  BY <1>11, <1>13, <1>15, <1>16, <1>17
<1> QED BY <1>3, <1>5, <1>10, <1>16, <1>17, <1>18

\* A step of worker w that leaves wallets and invoices alone.
LEMMA WorkKeepsMoney ==
    ASSUME IInv, IInv', MoneyInv, NEW w \in Workers, Handles(w),
           \A x \in Workers \ {w} : Keeps(x),
           UNCHANGED <<invoice, wallet, received, adjustment>>
    PROVE  Spent' /\ OneHolder' /\ Foreseen' /\ Unwritten' /\ Books'
<1>1. Spent /\ OneHolder /\ Foreseen /\ Unwritten /\ Books /\ OneDraft /\ WorkShape'
  BY DEF MoneyInv, IInv
<1>2. ~InTransaction(w)' => worker'[w].bills = {}
  BY <1>1 DEF WorkShape
<1>3. Spent'
  <2>1. ASSUME NEW x \in Workers, NEW b \in worker'[x].bills
        PROVE  b.paid <= b.total /\ (b.status = "UNDER_REVIEW" => b.paid = 0)
    <3>1. CASE b \in worker[x].bills
      BY <1>1, <3>1 DEF Spent
    <3>2. CASE b \notin worker[x].bills
      <4>1. x = w
        BY <2>1, <3>2 DEF Keeps
      <4>2. Draws(w)
        BY <1>2, <2>1, <3>2, <4>1 DEF Handles, Keeps, Opens
      <4> QED BY <2>1, <3>2, <4>1, <4>2 DEF Draws
    <3> QED BY <3>1, <3>2
  <2> QED BY <2>1 DEF Spent
<1>4. ASSUME NEW x \in Workers, NEW u \in Users, HasWallet(x, u)', ~HasWallet(x, u)
      PROVE  x = w /\ \A y \in Workers \ {w} : ~HasWallet(y, u)
  <2>1. x = w
    BY <1>4 DEF Keeps, HasWallet
  <2>2. Draws(w)
    BY <1>2, <1>4, <2>1 DEF Handles, Keeps, Opens, HasWallet
  <2>3. PICK l \in worker[w].lines, b \in BillRow :
           /\ SameKey(b, l)
           /\ b.status \in SettledInvoice => ~WaitsForWallet(w, Owner[l.service])
           /\ worker'[w].bills = worker[w].bills \cup {b}
    BY <2>2 DEF Draws
  <2>4. b.status \in SettledInvoice /\ Owner[b.service] = u
    BY <1>4, <2>1, <2>3 DEF HasWallet
  <2>5. ~WaitsForWallet(w, u)
    BY <2>3, <2>4 DEF SameKey
  <2> QED BY <2>1, <2>5 DEF WaitsForWallet
<1>5. ASSUME NEW x \in Workers, NEW u \in Users, HasWallet(x, u)', x # w
      PROVE  HasWallet(x, u)
  BY <1>4, <1>5
<1>6. OneHolder'
  <2>1. ASSUME NEW x \in Workers, NEW y \in Workers, NEW u \in Users,
               HasWallet(x, u)', HasWallet(y, u)', x # y
        PROVE  FALSE
    <3>1. CASE x = w
      <4>1. HasWallet(y, u)
        BY <1>5, <2>1, <3>1
      <4> QED BY <1>1, <1>4, <2>1, <3>1, <4>1 DEF OneHolder
    <3>2. CASE x # w
      <4>1. HasWallet(x, u)
        BY <1>5, <2>1, <3>2
      <4> QED BY <1>1, <1>4, <2>1, <3>2, <4>1 DEF OneHolder
    <3> QED BY <3>1, <3>2
  <2> QED BY <2>1 DEF OneHolder
<1>7. Foreseen'
  <2>1. ASSUME NEW x \in Workers
        PROVE  Foresees(x)'
    <3>1. Foresees(x)
      BY <1>1 DEF Foreseen
    <3>2. CASE Keeps(x)
      BY <3>1, <3>2, ForeseesKept
    <3>3. CASE ~InTransaction(x)'
      BY <3>3 DEF Foresees
    <3>4. CASE Draws(x)
      BY <1>1, <3>1, <3>4, DrawsForesees
    <3>5. CASE Opens(x)
      <4>1. ASSUME NEW u \in Users
            PROVE  DrawnOf(worker'[x].bills, PeriodOf(x)', u) = 0
        <5>1. PICK q : q = PeriodOf(x)'
          OBVIOUS
        <5>2. DrawnOf({}, q, u) = 0
          BY NothingDrawn
        <5> QED BY <3>5, <5>1, <5>2 DEF Opens
      <4>2. \A u \in Users : wallet[u] \in Nat
        BY DEF IInv, TypeOK
      <4> QED BY <3>5, <4>1, <4>2 DEF Opens, Foresees
    <3> QED BY <3>2, <3>3, <3>4, <3>5 DEF Handles
  <2> QED BY <2>1 DEF Foreseen
<1>8. Unwritten' /\ Books'
  BY <1>1 DEF Unwritten, Books, SettledMoney, InvoicesOf
<1> QED BY <1>3, <1>6, <1>7, <1>8

\* What the invoices and adjustments of a user's add up to.
Paid(inv, adj) == [k \in Keys |-> inv[k].paid + adj[k].settled]

LEMMA PaidFacts ==
    ASSUME NEW inv \in [Keys -> InvoiceRow], NEW adj \in [Keys -> [amount : Int, settled : Int]]
    PROVE  \A k \in Keys : /\ inv[k].paid \in Nat /\ adj[k].settled \in Int
                           /\ Paid(inv, adj)[k] = inv[k].paid + adj[k].settled
                           /\ Paid(inv, adj)[k] \in Int
<1>1. \A k \in Keys : inv[k].paid \in Nat /\ adj[k].settled \in Int
  BY DEF InvoiceRow
<1> QED BY <1>1 DEF Paid

LEMMA SettledMoneyFacts ==
    ASSUME TypeOK, NEW u
    PROVE  /\ SettledMoney(u) = SumFunctionOnSet(Paid(invoice, adjustment), InvoicesOf(u))
           /\ SettledMoney(u) \in Int
<1>1. PICK f : f = Paid(invoice, adjustment)
  OBVIOUS
<1>2. \A k \in Keys : f[k] \in Int
  BY <1>1, PaidFacts DEF TypeOK
<1>3. SumFunctionOnSet(f, InvoicesOf(u)) \in Int
  BY <1>2, FinitelyManyKeys, SumType
<1>4. SettledMoney(u) = SumFunctionOnSet(f, InvoicesOf(u))
  BY <1>1 DEF SettledMoney, Paid
<1> QED BY <1>1, <1>3, <1>4

LEMMA WalletTypes ==
    ASSUME TypeOK, NEW u \in Users
    PROVE  wallet[u] \in Nat /\ received[u] \in Int /\ Opening[u] \in Nat
BY ConstantsAssumption DEF TypeOK

\* The steps that move money mark every transaction that has yet to touch the wallet,
\* and wait for the one that has.
LEMMA MovedForeseen ==
    ASSUME IInv, Foreseen, NEW u \in Users, WalletIsFree(u), Overtakes({u}, {}),
           \A v \in Users : v # u => wallet'[v] = wallet[v]
    PROVE  Foreseen' /\ \A x \in Workers : Keeps(x)
<1>1. ASSUME NEW x \in Workers
      PROVE  Keeps(x) /\ Foresees(x)'
  <2>1. worker'[x] = Overtaken(x, NoPeriod, {u}, {})
    BY DEF Overtakes
  <2>2. Keeps(x) /\ (InTransaction(x) /\ Awaits(x, u) => worker'[x].stale)
    BY <2>1, OvertakenKeeps DEF IInv
  <2>3. ~HasWallet(x, u)
    BY DEF WalletIsFree
  <2>4. Foresees(x)
    BY DEF Foreseen
  <2> QED BY <2>2, <2>3, <2>4, ForeseesKept
<1> QED BY <1>1 DEF Foreseen

LEMMA KeptBills ==
    ASSUME \A x \in Workers : Keeps(x), Spent, OneHolder
    PROVE  Spent' /\ OneHolder'
BY DEF Spent, OneHolder, Keeps, HasWallet

LEMMA MoveKeepsMoney ==
    ASSUME IInv, MoneyInv, NEW u \in Users, NEW d \in Amounts, MoveMoney(u, d)
    PROVE  Spent' /\ OneHolder' /\ Foreseen' /\ Unwritten' /\ Books'
<1>1. /\ WalletIsFree(u) /\ Overtakes({u}, {})
      /\ wallet' = [wallet EXCEPT ![u] = wallet[u] + d]
      /\ received' = [received EXCEPT ![u] = received[u] + d]
      /\ invoice' = invoice /\ adjustment' = adjustment
  BY DEF MoveMoney, books
<1>2. /\ wallet \in [Users -> Nat] /\ received \in [Users -> Int] /\ d \in Int /\ TypeOK
      /\ Spent /\ OneHolder /\ Foreseen /\ Unwritten /\ Books
  BY ConstantsAssumption DEF IInv, TypeOK, MoneyInv
<1>3. \A v \in Users : v # u => wallet'[v] = wallet[v] /\ received'[v] = received[v]
  BY <1>1, <1>2
<1>4. wallet'[u] = wallet[u] + d /\ received'[u] = received[u] + d
  BY <1>1, <1>2
<1>5. Foreseen' /\ \A x \in Workers : Keeps(x)
  BY <1>1, <1>2, <1>3, MovedForeseen
<1>6. ASSUME NEW v \in Users
      PROVE  wallet'[v] = Opening[v] + received'[v] - SettledMoney(v)'
  <2>1. SettledMoney(v)' = SettledMoney(v)
    BY <1>1 DEF SettledMoney, InvoicesOf
  <2>2. wallet[v] = Opening[v] + received[v] - SettledMoney(v)
    BY <1>2 DEF Books
  <2>3. PICK m : m = SettledMoney(v)
    OBVIOUS
  <2>4. m \in Int /\ wallet[v] \in Nat /\ received[v] \in Int /\ Opening[v] \in Nat
    BY <1>2, <2>3, SettledMoneyFacts, WalletTypes
  <2>5. wallet[v] + d = Opening[v] + (received[v] + d) - m
    BY <1>2, <2>2, <2>3, <2>4
  <2> QED BY <1>3, <1>4, <2>1, <2>2, <2>3, <2>5
<1>7. Unwritten' /\ Books'
  BY <1>1, <1>2, <1>6 DEF Unwritten, Books
<1> QED BY <1>2, <1>5, <1>7, KeptBills

LEMMA AdjustmentKeepsMoney ==
    ASSUME IInv, IInv', MoneyInv, NEW k \in Keys, NEW d \in Corrections,
           ApplyProviderBillingAdjustment(k, d)
    PROVE  Spent' /\ OneHolder' /\ Foreseen' /\ Unwritten' /\ Books'
<1>1. PICK u, n : u = Owner[k[1]] /\ n = IF d > 0 THEN Earlier(wallet[u], d) ELSE d
  OBVIOUS
<1>2. /\ WalletIsFree(u) /\ Overtakes({u}, {}) /\ adjustment[k] = NoAdjustment
      /\ wallet' = [wallet EXCEPT ![u] = wallet[u] - n]
      /\ adjustment' = [adjustment EXCEPT ![k] = [amount |-> d, settled |-> n]]
      /\ invoice' = invoice /\ received' = received
  BY <1>1 DEF ApplyProviderBillingAdjustment, books
<1>3. u \in Users /\ d \in Int
  BY <1>1, ConstantsAssumption DEF Keys
<1>4. /\ wallet \in [Users -> Nat] /\ TypeOK /\ TypeOK'
      /\ adjustment \in [Keys -> [amount : Int, settled : Int]]
      /\ invoice \in [Keys -> InvoiceRow]
      /\ adjustment' \in [Keys -> [amount : Int, settled : Int]]
      /\ Spent /\ OneHolder /\ Foreseen /\ Unwritten /\ Books
  BY DEF IInv, TypeOK, MoneyInv
<1>5. n \in Int
  BY <1>1, <1>3, <1>4 DEF Earlier
<1>6. \A v \in Users : wallet'[v] = IF v = u THEN wallet[v] - n ELSE wallet[v]
  BY <1>2, <1>3, <1>4
<1>7. Foreseen' /\ \A x \in Workers : Keeps(x)
  BY <1>2, <1>3, <1>4, <1>6, MovedForeseen
<1>8. \A j \in Keys : adjustment'[j].settled
                          = IF j = k THEN adjustment[j].settled + n ELSE adjustment[j].settled
  <2>1. adjustment[k].settled = 0
    BY <1>2 DEF NoAdjustment
  <2>2. adjustment'[k].settled = n /\ \A j \in Keys : j # k => adjustment'[j] = adjustment[j]
    BY <1>2, <1>4
  <2> QED BY <1>5, <2>1, <2>2
<1>9. PICK f, g : f = Paid(invoice, adjustment) /\ g = Paid(invoice, adjustment')
  OBVIOUS
<1>10. \A j \in Keys : f[j] \in Int /\ g[j] = IF j = k THEN f[j] + n ELSE f[j]
  <2>1. \A j \in Keys : /\ invoice[j].paid \in Nat /\ adjustment[j].settled \in Int
                        /\ f[j] = invoice[j].paid + adjustment[j].settled
                        /\ g[j] = invoice[j].paid + adjustment'[j].settled
    BY <1>4, <1>9, PaidFacts
  <2> QED BY <1>5, <1>8, <2>1
<1>11. ASSUME NEW v \in Users
       PROVE  wallet'[v] = Opening[v] + received'[v] - SettledMoney(v)'
  <2>1. PICK S : S = InvoicesOf(v)
    OBVIOUS
  <2>2. S \subseteq Keys /\ IsFiniteSet(S) /\ (k \in S <=> v = u)
    BY <1>1, <2>1, FinitelyManyKeys DEF InvoicesOf
  <2>3. SumFunctionOnSet(f, S) = SettledMoney(v) /\ SettledMoney(v) \in Int
    BY <1>4, <1>9, <2>1, SettledMoneyFacts
  <2>4. SumFunctionOnSet(g, S) = SettledMoney(v)'
    BY <1>2, <1>9, <2>1 DEF SettledMoney, Paid, InvoicesOf
  <2>5. SumFunctionOnSet(g, S) = SumFunctionOnSet(f, S) + (IF v = u THEN n ELSE 0)
    <3>1. CASE v = u
      <4>1. \A j \in S : f[j] \in Int /\ g[j] = IF j = k THEN f[j] + n ELSE f[j]
        BY <1>10, <2>2
      <4>2. SumFunctionOnSet(g, S) = SumFunctionOnSet(f, S) + n
        BY <1>5, <2>2, <3>1, <4>1, SumMoved
      <4> QED BY <3>1, <4>2
    <3>2. CASE v # u
      <4>1. \A j \in S : f[j] \in Int /\ g[j] = f[j]
        BY <1>10, <2>2, <3>2
      <4>2. SumFunctionOnSet(g, S) = SumFunctionOnSet(f, S)
        BY <2>2, <4>1, SumAgrees
      <4> QED BY <2>3, <3>2, <4>2
    <3> QED BY <3>1, <3>2
  <2>6. wallet[v] = Opening[v] + received[v] - SettledMoney(v)
    BY <1>4 DEF Books
  <2>7. PICK m, e : m = SettledMoney(v) /\ e = SettledMoney(v)'
    OBVIOUS
  <2>8. m \in Int /\ wallet[v] \in Nat /\ received[v] \in Int /\ Opening[v] \in Nat
    BY <1>4, <2>3, <2>7, WalletTypes
  <2>9. e = m + (IF v = u THEN n ELSE 0)
    BY <2>3, <2>4, <2>5, <2>7
  <2>10. wallet'[v] = IF v = u THEN wallet[v] - n ELSE wallet[v]
    BY <1>6
  <2>11. wallet'[v] = Opening[v] + received[v] - e
    BY <1>5, <2>6, <2>7, <2>8, <2>9, <2>10
  <2> QED BY <1>2, <2>7, <2>11
<1>12. Unwritten' /\ Books'
  BY <1>2, <1>4, <1>11 DEF Unwritten, Books
<1> QED BY <1>4, <1>7, <1>12, KeptBills

\* A commit writes the invoices its bills stand for, over none that is there.
LEMMA CommitWrites ==
    ASSUME IInv, MoneyInv, NEW w \in Workers, CommitSettlement(w), NEW k \in Keys
    PROVE  \/ /\ invoice'[k] = invoice[k]
              /\ ~\E b \in worker[w].bills : KeyOf(b, PeriodOf(w)) = k
           \/ \E b \in worker[w].bills :
                /\ invoice'[k] = InvoiceOf(b) /\ invoice[k].paid = 0
                /\ Drawn(worker[w].bills, PeriodOf(w))[k] = b.paid
                /\ \E x \in worker[w].bills : KeyOf(x, PeriodOf(w)) = k
<1>1. PICK p, bills : p = PeriodOf(w) /\ bills = worker[w].bills
  OBVIOUS
<1>2. invoice'[k] = IF \E b \in bills : KeyOf(b, p) = k
                    THEN InvoiceOf(CHOOSE b \in bills : KeyOf(b, p) = k) ELSE invoice[k]
  BY <1>1 DEF CommitSettlement
<1>3. CASE \E b \in bills : KeyOf(b, p) = k
  <2>1. PICK c : c = CHOOSE b \in bills : KeyOf(b, p) = k
    OBVIOUS
  <2>2. c \in bills /\ KeyOf(c, p) = k
    BY <1>3, <2>1
  <2>3. invoice'[k] = InvoiceOf(c) /\ Drawn(bills, p)[k] = c.paid
    BY <1>2, <1>3, <2>1 DEF Drawn
  <2>4. k[3] = p
    BY <2>2 DEF KeyOf
  <2>5. InTransaction(w) /\ ~worker[w].stale
    BY DEF CommitSettlement, InTransaction
  <2>6. run[k[3]] \notin TerminalRun
    BY <1>1, <2>4, <2>5 DEF IInv, Fresh
  <2>7. invoice[k].paid = 0
    BY <2>6 DEF IInv, Invoiced, MoneyInv, Unwritten
  <2> QED BY <1>1, <1>3, <2>2, <2>3, <2>7
<1>4. CASE ~\E b \in bills : KeyOf(b, p) = k
  BY <1>1, <1>2, <1>4
<1> QED BY <1>3, <1>4

LEMMA CommitPays ==
    ASSUME IInv, IInv', MoneyInv, NEW w \in Workers, CommitSettlement(w), NEW u
    PROVE  SettledMoney(u)' = SettledMoney(u) + DrawnOf(worker[w].bills, PeriodOf(w), u)
<1>1. PICK f, g, h : /\ f = Paid(invoice, adjustment) /\ h = Paid(invoice', adjustment')
                     /\ g = Drawn(worker[w].bills, PeriodOf(w))
  OBVIOUS
<1>2. /\ TypeOK /\ invoice \in [Keys -> InvoiceRow] /\ invoice' \in [Keys -> InvoiceRow]
      /\ adjustment \in [Keys -> [amount : Int, settled : Int]]
      /\ worker[w].bills \in SUBSET BillRow
  BY DEF IInv, TypeOK, WorkerRow
<1>3. adjustment' = adjustment
  BY DEF CommitSettlement
<1>4. ASSUME NEW k \in Keys
      PROVE  f[k] \in Int /\ g[k] \in Int /\ h[k] = f[k] + g[k]
  <2>1. /\ invoice[k].paid \in Nat /\ adjustment[k].settled \in Int
        /\ f[k] = invoice[k].paid + adjustment[k].settled
        /\ h[k] = invoice'[k].paid + adjustment[k].settled
    BY <1>1, <1>2, <1>3, PaidFacts
  <2>2. g[k] \in Nat
    BY <1>1, <1>2, DrawnType
  <2>3. invoice'[k].paid = invoice[k].paid + g[k]
    <3>1. CASE /\ invoice'[k] = invoice[k]
               /\ ~\E b \in worker[w].bills : KeyOf(b, PeriodOf(w)) = k
      <4>1. g[k] = 0
        BY <1>1, <3>1 DEF Drawn
      <4> QED BY <2>1, <3>1, <4>1
    <3>2. CASE \E b \in worker[w].bills :
                  /\ invoice'[k] = InvoiceOf(b) /\ invoice[k].paid = 0 /\ g[k] = b.paid
      BY <2>2, <3>2 DEF InvoiceOf
    <3> QED BY <1>1, <3>1, <3>2, CommitWrites
  <2> QED BY <2>1, <2>2, <2>3
<1>5. PICK S : S = InvoicesOf(u)
  OBVIOUS
<1>6. IsFiniteSet(S) /\ \A k \in S : f[k] \in Int /\ g[k] \in Int /\ h[k] = f[k] + g[k]
  BY <1>4, <1>5, FinitelyManyKeys
<1>7. SumFunctionOnSet(h, S) = SumFunctionOnSet(f, S) + SumFunctionOnSet(g, S)
  BY <1>6, SumOfSums
<1>8. SettledMoney(u)' = SumFunctionOnSet(h, S)
  BY <1>1, <1>5 DEF SettledMoney, Paid, InvoicesOf
<1>9. SettledMoney(u) = SumFunctionOnSet(f, S)
  BY <1>1, <1>2, <1>5, SettledMoneyFacts
<1> QED BY <1>1, <1>5, <1>7, <1>8, <1>9 DEF DrawnOf

LEMMA CommitKeepsMoney ==
    ASSUME IInv, IInv', MoneyInv, NEW w \in Workers, CommitSettlement(w)
    PROVE  Spent' /\ OneHolder' /\ Foreseen' /\ Unwritten' /\ Books'
<1>1. PICK p, us, ss :
         /\ us = {u \in Users : HasWallet(w, u)}
         /\ worker' = [x \in Workers |-> IF x = w THEN PeriodDone(w) ELSE Overtaken(x, p, us, ss)]
         /\ wallet' = [u \in Users |-> IF u \in us THEN worker[w].balance[u] ELSE wallet[u]]
  <2>1. PICK p, us, ss :
           /\ p = PeriodOf(w) /\ us = {u \in Users : HasWallet(w, u)}
           /\ ss = {b.service : b \in worker[w].bills}
    OBVIOUS
  <2>2. worker' = [x \in Workers |-> IF x = w THEN PeriodDone(w) ELSE Overtaken(x, p, us, ss)]
    BY <2>1 DEF CommitSettlement
  <2>3. wallet' = [u \in Users |-> IF u \in us THEN worker[w].balance[u] ELSE wallet[u]]
    BY <2>1 DEF CommitSettlement
  <2> QED BY <2>1, <2>2, <2>3
<1>2. received' = received /\ InTransaction(w) /\ ~worker[w].stale
  BY DEF CommitSettlement, InTransaction
<1>3. /\ TypeOK /\ WorkShape /\ WorkShape' /\ TypeOK' /\ worker[w].bills \in SUBSET BillRow
      /\ Spent /\ OneHolder /\ Foreseen /\ Unwritten /\ Books
  BY DEF IInv, TypeOK, MoneyInv, WorkerRow
<1>4. worker'[w].bills = {} /\ ~InTransaction(w)'
  <2>1. worker'[w] = PeriodDone(w)
    BY <1>1
  <2>2. Outside(PeriodDone(w))
    BY <1>2, <1>3, PeriodDoneIsOutside DEF InTransaction
  <2> QED BY <2>1, <2>2 DEF Outside, InTransaction
<1>5. ASSUME NEW x \in Workers \ {w}
      PROVE  /\ Keeps(x)
             /\ \A u \in us : InTransaction(x) /\ Awaits(x, u) => worker'[x].stale
  <2>1. worker'[x] = Overtaken(x, p, us, ss)
    BY <1>1
  <2> QED BY <1>3, <2>1, OvertakenKeeps
<1>6. Spent' /\ OneHolder'
  <2>1. \A x \in Workers : worker'[x].bills = {} \/ worker'[x].bills = worker[x].bills
    BY <1>4, <1>5 DEF Keeps
  <2> QED BY <1>3, <2>1 DEF Spent, OneHolder, HasWallet
<1>7. ASSUME NEW x \in Workers
      PROVE  Foresees(x)'
  <2>1. CASE x = w
    BY <1>4, <2>1 DEF Foresees
  <2>2. CASE x # w
    <3>1. Foresees(x) /\ Keeps(x)
      BY <1>3, <1>5, <2>2 DEF Foreseen
    <3>2. ASSUME NEW u \in Users, wallet'[u] # wallet[u]
          PROVE  ~HasWallet(x, u) /\ (InTransaction(x) /\ Awaits(x, u) => worker'[x].stale)
      <4>1. u \in us
        BY <1>1, <3>2
      <4>2. HasWallet(w, u)
        BY <1>1, <4>1
      <4> QED BY <1>3, <1>5, <2>2, <4>1, <4>2 DEF OneHolder
    <3> QED BY <3>1, <3>2, ForeseesKept
  <2> QED BY <2>1, <2>2
<1>8. ASSUME NEW u \in Users
      PROVE  wallet'[u] = Opening[u] + received'[u] - SettledMoney(u)'
  <2>1. PICK m, n, e : /\ m = SettledMoney(u) /\ e = SettledMoney(u)'
                       /\ n = DrawnOf(worker[w].bills, PeriodOf(w), u)
    OBVIOUS
  <2>2. /\ m \in Int /\ n \in Int
        /\ wallet[u] \in Nat /\ received[u] \in Int /\ Opening[u] \in Nat
    BY <1>3, <2>1, SettledMoneyFacts, DrawnType, WalletTypes
  <2>3. e = m + n
    BY <2>1, CommitPays
  <2>4. wallet[u] = Opening[u] + received[u] - m
    BY <1>3, <2>1 DEF Books
  <2>5. wallet'[u] = wallet[u] - n
    <3>1. CASE HasWallet(w, u)
      <4>1. wallet'[u] = worker[w].balance[u]
        BY <1>1, <3>1
      <4>2. worker[w].balance[u] = wallet[u] - n
        BY <1>2, <1>3, <2>1, <3>1 DEF Foreseen, Foresees, Touches
      <4> QED BY <4>1, <4>2
    <3>2. CASE ~HasWallet(w, u)
      <4>1. wallet'[u] = wallet[u]
        BY <1>1, <3>2
      <4>2. \A b \in worker[w].bills : Owner[b.service] = u => b.paid = 0
        BY <1>3, <3>2 DEF HasWallet, Spent, BillRow
      <4>3. n = 0
        BY <2>1, <4>2, NothingDrawn
      <4> QED BY <2>2, <4>1, <4>3
    <3> QED BY <3>1, <3>2
  <2>6. wallet'[u] = Opening[u] + received[u] - e
    BY <2>2, <2>3, <2>4, <2>5
  <2> QED BY <1>2, <2>1, <2>6
<1>9. ASSUME NEW k \in Keys
      PROVE  /\ invoice'[k].status = "ABSENT" => invoice'[k].paid = 0
             /\ invoice'[k].paid <= invoice'[k].total
  <2>1. CASE invoice'[k] = invoice[k]
    BY <1>3, <2>1 DEF Unwritten, Books
  <2>2. CASE \E b \in worker[w].bills : invoice'[k] = InvoiceOf(b)
    <3>1. PICK b \in worker[w].bills : invoice'[k] = InvoiceOf(b)
      BY <2>2
    <3>2. b \in BillRow /\ b.paid <= b.total
      BY <1>3, <3>1 DEF Spent
    <3>3. /\ invoice'[k].status = b.status /\ invoice'[k].paid = b.paid
          /\ invoice'[k].total = b.total
      BY <3>1 DEF InvoiceOf
    <3>4. b.status # "ABSENT"
      BY <3>2 DEF BillRow, SettledInvoice
    <3> QED BY <3>2, <3>3, <3>4
  <2> QED BY <2>1, <2>2, CommitWrites
<1>10. Foreseen' /\ Unwritten' /\ Books'
  BY <1>7, <1>8, <1>9 DEF Foreseen, Unwritten, Books
<1> QED BY <1>6, <1>10

LEMMA UnmovedMoney ==
    ASSUME MoneyInv, worker' = worker,
           UNCHANGED <<invoice, wallet, received, adjustment>>
    PROVE  Spent' /\ OneHolder' /\ Foreseen' /\ Unwritten' /\ Books'
<1>1. Spent' /\ OneHolder' /\ Unwritten'
  BY DEF MoneyInv, Spent, OneHolder, HasWallet, Unwritten
<1>2. Foreseen'
  BY KeepsUnchanged, ForeseesKept DEF MoneyInv, Foreseen
<1>3. Books'
  BY DEF MoneyInv, Books, SettledMoney, InvoicesOf
<1> QED BY <1>1, <1>2, <1>3

LEMMA TimelineKeepsMoney ==
    ASSUME NEW s \in Services, TimelineNext(s)
    PROVE  worker' = worker /\ UNCHANGED <<invoice, wallet, received, adjustment>>
<1>1. worker' = worker /\ invoice' = invoice
  BY TimelineKeepsBooks
<1>2. UNCHANGED <<wallet, received, adjustment>>
  BY DEF TimelineNext, StartInitialUsageBilling, ScheduleServiceBillingCadenceChange,
         RecordProviderConfirmedResourceVersion, ApproveControlledSuspension, money
<1> QED BY <1>1, <1>2

LEMMA MoneyInvNext ==
    ASSUME IInv, IInv', MoneyInv, [Next]_vars
    PROVE  MoneyInv'
<1>1. OneDraft'
  BY AnyDrafts, OneDraftStep DEF MoneyInv, OneDraft
<1>2. CASE Tick \/ UNCHANGED vars
  <2>1. worker' = worker /\ UNCHANGED <<invoice, wallet, received, adjustment>>
    BY <1>2 DEF Tick, vars, books, money
  <2> QED BY <1>1, <2>1, UnmovedMoney DEF MoneyInv
<1>3. CASE \E s \in Services : TimelineNext(s)
  BY <1>1, <1>3, TimelineKeepsMoney, UnmovedMoney DEF MoneyInv
<1>4. CASE MoneyNext
  BY <1>1, <1>4, MoveKeepsMoney, AdjustmentKeepsMoney DEF MoneyNext, MoneyInv
<1>5. ASSUME NEW w \in Workers, Works(w) \/ TransactionLost(w) \/ Crash(w)
      PROVE  MoneyInv'
  <2>1. CASE CommitSettlement(w)
    BY <1>1, <2>1, CommitKeepsMoney DEF MoneyInv
  <2>2. CASE ~CommitSettlement(w)
    BY <1>1, <1>5, <2>2, WorkHandles, WorkKeepsMoney DEF MoneyInv
  <2> QED BY <2>1, <2>2
<1> QED BY <1>2, <1>3, <1>4, <1>5 DEF Next

LEMMA MoneyInvInit ==
    ASSUME Init
    PROVE  MoneyInv
<1>1. \A w \in Workers : worker[w] = IdleWorker
  BY DEF Init
<1>2. /\ IdleWorker.bills = {} /\ IdleWorker.lines = {} /\ IdleWorker.pc = "idle"
  BY IdleFacts
<1>3. OneDraft /\ Spent /\ OneHolder
  BY <1>1, <1>2 DEF OneDraft, Spent, OneHolder, HasWallet
<1>4. Foreseen
  BY <1>1, <1>2 DEF Foreseen, Foresees, InTransaction
<1>5. \A k \in Keys : invoice[k].paid = 0 /\ invoice[k].total = 0 /\ adjustment[k].settled = 0
  BY DEF Init, NoInvoice, NoAdjustment
<1>6. Unwritten
  BY <1>5 DEF Unwritten
<1>7. ASSUME NEW u \in Users
      PROVE  wallet[u] = Opening[u] + received[u] - SettledMoney(u)
  <2>1. PICK f : f = Paid(invoice, adjustment)
    OBVIOUS
  <2>2. \A k \in InvoicesOf(u) : f[k] = 0
    BY <1>5, <2>1 DEF Paid, InvoicesOf
  <2>3. SumFunctionOnSet(f, InvoicesOf(u)) = 0
    BY <2>2, FinitelyManyKeys, SumOfNothing
  <2>4. SettledMoney(u) = 0
    BY <2>1, <2>3 DEF SettledMoney, Paid
  <2>5. wallet[u] = Opening[u] /\ received[u] = 0 /\ Opening[u] \in Nat
    BY ConstantsAssumption DEF Init
  <2> QED BY <2>4, <2>5
<1>8. Books
  BY <1>5, <1>7 DEF Books
<1> QED BY <1>3, <1>4, <1>6, <1>8 DEF MoneyInv

\* A wallet holds what it opened with and what other products moved, less what the
\* user's invoices have been paid and adjustments have moved, whatever periods,
\* cadences, adjustments and purchases race for it (worker.ts:679-998).
THEOREM BooksBalance == Spec => []Books
<1>1. Init => MoneyInv
  BY MoneyInvInit
<1>2. IInv /\ IInv' /\ MoneyInv /\ [Next]_vars => MoneyInv'
  BY MoneyInvNext
<1>3. MoneyInv => Books
  BY DEF MoneyInv
<1> QED BY Invariance, <1>1, <1>2, <1>3, PTL DEF Spec
=============================================================================
