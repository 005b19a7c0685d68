-------------------------- MODULE WalletTopUpProofs --------------------------
(***************************************************************************)
(* Theorems about WalletTopUp for every set of top-ups and calls, every    *)
(* amount, bonus and opening balance, and any number of attempts: types,   *)
(* one credit, its payment, ledger and journal; and that it implements     *)
(* TopUpContract: each of its steps is a step of the contract or changes   *)
(* nothing the contract sees.                                              *)
(***************************************************************************)
EXTENDS WalletTopUp, TLAPS

(***************************************************************************)
(* Types                                                                   *)
(***************************************************************************)

\* An attempt belongs to one of the top-ups.
LEMMA AttemptParts ==
    /\ \A a \in Attempts : TopUpOf(a) \in TopUps
    /\ \A t \in TopUps, n \in 1..MaxAttempts : <<t, n>> \in Attempts /\ TopUpOf(<<t, n>>) = t
    /\ None \notin Attempts /\ None \notin TopUps
BY ConstantsAssumption DEF Attempts, TopUpOf

RowTypes ==
    /\ topUp \in [TopUps -> TopUpStatuses]
    /\ tries \in [TopUps -> 0..MaxAttempts]
    /\ attempt \in [Attempts -> AttemptStatuses]
    /\ linked \subseteq Attempts
    /\ verified \subseteq Attempts
    /\ recovery \in [Attempts -> CaseStatuses]

MoneyTypes ==
    /\ refund \in [TopUps -> RefundStatuses]
    /\ balance \in Nat
    /\ ledger \in Seq(LedgerRow)
    /\ journal \subseteq TopUps \X {"succeeded", "refunded"}

CallTypes ==
    /\ pc \in [Calls -> Phases]
    /\ at \in [Calls -> Attempts \cup {None}]
    /\ \A c \in Calls : pc[c] = "idle" <=> at[c] = None
    /\ saw \in [Calls -> BOOLEAN]

OutsideTypes ==
    /\ paid \in [Attempts -> {"no", "short", "full"}]
    /\ spends \in 0..MaxSpends

LEMMA TypeParts ==
    /\ TypeOK <=> RowTypes /\ MoneyTypes /\ CallTypes /\ OutsideTypes
    /\ TypeOK' <=> RowTypes' /\ MoneyTypes' /\ CallTypes' /\ OutsideTypes'
BY DEF TypeOK, RowTypes, MoneyTypes, CallTypes, OutsideTypes

\* What a call does to its own variables keeps their types.
LEMMA CallSteps ==
    ASSUME CallTypes, NEW c \in Calls
    PROVE  /\ \A a \in Attempts : \A p \in Phases \ {"idle"} : Start(c, p, a) => CallTypes'
           /\ \A p \in Phases \ {"idle"} : pc[c] # "idle" /\ Go(c, p) => CallTypes'
           /\ End(c) => CallTypes'
           /\ UNCHANGED calls => CallTypes'
<1>1. ASSUME NEW a \in Attempts, NEW p \in Phases \ {"idle"}, Start(c, p, a)
      PROVE  CallTypes'
  BY <1>1, AttemptParts DEF CallTypes, Start
<1>2. ASSUME NEW p \in Phases \ {"idle"}, pc[c] # "idle", Go(c, p)
      PROVE  CallTypes'
  BY <1>2 DEF CallTypes, Go
<1>3. ASSUME End(c)
      PROVE  CallTypes'
  BY <1>3 DEF CallTypes, End, Phases
<1>4. ASSUME UNCHANGED calls
      PROVE  CallTypes'
  BY <1>4 DEF CallTypes, calls
<1>5. QED
  BY <1>1, <1>2, <1>3, <1>4

\* A call that is not idle works on an attempt.
LEMMA AtAttempt ==
    ASSUME CallTypes, NEW c \in Calls, pc[c] # "idle"
    PROVE  at[c] \in Attempts /\ TopUpOf(at[c]) \in TopUps
BY AttemptParts DEF CallTypes

\* A row for a top-up is a ledger row, and so is what a credit appends.
LEMMA CreditRowTypes ==
    ASSUME TypeOK, NEW a \in Attempts
    PROVE  CreditRows(a) \in Seq(LedgerRow)
<1> DEFINE t == TopUpOf(a)
<1>1. t \in TopUps /\ Amount[t] \in Nat /\ Bonus[t] \in Nat /\ balance \in Nat
  BY AttemptParts, ConstantsAssumption DEF TypeOK
<1>2. Row("TOP_UP", t, Amount[t], balance + Amount[t]) \in LedgerRow
  BY <1>1 DEF Row, LedgerRow
<1>3. Row("TOP_UP_BONUS", t, Bonus[t], balance + Amount[t] + Bonus[t]) \in LedgerRow
  BY <1>1 DEF Row, LedgerRow
<1>4. QED
  BY <1>2, <1>3 DEF CreditRows

\* Crediting keeps the types of rows and money.
LEMMA CreditTypes ==
    ASSUME TypeOK, NEW a \in Attempts, CreditAndSucceed(a)
    PROVE  RowTypes' /\ MoneyTypes'
<1> DEFINE t == TopUpOf(a)
<1>1. t \in TopUps /\ Amount[t] \in Nat /\ Bonus[t] \in Nat
  BY AttemptParts, ConstantsAssumption
<1>2. RowTypes'
  BY <1>1 DEF TypeOK, RowTypes, CreditAndSucceed, SetAttempt, SetTopUp, SetCase,
              AttemptStatuses, TopUpStatuses, CaseStatuses
<1>3. CreditRows(a) \in Seq(LedgerRow)
  BY CreditRowTypes
<1>4. ledger \o CreditRows(a) \in Seq(LedgerRow)
  BY <1>3 DEF TypeOK
<1>5. balance' \in Nat /\ ledger' \in Seq(LedgerRow)
  <2>1. CASE ExistingLedger(a)
    BY <2>1 DEF TypeOK, CreditAndSucceed
  <2>2. CASE ~ExistingLedger(a)
    <3>1. balance' = balance + Amount[t] + Bonus[t] /\ ledger' = ledger \o CreditRows(a)
      BY <2>2 DEF CreditAndSucceed
    <3>2. QED
      BY <1>1, <1>4, <3>1 DEF TypeOK
  <2>3. QED
    BY <2>1, <2>2
<1>6. QED
  BY <1>1, <1>2, <1>5 DEF TypeOK, MoneyTypes, CreditAndSucceed, PostSucceeded

\* Keeping an attempt settled only makes sure of the journal.
LEMMA KeepTypes ==
    ASSUME TypeOK, NEW a \in Attempts, KeepSettled(a)
    PROVE  RowTypes' /\ MoneyTypes'
BY AttemptParts DEF TypeOK, RowTypes, MoneyTypes, KeepSettled, PostSucceeded, rows

\* Creating an attempt keeps the types.
LEMMA OpenTypes ==
    ASSUME TypeOK, NEW c \in Calls, NEW t \in TopUps,
           CreateTopUp(c, t) \/ RetryTopUp(c, t)
    PROVE  TypeOK'
<1>1. OpenAttempt(c, t)
  BY DEF CreateTopUp, RetryTopUp
<1>2. tries[t] + 1 \in 1..MaxAttempts
  BY <1>1, ConstantsAssumption DEF TypeOK, OpenAttempt
<1>3. <<t, tries[t] + 1>> \in Attempts
  BY <1>2, AttemptParts
<1>4. CallTypes'
  BY <1>1, <1>3, CallSteps, TypeParts DEF OpenAttempt, Phases
<1>5. attempt' \in [Attempts -> AttemptStatuses]
  BY DEF TypeOK, CreateTopUp, RetryTopUp, SetAttempt, AttemptStatuses
<1>6. RowTypes'
  BY <1>1, <1>2, <1>5 DEF TypeOK, RowTypes, OpenAttempt, SetTopUp, TopUpStatuses
<1>7. MoneyTypes' /\ OutsideTypes'
  BY <1>1 DEF TypeOK, MoneyTypes, OutsideTypes, OpenAttempt, money, outside
<1>8. QED
  BY <1>4, <1>6, <1>7, TypeParts

\* A handler's next step keeps the types.
LEMMA ContinueTypes ==
    ASSUME TypeOK, NEW c \in Calls, Continue(c)
    PROVE  TypeOK'
<1> DEFINE a == at[c]
<1>1. RowTypes /\ MoneyTypes /\ CallTypes /\ OutsideTypes
  BY TypeParts
<1>2. pc[c] # "idle"
  BY DEF Continue, GatewayRefuses, GatewayAccepts, PersistLink, PersistFails,
         PersistForReview, GiveUp, GatewayConfirms, Settle, SettleFails, ReadForReview,
         ReadTopUpForReview, RecordReview, ReadForFailure, ReadTopUpForFailure,
         RecordFailure, ReadForAction, RecordAction, MarkDefinitivelyFailed
<1>3. a \in Attempts /\ TopUpOf(a) \in TopUps
  BY <1>1, <1>2, AtAttempt
<1>4. OutsideTypes'
  <2>1. UNCHANGED outside
    BY DEF Continue, GatewayRefuses, GatewayAccepts, PersistLink, PersistFails,
           PersistForReview, GiveUp, GatewayConfirms, Settle, SettleFails, ReadForReview,
           ReadTopUpForReview, RecordReview, ReadForFailure, ReadTopUpForFailure,
           RecordFailure, ReadForAction, RecordAction, MarkDefinitivelyFailed
  <2>2. QED
    BY <1>1, <2>1 DEF OutsideTypes, outside
<1>5. CallTypes'
  <2>1. CASE End(c)
    BY <1>1, <2>1, CallSteps
  <2>2. CASE \E p \in Phases \ {"idle"} : Go(c, p)
    BY <1>1, <1>2, <2>2, CallSteps
  <2>3. CASE ReadTopUpForReview(c) \/ Return(c) \/ ReadForAction(c)
    BY <1>1, <1>2, <2>1, <2>3 DEF CallTypes, ReadTopUpForReview, Return, ReadForAction, Phases
  <2>4. QED
    BY <2>1, <2>2, <2>3
    DEF Continue, GatewayRefuses, GatewayAccepts, PersistLink, PersistFails,
        PersistForReview, GiveUp, GatewayConfirms, Settle, SettleFails, AfterFailure,
        ReadForReview, RecordReview, ReadForFailure, ReadTopUpForFailure, RecordFailure,
        ReadForAction, RecordAction, MarkDefinitivelyFailed, Phases
<1>6. RowTypes' /\ MoneyTypes'
  <2>1. CASE UNCHANGED <<rows, refund, money>>
    BY <1>1, <2>1 DEF RowTypes, MoneyTypes, rows, money
  <2>2. CASE \/ GatewayRefuses(c) \/ PersistLink(c) \/ PersistForReview(c)
             \/ RecordReview(c) \/ RecordFailure(c) \/ RecordAction(c)
             \/ MarkDefinitivelyFailed(c)
    <3>1. MoneyTypes'
      BY <1>1, <2>2
      DEF MoneyTypes, money, GatewayRefuses, PersistLink, PersistForReview, RecordReview,
          RecordFailure, RecordAction, MarkDefinitivelyFailed
    <3>2. RowTypes'
      BY <1>1, <1>3, <2>2
      DEF RowTypes, GatewayRefuses, PersistLink, PersistForReview, RecordReview,
          RecordFailure, RecordAction, MarkDefinitivelyFailed, SetAttempt, SetTopUp, SetCase,
          TopUpUnlessSucceeded, AttemptUnlessSucceeded, ReviewCase, ActionCase, AttemptStatuses,
          TopUpStatuses, CaseStatuses
    <3>3. QED
      BY <3>1, <3>2
  <2>3. CASE GatewayConfirms(c)
    BY <1>1, <1>3, <2>3 DEF RowTypes, MoneyTypes, money, GatewayConfirms
  <2>4. CASE Settle(c)
    BY <1>3, <2>1, <2>4, KeepTypes, CreditTypes DEF Settle
  <2>5. QED
    BY <2>1, <2>2, <2>3, <2>4
    DEF Continue, GatewayAccepts, PersistFails, GiveUp, SettleFails, ReadForReview, ReadForAction,
        ReadTopUpForReview, ReadForFailure, ReadTopUpForFailure
<1>7. QED
  BY <1>4, <1>5, <1>6, TypeParts

\* Every step keeps the types.
LEMMA TypeStep ==
    ASSUME TypeOK, [Next]_vars
    PROVE  TypeOK'
<1>1. RowTypes /\ MoneyTypes /\ CallTypes /\ OutsideTypes
  BY TypeParts
<1>2. ASSUME NEW c \in Calls, NEW t \in TopUps, CreateTopUp(c, t) \/ RetryTopUp(c, t)
      PROVE  TypeOK'
  BY <1>2, OpenTypes
<1>3. ASSUME NEW c \in Calls, NEW a \in Attempts,
             Verify(c, a) \/ Reverify(c, a) \/ ReadToMarkFailed(c, a)
      PROVE  TypeOK'
  <2>1. CallTypes'
    BY <1>1, <1>3, CallSteps DEF Verify, Reverify, ReadToMarkFailed, Phases
  <2>2. RowTypes' /\ MoneyTypes' /\ OutsideTypes'
    BY <1>1, <1>3 DEF RowTypes, MoneyTypes, OutsideTypes, Verify, Reverify, ReadToMarkFailed,
                      rows, money, outside
  <2>3. QED
    BY <2>1, <2>2, TypeParts
<1>4. ASSUME NEW c \in Calls, NEW a \in Attempts, ReconcileWalletCredit(c, a)
      PROVE  TypeOK'
  <2>1. CallTypes'
    BY <1>1, <1>4, CallSteps DEF ReconcileWalletCredit, Phases
  <2>2. RowTypes' /\ MoneyTypes'
    <3>1. CASE UNCHANGED <<rows, refund, money>>
      BY <1>1, <3>1 DEF RowTypes, MoneyTypes, rows, money
    <3>2. QED
      BY <1>4, <3>1, KeepTypes, CreditTypes DEF ReconcileWalletCredit
  <2>3. OutsideTypes'
    BY <1>1, <1>4 DEF OutsideTypes, outside, ReconcileWalletCredit
  <2>4. QED
    BY <2>1, <2>2, <2>3, TypeParts
<1>5. ASSUME NEW c \in Calls, Continue(c)
      PROVE  TypeOK'
  BY <1>5, ContinueTypes
<1>6. ASSUME NEW t \in TopUps, RequestRefund(t)
      PROVE  TypeOK'
  <2>1. Amount[t] \in Nat
    BY ConstantsAssumption
  <2>2. MoneyTypes'
    <3>1. CASE Unspent(t)
      <4>1. balance - Amount[t] \in Nat
        BY <1>1, <2>1, <3>1 DEF MoneyTypes, Unspent
      <4>2. Row("TOP_UP_REFUND", t, -Amount[t], balance - Amount[t]) \in LedgerRow
        BY <2>1, <4>1 DEF Row, LedgerRow
      <4>3. ledger' \in Seq(LedgerRow) /\ balance' \in Nat
        <5>1. /\ balance' = balance - Amount[t]
              /\ ledger' = Append(ledger, Row("TOP_UP_REFUND", t, -Amount[t], balance - Amount[t]))
          BY <1>6, <3>1 DEF RequestRefund
        <5>2. ledger \in Seq(LedgerRow)
          BY <1>1 DEF MoneyTypes
        <5>3. QED
          BY <4>1, <4>2, <5>1, <5>2
      <4>4. QED
        BY <1>1, <1>6, <3>1, <4>3 DEF RequestRefund, MoneyTypes, RefundStatuses
    <3>2. CASE ~Unspent(t)
      BY <1>1, <1>6, <3>2 DEF RequestRefund, MoneyTypes, RefundStatuses, money
    <3>3. QED
      BY <3>1, <3>2
  <2>3. RowTypes' /\ CallTypes' /\ OutsideTypes'
    BY <1>1, <1>6 DEF RowTypes, CallTypes, OutsideTypes, RequestRefund, rows, calls, outside
  <2>4. QED
    BY <2>2, <2>3, TypeParts
<1>7. ASSUME NEW t \in TopUps, CompleteRefund(t)
      PROVE  TypeOK'
  BY <1>7 DEF TypeOK, CompleteRefund, rows, money, calls, outside, RefundStatuses
<1>8. ASSUME NEW a \in Attempts, NEW amount \in {"short", "full"}, Pay(a, amount)
      PROVE  TypeOK'
  BY <1>8 DEF TypeOK, Pay, rows, money, calls
<1>9. ASSUME NEW price \in Prices, Spend(price)
      PROVE  TypeOK'
  <2>1. price \in Nat /\ balance - price \in Nat
    BY <1>1, <1>9, ConstantsAssumption DEF MoneyTypes, Spend
  <2>2. Row("OTHER", None, -price, balance - price) \in LedgerRow
    BY <2>1 DEF Row, LedgerRow
  <2>3. MoneyTypes'
    BY <1>1, <1>9, <2>1, <2>2 DEF MoneyTypes, Spend
  <2>4. RowTypes' /\ CallTypes' /\ OutsideTypes'
    BY <1>1, <1>9, ConstantsAssumption
    DEF RowTypes, CallTypes, OutsideTypes, Spend, rows, calls
  <2>5. QED
    BY <2>3, <2>4, TypeParts
<1>10. ASSUME NEW c \in Calls, Crash(c)
       PROVE  TypeOK'
  <2>1. CallTypes'
    BY <1>1, <1>10, CallSteps DEF Crash
  <2>2. RowTypes' /\ MoneyTypes' /\ OutsideTypes'
    BY <1>1, <1>10, ConstantsAssumption
    DEF RowTypes, MoneyTypes, OutsideTypes, Crash, rows, money, outside
  <2>3. QED
    BY <2>1, <2>2, TypeParts
<1>11. CASE UNCHANGED vars
  BY <1>11 DEF TypeOK, vars, rows, money, calls, outside
<1>12. QED
  BY <1>2, <1>3, <1>4, <1>5, <1>6, <1>7, <1>8, <1>9, <1>10, <1>11 DEF Next

\* Every reachable state has the types of the schema, and the wallet is never
\* below zero.
THEOREM TopUpTypeCorrect == Spec => []TypeOK
<1>1. Init => TypeOK
  BY ConstantsAssumption
  DEF Init, TypeOK, TopUpStatuses, AttemptStatuses, CaseStatuses, RefundStatuses, Phases
<1>2. TypeOK /\ [Next]_vars => TypeOK'
  BY TypeStep
<1>3. QED
  BY <1>1, <1>2, PTL DEF Spec

-----------------------------------------------------------------------------
(***************************************************************************)
(* Why a top-up credits its wallet once and only for a confirmed payment.  *)
(*                                                                         *)
(* A step either credits, through CreditAndSucceed on an attempt that is   *)
(* paid in full and no duplicate, or it is plain: it makes nothing         *)
(* SUCCEEDED and adds no TOP_UP row.  The invariants follow from these two *)
(* kinds of step, whatever the racing reviews, failures and links do.      *)
(***************************************************************************)

\* An attempt is stamped, and a call gets to settling, on a full payment only.
ConfirmedIsPaid ==
    /\ \A a \in verified : paid[a] = "full"
    /\ \A c \in Calls : pc[c] = "settle" => paid[at[c]] = "full"

SafetyInv ==
    /\ TypeOK
    /\ ConfirmedIsPaid
    /\ CreditedOnce
    /\ SuccessIsCredited
    /\ CreditIsPaid
    /\ OneSuccess
    /\ CaseMatchesAttempt

CreditStep(a) ==
    /\ CreditAndSucceed(a)
    /\ ~IsDuplicate(a)
    /\ paid[a] = "full"
    /\ UNCHANGED paid

PlainStep ==
    /\ \A t \in TopUps : topUp'[t] = "SUCCEEDED" => topUp[t] = "SUCCEEDED"
    /\ \A a \in Attempts : attempt'[a] = "SUCCEEDED" => attempt[a] = "SUCCEEDED"
    /\ \/ ledger' = ledger
       \/ \E row \in LedgerRow : row.type # "TOP_UP" /\ ledger' = Append(ledger, row)
    /\ \A a \in Attempts : paid[a] = "full" => paid'[a] = "full"

(***************************************************************************)
(* The two kinds of step                                                   *)
(***************************************************************************)

\* A step that touches neither rows, money nor payments is plain.
LEMMA QuietIsPlain ==
    ASSUME TypeOK, UNCHANGED <<topUp, attempt, ledger, paid>>
    PROVE  PlainStep
BY DEF PlainStep

\* A handler's next step is plain or credits a paid attempt.
LEMMA ContinueKinds ==
    ASSUME TypeOK, ConfirmedIsPaid, NEW c \in Calls, Continue(c)
    PROVE  PlainStep \/ \E a \in Attempts : CreditStep(a)
<1> DEFINE a == at[c]
<1>1. pc[c] # "idle" => a \in Attempts /\ TopUpOf(a) \in TopUps
  BY TypeParts, AtAttempt
<1>2. CASE \/ GatewayAccepts(c) \/ PersistFails(c) \/ GiveUp(c) \/ SettleFails(c)
           \/ GatewayConfirms(c) \/ ReadForReview(c) \/ ReadTopUpForReview(c)
           \/ ReadForFailure(c) \/ ReadTopUpForFailure(c) \/ ReadForAction(c)
  BY <1>2, QuietIsPlain
  DEF GatewayAccepts, PersistFails, GiveUp, SettleFails, GatewayConfirms, ReadForReview,
      ReadForAction, ReadTopUpForReview, ReadForFailure, ReadTopUpForFailure, rows,
      money, outside
<1>3. CASE \/ GatewayRefuses(c) \/ PersistLink(c) \/ PersistForReview(c)
           \/ RecordReview(c) \/ RecordFailure(c) \/ RecordAction(c)
           \/ MarkDefinitivelyFailed(c)
  <2>1. UNCHANGED <<ledger, paid>>
    BY <1>3 DEF GatewayRefuses, PersistLink, PersistForReview, RecordReview, RecordFailure,
                RecordAction, MarkDefinitivelyFailed, money, outside
  <2>2. \A t \in TopUps : topUp'[t] = "SUCCEEDED" => topUp[t] = "SUCCEEDED"
    BY <1>1, <1>3
    DEF TypeOK, GatewayRefuses, PersistLink, PersistForReview, RecordReview, RecordFailure,
        RecordAction, MarkDefinitivelyFailed, SetTopUp, TopUpUnlessSucceeded
  <2>3. \A b \in Attempts : attempt'[b] = "SUCCEEDED" => attempt[b] = "SUCCEEDED"
    BY <1>1, <1>3
    DEF TypeOK, GatewayRefuses, PersistLink, PersistForReview, RecordReview, RecordFailure,
        RecordAction, MarkDefinitivelyFailed, SetAttempt, AttemptUnlessSucceeded
  <2>4. QED
    BY <2>1, <2>2, <2>3 DEF PlainStep
<1>4. CASE Settle(c)
  <2>1. a \in Attempts /\ paid[a] = "full" /\ UNCHANGED paid
    BY <1>1, <1>4 DEF Settle, ConfirmedIsPaid, outside
  <2>2. CASE KeepSettled(a) \/ UNCHANGED <<rows, refund, money>>
    BY <2>1, <2>2, QuietIsPlain DEF KeepSettled, rows, money
  <2>3. CASE ~IsDuplicate(a) /\ CreditAndSucceed(a)
    BY <2>1, <2>3 DEF CreditStep
  <2>4. QED
    BY <1>4, <2>2, <2>3 DEF Settle
<1>5. QED
  BY <1>2, <1>3, <1>4 DEF Continue

\* A refund and a purchase add a row that is no top-up credit, if any.
LEMMA RequestIsPlain ==
    ASSUME TypeOK, NEW t \in TopUps, RequestRefund(t)
    PROVE  PlainStep
<1>1. UNCHANGED <<topUp, attempt, paid>>
  BY DEF RequestRefund, rows, outside
<1>2. CASE ~Unspent(t)
  BY <1>1, <1>2, QuietIsPlain DEF RequestRefund, money
<1>3. CASE Unspent(t)
  <2> DEFINE row == Row("TOP_UP_REFUND", t, -Amount[t], balance - Amount[t])
  <2>1. row \in LedgerRow /\ row.type # "TOP_UP"
    BY <1>3, ConstantsAssumption DEF TypeOK, Row, LedgerRow, Unspent
  <2>2. ledger' = Append(ledger, row)
    BY <1>3 DEF RequestRefund
  <2>3. QED
    BY <1>1, <2>1, <2>2 DEF PlainStep
<1>4. QED
  BY <1>2, <1>3

LEMMA SpendIsPlain ==
    ASSUME TypeOK, NEW price \in Prices, Spend(price)
    PROVE  PlainStep
<1> DEFINE row == Row("OTHER", None, -price, balance - price)
<1>1. row \in LedgerRow /\ row.type # "TOP_UP"
  BY ConstantsAssumption DEF TypeOK, Row, LedgerRow, Spend
<1>2. ledger' = Append(ledger, row) /\ UNCHANGED <<topUp, attempt, paid>>
  BY DEF Spend, rows
<1>3. QED
  BY <1>1, <1>2 DEF PlainStep

\* Every step is plain or credits a paid attempt that is no duplicate.
LEMMA StepKinds ==
    ASSUME TypeOK, ConfirmedIsPaid, [Next]_vars
    PROVE  PlainStep \/ \E a \in Attempts : CreditStep(a)
<1>1. ASSUME NEW c \in Calls, NEW t \in TopUps, CreateTopUp(c, t) \/ RetryTopUp(c, t)
      PROVE  PlainStep
  <2>1. OpenAttempt(c, t)
    BY <1>1 DEF CreateTopUp, RetryTopUp
  <2>2. UNCHANGED <<ledger, paid>> /\ topUp' = [topUp EXCEPT ![t] = "CREATED"]
    BY <2>1 DEF OpenAttempt, SetTopUp, money, outside
  <2>3. \A b \in Attempts : attempt'[b] = "SUCCEEDED" => attempt[b] = "SUCCEEDED"
    BY <1>1 DEF TypeOK, CreateTopUp, RetryTopUp, SetAttempt
  <2>4. \A u \in TopUps : topUp'[u] = "SUCCEEDED" => topUp[u] = "SUCCEEDED"
    BY <2>2 DEF TypeOK
  <2>5. QED
    BY <2>2, <2>3, <2>4 DEF PlainStep
<1>2. ASSUME NEW c \in Calls, NEW a \in Attempts,
             Verify(c, a) \/ Reverify(c, a) \/ ReadToMarkFailed(c, a)
      PROVE  PlainStep
  BY <1>2, QuietIsPlain DEF Verify, Reverify, ReadToMarkFailed, rows, money, outside
<1>3. ASSUME NEW c \in Calls, NEW a \in Attempts, ReconcileWalletCredit(c, a)
      PROVE  PlainStep \/ CreditStep(a)
  <2>1. paid[a] = "full" /\ UNCHANGED paid
    BY <1>3 DEF ReconcileWalletCredit, ConfirmedIsPaid, outside
  <2>2. CASE KeepSettled(a) \/ UNCHANGED <<rows, refund, money>>
    BY <2>1, <2>2, QuietIsPlain DEF KeepSettled, rows, money
  <2>3. CASE ~IsDuplicate(a) /\ CreditAndSucceed(a)
    BY <2>1, <2>3 DEF CreditStep
  <2>4. QED
    BY <1>3, <2>2, <2>3 DEF ReconcileWalletCredit
<1>4. ASSUME NEW t \in TopUps, RequestRefund(t)
      PROVE  PlainStep
  BY <1>4, RequestIsPlain
<1>5. ASSUME NEW t \in TopUps, CompleteRefund(t)
      PROVE  PlainStep
  BY <1>5, QuietIsPlain DEF CompleteRefund, rows, money, outside
<1>6. ASSUME NEW a \in Attempts, NEW amount \in {"short", "full"}, Pay(a, amount)
      PROVE  PlainStep
  BY <1>6 DEF TypeOK, Pay, PlainStep, rows, money
<1>7. ASSUME NEW price \in Prices, Spend(price)
      PROVE  PlainStep
  BY <1>7, SpendIsPlain
<1>8. ASSUME NEW c \in Calls, Crash(c)
      PROVE  PlainStep
  BY <1>8, QuietIsPlain DEF Crash, rows, money, outside
<1>9. CASE UNCHANGED vars
  BY <1>9, QuietIsPlain DEF vars, rows, money, outside
<1>10. QED
  BY <1>1, <1>2, <1>3, <1>4, <1>5, <1>6, <1>7, <1>8, <1>9, ContinueKinds DEF Next

(***************************************************************************)
(* The ledger                                                              *)
(***************************************************************************)

\* The credit of a top-up is there when some row of it is.
LEMMA CreditedRows ==
    \A t \in TopUps : IsCredited(t) <=> RowsFor(t, "TOP_UP") # {}
BY DEF IsCredited, RowsFor

\* A plain step leaves every top-up's credit rows where they are.
LEMMA PlainLedger ==
    ASSUME TypeOK, PlainStep, NEW t \in TopUps
    PROVE  RowsFor(t, "TOP_UP")' = RowsFor(t, "TOP_UP")
<1>1. CASE ledger' = ledger
  BY <1>1 DEF RowsFor
<1>2. ASSUME NEW row \in LedgerRow, row.type # "TOP_UP", ledger' = Append(ledger, row)
      PROVE  RowsFor(t, "TOP_UP")' = RowsFor(t, "TOP_UP")
  <2>1. ledger \in Seq(LedgerRow)
    BY DEF TypeOK
  <2>2. DOMAIN ledger' = DOMAIN ledger \cup {Len(ledger) + 1}
    BY <1>2, <2>1
  <2>3. \A i \in DOMAIN ledger : ledger'[i] = ledger[i]
    BY <1>2, <2>1
  <2>4. ledger'[Len(ledger) + 1] = row
    BY <1>2, <2>1
  <2>5. QED
    BY <1>2, <2>2, <2>3, <2>4 DEF RowsFor
<1>3. QED
  BY <1>1, <1>2 DEF PlainStep

\* A credit adds at most one TOP_UP row, for its own top-up, only when there
\* was none, and leaves it credited.
LEMMA CreditLedger ==
    ASSUME TypeOK, NEW a \in Attempts, CreditStep(a), NEW t \in TopUps
    PROVE  /\ t # TopUpOf(a) \/ IsCredited(t) => RowsFor(t, "TOP_UP")' = RowsFor(t, "TOP_UP")
           /\ t = TopUpOf(a) /\ ~IsCredited(t) => RowsFor(t, "TOP_UP")' = {Len(ledger) + 1}
<1> DEFINE u == TopUpOf(a)
<1>1. CASE ExistingLedger(a)
  BY <1>1 DEF CreditStep, CreditAndSucceed, ExistingLedger, RowsFor
<1>2. CASE ~ExistingLedger(a)
  <2> DEFINE credit == Row("TOP_UP", u, Amount[u], balance + Amount[u])
             bonus == Row("TOP_UP_BONUS", u, Bonus[u], balance + Amount[u] + Bonus[u])
  <2>1. ledger \in Seq(LedgerRow) /\ CreditRows(a) \in Seq(LedgerRow)
    BY CreditRowTypes DEF TypeOK
  <2>2. ledger' = ledger \o CreditRows(a)
    BY <1>2 DEF CreditStep, CreditAndSucceed
  <2>3. \A i \in DOMAIN ledger : ledger'[i] = ledger[i]
    BY <2>1, <2>2
  <2>4. credit.type = "TOP_UP" /\ credit.topUp = u /\ bonus.type = "TOP_UP_BONUS"
    BY DEF Row
  <2>5. /\ Len(ledger) + 1 \in DOMAIN ledger' /\ ledger'[Len(ledger) + 1] = credit
        /\ \A i \in DOMAIN ledger' :
              i \in DOMAIN ledger \/ i = Len(ledger) + 1 \/ ledger'[i] = bonus
        /\ DOMAIN ledger \subseteq DOMAIN ledger' /\ Len(ledger) + 1 \notin DOMAIN ledger
    <3> HIDE DEF credit, bonus
    <3>1. CASE CreditRows(a) = <<credit>>
      BY <2>1, <2>2, <3>1
    <3>2. CASE CreditRows(a) = <<credit, bonus>>
      BY <2>1, <2>2, <3>2
    <3>3. QED
      BY <3>1, <3>2 DEF CreditRows, credit, bonus
  <2> HIDE DEF credit, bonus
  <2>6. RowsFor(t, "TOP_UP")' = RowsFor(t, "TOP_UP")
                                \cup (IF t = u THEN {Len(ledger) + 1} ELSE {})
    BY <2>3, <2>4, <2>5 DEF RowsFor
  <2>7. ~IsCredited(u) /\ (t = u => RowsFor(t, "TOP_UP") = {})
    BY <1>2, CreditedRows, AttemptParts DEF ExistingLedger
  <2>8. QED
    BY <2>6, <2>7
<1>3. QED
  BY <1>1, <1>2

(***************************************************************************)
(* The invariants                                                          *)
(***************************************************************************)

\* Being credited is not lost, and comes from a credit step.
LEMMA CreditedStep ==
    ASSUME TypeOK, ConfirmedIsPaid, [Next]_vars, NEW t \in TopUps
    PROVE  /\ IsCredited(t) => IsCredited(t)'
           /\ PlainStep => (IsCredited(t)' <=> IsCredited(t))
           /\ \A a \in Attempts : CreditStep(a) =>
                 (IsCredited(t)' <=> (IsCredited(t) \/ t = TopUpOf(a)))
<1>1. IsCredited(t)' <=> RowsFor(t, "TOP_UP")' # {}
  BY DEF IsCredited, RowsFor
<1>2. PlainStep => (IsCredited(t)' <=> IsCredited(t))
  BY <1>1, PlainLedger, CreditedRows
<1>3. ASSUME NEW a \in Attempts, CreditStep(a)
      PROVE  IsCredited(t)' <=> (IsCredited(t) \/ t = TopUpOf(a))
  BY <1>1, <1>3, CreditLedger, CreditedRows
<1>4. QED
  BY <1>2, <1>3, StepKinds

LEMMA CreditedOnceStep ==
    ASSUME TypeOK, ConfirmedIsPaid, CreditedOnce, [Next]_vars
    PROVE  CreditedOnce'
<1> SUFFICES ASSUME NEW t \in TopUps
             PROVE  \A i, j \in RowsFor(t, "TOP_UP")' : i = j
  BY DEF CreditedOnce
<1>1. \/ RowsFor(t, "TOP_UP")' = RowsFor(t, "TOP_UP")
      \/ RowsFor(t, "TOP_UP")' = {Len(ledger) + 1}
  BY StepKinds, PlainLedger, CreditLedger
<1>2. QED
  BY <1>1 DEF CreditedOnce

LEMMA SuccessIsCreditedStep ==
    ASSUME TypeOK, ConfirmedIsPaid, SuccessIsCredited, [Next]_vars
    PROVE  SuccessIsCredited'
<1>1. CASE PlainStep
  <2>1. \A t \in TopUps : IsCredited(t)' <=> IsCredited(t)
    BY <1>1, CreditedStep
  <2>2. QED
    BY <1>1, <2>1, AttemptParts DEF PlainStep, SuccessIsCredited
<1>2. ASSUME NEW a \in Attempts, CreditStep(a)
      PROVE  SuccessIsCredited'
  <2>1. \A t \in TopUps : IsCredited(t)' <=> (IsCredited(t) \/ t = TopUpOf(a))
    BY <1>2, CreditedStep
  <2>2. topUp' = [topUp EXCEPT ![TopUpOf(a)] = "SUCCEEDED"]
        /\ attempt' = [attempt EXCEPT ![a] = "SUCCEEDED"]
    BY <1>2 DEF CreditStep, CreditAndSucceed, SetTopUp, SetAttempt
  <2>3. QED
    BY <2>1, <2>2, AttemptParts DEF TypeOK, SuccessIsCredited
<1>3. QED
  BY <1>1, <1>2, StepKinds

LEMMA CreditIsPaidStep ==
    ASSUME TypeOK, ConfirmedIsPaid, CreditIsPaid, [Next]_vars
    PROVE  CreditIsPaid'
<1> SUFFICES ASSUME NEW t \in TopUps, IsCredited(t)'
             PROVE  \E n \in 1..MaxAttempts : paid'[<<t, n>>] = "full"
  BY DEF CreditIsPaid
<1>1. CASE PlainStep
  <2>1. PICK n \in 1..MaxAttempts : paid[<<t, n>>] = "full"
    BY <1>1, CreditedStep DEF CreditIsPaid
  <2>2. QED
    BY <1>1, <2>1, AttemptParts DEF PlainStep
<1>2. ASSUME NEW a \in Attempts, CreditStep(a)
      PROVE  \E n \in 1..MaxAttempts : paid'[<<t, n>>] = "full"
  <2>1. UNCHANGED paid /\ paid[a] = "full"
    BY <1>2 DEF CreditStep
  <2>2. CASE t = TopUpOf(a)
    <3>1. PICK n \in 1..MaxAttempts : a = <<t, n>>
      BY <2>2 DEF Attempts, TopUpOf
    <3>2. QED
      BY <2>1, <3>1
  <2>3. CASE IsCredited(t)
    BY <2>1, <2>3 DEF CreditIsPaid
  <2>4. QED
    BY <1>2, <2>2, <2>3, CreditedStep
<1>3. QED
  BY <1>1, <1>2, StepKinds

LEMMA OneSuccessStep ==
    ASSUME TypeOK, ConfirmedIsPaid, OneSuccess, [Next]_vars
    PROVE  OneSuccess'
<1>1. CASE PlainStep
  BY <1>1 DEF PlainStep, OneSuccess, TopUpOf
<1>2. ASSUME NEW a \in Attempts, CreditStep(a)
      PROVE  OneSuccess'
  <2>1. attempt' = [attempt EXCEPT ![a] = "SUCCEEDED"]
    BY <1>2 DEF CreditStep, CreditAndSucceed, SetAttempt
  <2>2. ASSUME NEW b \in Attempts, b # a, TopUpOf(b) = TopUpOf(a)
        PROVE  attempt[b] # "SUCCEEDED"
    <3>1. PICK n \in 1..MaxAttempts : b = <<TopUpOf(a), n>>
      BY <2>2 DEF Attempts, TopUpOf
    <3>2. QED
      BY <1>2, <2>2, <3>1 DEF CreditStep, IsDuplicate
  <2>3. QED
    BY <2>1, <2>2 DEF TypeOK, OneSuccess, TopUpOf
<1>3. QED
  BY <1>1, <1>2, StepKinds

\* Handlers get to settling, and attempts are stamped, on a confirmation.
LEMMA ConfirmedIsPaidStep ==
    ASSUME TypeOK, ConfirmedIsPaid, [Next]_vars
    PROVE  ConfirmedIsPaid'
<1>1. \A a \in Attempts : paid[a] = "full" => paid'[a] = "full"
  BY StepKinds DEF PlainStep, CreditStep
<1>2. \A c \in Calls : pc[c] = "settle" => at[c] \in Attempts
  BY TypeParts, AtAttempt
<1>3. CASE /\ \A a \in verified' \ verified : paid[a] = "full"
           /\ \A c \in Calls : pc'[c] = "settle" => pc[c] = "settle" /\ at'[c] = at[c]
  <2>1. \A a \in verified' : a \in Attempts /\ paid'[a] = "full"
    <3>1. verified' \subseteq Attempts
      BY TypeStep DEF TypeOK
    <3>2. QED
      BY <1>1, <1>3, <3>1 DEF ConfirmedIsPaid
  <2>2. \A c \in Calls : pc'[c] = "settle" => paid'[at'[c]] = "full"
    BY <1>1, <1>2, <1>3 DEF ConfirmedIsPaid
  <2>3. QED
    BY <2>1, <2>2 DEF ConfirmedIsPaid
<1>4. ASSUME NEW c \in Calls, NEW t \in TopUps, CreateTopUp(c, t) \/ RetryTopUp(c, t)
      PROVE  ConfirmedIsPaid'
  BY <1>3, <1>4 DEF TypeOK, CreateTopUp, RetryTopUp, OpenAttempt, Start
<1>5. ASSUME NEW c \in Calls, NEW a \in Attempts,
             Verify(c, a) \/ Reverify(c, a) \/ ReadToMarkFailed(c, a)
      PROVE  ConfirmedIsPaid'
  BY <1>3, <1>5 DEF TypeOK, Verify, Reverify, ReadToMarkFailed, Start, rows
<1>6. ASSUME NEW c \in Calls, NEW a \in Attempts, ReconcileWalletCredit(c, a)
      PROVE  ConfirmedIsPaid'
  <2>1. verified' = verified
    BY <1>6 DEF ReconcileWalletCredit, CreditAndSucceed, KeepSettled, rows
  <2>2. \A b \in Calls : pc'[b] = "settle" => pc[b] = "settle" /\ at'[b] = at[b]
    BY <1>6 DEF TypeOK, ReconcileWalletCredit, Start, calls
  <2>3. QED
    BY <1>3, <2>1, <2>2
<1>7. ASSUME NEW c \in Calls, Continue(c)
      PROVE  ConfirmedIsPaid'
  <2>1. CASE GatewayConfirms(c)
    <3>1. paid[at[c]] = "full" /\ paid' = paid /\ pc' = [pc EXCEPT ![c] = "settle"] /\ at' = at
      BY <2>1 DEF GatewayConfirms, AmountMatches, Go, outside
    <3>2. verified' \subseteq verified \cup {at[c]}
      BY <2>1 DEF GatewayConfirms
    <3>3. QED
      BY <3>1, <3>2 DEF TypeOK, ConfirmedIsPaid
  <2>2. CASE ~GatewayConfirms(c)
    <3>1. \A a \in verified' \ verified : paid[a] = "full"
      <4>1. verified' = verified \/ (Settle(c) /\ verified' = verified \cup {at[c]})
        BY <1>7, <2>2
        DEF Continue, GatewayRefuses, GatewayAccepts, PersistLink, PersistFails,
            PersistForReview, GiveUp, Settle, SettleFails, ReadForReview,
            ReadTopUpForReview, RecordReview, ReadForFailure, ReadTopUpForFailure,
            RecordFailure, ReadForAction, RecordAction, MarkDefinitivelyFailed,
            CreditAndSucceed, KeepSettled, rows
      <4>2. Settle(c) => paid[at[c]] = "full"
        BY DEF Settle, ConfirmedIsPaid
      <4>3. QED
        BY <4>1, <4>2
    <3>2. \A b \in Calls : pc'[b] = "settle" => pc[b] = "settle" /\ at'[b] = at[b]
      BY <1>7, <2>2
      DEF TypeOK, Continue, GatewayRefuses, GatewayAccepts, PersistLink, PersistFails,
          PersistForReview, GiveUp, Settle, SettleFails, AfterFailure, ReadForReview,
          ReadTopUpForReview, RecordReview, ReadForFailure, ReadTopUpForFailure,
          RecordFailure, ReadForAction, RecordAction, Return, MarkDefinitivelyFailed, Go, End
    <3>3. QED
      BY <1>3, <3>1, <3>2
  <2>3. QED
    BY <2>1, <2>2
<1>8. ASSUME NEW t \in TopUps, RequestRefund(t) \/ CompleteRefund(t)
      PROVE  ConfirmedIsPaid'
  BY <1>3, <1>8 DEF RequestRefund, CompleteRefund, rows, calls
<1>9. ASSUME NEW a \in Attempts, NEW amount \in {"short", "full"}, Pay(a, amount)
      PROVE  ConfirmedIsPaid'
  BY <1>3, <1>9 DEF Pay, rows, calls
<1>10. ASSUME NEW price \in Prices, Spend(price)
       PROVE  ConfirmedIsPaid'
  BY <1>3, <1>10 DEF Spend, rows, calls
<1>11. ASSUME NEW c \in Calls, Crash(c)
       PROVE  ConfirmedIsPaid'
  BY <1>3, <1>11 DEF TypeOK, Crash, End, rows
<1>12. CASE UNCHANGED vars
  BY <1>3, <1>12 DEF vars, rows, calls
<1>13. QED
  BY <1>4, <1>5, <1>6, <1>7, <1>8, <1>9, <1>10, <1>11, <1>12 DEF Next

\* The status of an attempt and of its case move together.
LEMMA CaseMatchesAttemptStep ==
    ASSUME TypeOK, CaseMatchesAttempt, [Next]_vars
    PROVE  CaseMatchesAttempt'
<1>1. CASE UNCHANGED <<attempt, recovery>>
  BY <1>1 DEF CaseMatchesAttempt
<1>2. ASSUME NEW c \in Calls, NEW t \in TopUps, CreateTopUp(c, t) \/ RetryTopUp(c, t)
      PROVE  CaseMatchesAttempt'
  BY <1>2 DEF TypeOK, CaseMatchesAttempt, CreateTopUp, RetryTopUp, OpenAttempt, SetAttempt
<1>3. ASSUME NEW a \in Attempts, CreditAndSucceed(a)
      PROVE  CaseMatchesAttempt'
  BY <1>3 DEF TypeOK, CaseMatchesAttempt, CreditAndSucceed, SetAttempt, SetCase
<1>4. ASSUME NEW c \in Calls, Continue(c)
      PROVE  CaseMatchesAttempt'
  <2>1. pc[c] # "idle" => at[c] \in Attempts
    BY TypeParts, AtAttempt
  <2>2. CASE GatewayRefuses(c) \/ PersistLink(c)
    BY <2>1, <2>2 DEF TypeOK, CaseMatchesAttempt, GatewayRefuses, PersistLink, SetAttempt,
                      AttemptUnlessSucceeded
  <2>3. CASE \/ PersistForReview(c) \/ RecordReview(c) \/ RecordFailure(c)
             \/ RecordAction(c) \/ MarkDefinitivelyFailed(c)
    BY <2>1, <2>3 DEF TypeOK, CaseMatchesAttempt, PersistForReview, RecordReview,
                      RecordFailure, RecordAction, MarkDefinitivelyFailed, SetAttempt,
                      SetCase, ReviewCase, ActionCase
  <2>4. CASE Settle(c)
    BY <1>1, <1>3, <2>1, <2>4 DEF Settle, KeepSettled, rows
  <2>5. QED
    BY <1>1, <1>4, <2>2, <2>3, <2>4
    DEF Continue, GatewayAccepts, PersistFails, GiveUp, GatewayConfirms, SettleFails,
        ReadForReview, ReadTopUpForReview, ReadForFailure, ReadTopUpForFailure,
        ReadForAction, rows
<1>5. QED
  BY <1>1, <1>2, <1>3, <1>4
  DEF Next, Verify, Reverify, ReconcileWalletCredit, KeepSettled, ReadToMarkFailed,
      RequestRefund,
      CompleteRefund, Pay, Spend, Crash, rows, vars

(***************************************************************************)
(* The theorems                                                            *)
(***************************************************************************)

\* The conjunction is inductive.
LEMMA SafetyInvariant == Spec => []SafetyInv
<1>1. Init => SafetyInv
  BY ConstantsAssumption
  DEF Init, SafetyInv, TypeOK, ConfirmedIsPaid, CreditedOnce, SuccessIsCredited, CreditIsPaid,
      OneSuccess, CaseMatchesAttempt, IsCredited, RowsFor, TopUpStatuses, AttemptStatuses,
      CaseStatuses, RefundStatuses, Phases, TopUpOf
<1>2. SafetyInv /\ [Next]_vars => SafetyInv'
  BY TypeStep, ConfirmedIsPaidStep, CreditedOnceStep, SuccessIsCreditedStep, CreditIsPaidStep,
     OneSuccessStep, CaseMatchesAttemptStep
  DEF SafetyInv
<1>3. QED
  BY <1>1, <1>2, PTL DEF Spec

\* However attempts, callbacks, retries and reconciliations interleave, a
\* top-up has at most one TOP_UP row in the ledger.
THEOREM TopUpCreditsOnce == Spec => []CreditedOnce
<1>1. SafetyInv => CreditedOnce
  BY DEF SafetyInv
<1>2. QED
  BY <1>1, SafetyInvariant, PTL

\* Nothing reads SUCCEEDED without its credit in the ledger.
THEOREM TopUpSuccessIsCredited == Spec => []SuccessIsCredited
<1>1. SafetyInv => SuccessIsCredited
  BY DEF SafetyInv
<1>2. QED
  BY <1>1, SafetyInvariant, PTL

\* Nothing is credited that the gateway did not confirm in full.
THEOREM TopUpCreditIsPaid == Spec => []CreditIsPaid
<1>1. SafetyInv => CreditIsPaid
  BY DEF SafetyInv
<1>2. QED
  BY <1>1, SafetyInvariant, PTL

\* No two attempts of a top-up are SUCCEEDED at once.
THEOREM TopUpOneSuccess == Spec => []OneSuccess
<1>1. SafetyInv => OneSuccess
  BY DEF SafetyInv
<1>2. QED
  BY <1>1, SafetyInvariant, PTL

\* The recovery queue agrees with the attempts: a review is open in it, and a
\* success leaves nothing open but a case an admin's own action created.
THEOREM TopUpCaseMatches == Spec => []CaseMatchesAttempt
<1>1. SafetyInv => CaseMatchesAttempt
  BY DEF SafetyInv
<1>2. QED
  BY <1>1, SafetyInvariant, PTL

(***************************************************************************)
(* The books                                                               *)
(*                                                                         *)
(* A ledger row says the balance it leaves, which is where the next one    *)
(* starts, and the transaction that writes the row of a credit or a refund *)
(* posts its accounting entry.  Crediting again finds the row, and the     *)
(* entry it makes sure of is there.                                        *)
(***************************************************************************)

HasRow(book, t, type) == \E i \in DOMAIN book : book[i].topUp = t /\ book[i].type = type

\* The rows lead from the opening balance to b.
Adds(book, b) ==
    /\ b = IF book = << >> THEN Opening ELSE book[Len(book)].after
    /\ \A i \in DOMAIN book :
          book[i].after = book[i].delta + IF i = 1 THEN Opening ELSE book[i - 1].after

\* The accounting entries are those of the rows.
Accounted(book, entries) ==
    \A t \in TopUps :
        /\ <<t, "succeeded">> \in entries <=> HasRow(book, t, "TOP_UP")
        /\ <<t, "refunded">> \in entries <=> HasRow(book, t, "TOP_UP_REFUND")

EntriesOf(row) ==
    CASE row.type = "TOP_UP" -> {<<row.topUp, "succeeded">>}
      [] row.type = "TOP_UP_REFUND" -> {<<row.topUp, "refunded">>}
      [] OTHER -> {}

LEMMA BookParts ==
    /\ BooksAgree <=> Adds(ledger, balance) /\ Accounted(ledger, journal)
    /\ BooksAgree' <=> Adds(ledger', balance') /\ Accounted(ledger', journal')
    /\ \A t \in TopUps : IsCredited(t) <=> HasRow(ledger, t, "TOP_UP")
<1>1. /\ \A t \in TopUps : IsCredited(t) <=> HasRow(ledger, t, "TOP_UP")
      /\ \A t \in TopUps : IsCredited(t)' <=> HasRow(ledger', t, "TOP_UP")
  BY DEF IsCredited, HasRow
<1>2. /\ \A t \in TopUps : RowsFor(t, "TOP_UP_REFUND") # {} <=> HasRow(ledger, t, "TOP_UP_REFUND")
      /\ \A t \in TopUps :
            RowsFor(t, "TOP_UP_REFUND")' # {} <=> HasRow(ledger', t, "TOP_UP_REFUND")
  BY DEF RowsFor, HasRow
<1>3. BooksAgree <=> Adds(ledger, balance) /\ Accounted(ledger, journal)
  BY <1>1, <1>2 DEF BooksAgree, Adds, Accounted
<1>4. BooksAgree' <=> Adds(ledger', balance') /\ Accounted(ledger', journal')
  BY <1>1, <1>2 DEF BooksAgree, Adds, Accounted
<1>5. QED
  BY <1>1, <1>3, <1>4

\* What appending a row does to a sequence.
LEMMA RowAppended ==
    ASSUME NEW S, NEW book \in Seq(S), NEW row, NEW more, more = Append(book, row)
    PROVE  /\ Len(book) \in Nat /\ Len(more) = Len(book) + 1 /\ more # << >>
           /\ DOMAIN book = 1..Len(book) /\ DOMAIN more = 1..(Len(book) + 1)
           /\ \A i \in 1..Len(book) : more[i] = book[i]
           /\ more[Len(book) + 1] = row
           /\ book = << >> <=> Len(book) = 0
<1>1. Len(book) \in Nat /\ DOMAIN book = 1..Len(book) /\ (book = << >> <=> Len(book) = 0)
  OBVIOUS
<1>2. Len(more) = Len(book) + 1 /\ DOMAIN more = 1..(Len(book) + 1)
  OBVIOUS
<1>3. more[Len(book) + 1] = row /\ \A i \in 1..Len(book) : more[i] = book[i]
  BY <1>1
<1>4. more # << >>
  BY <1>1, <1>2
<1>5. QED
  BY <1>1, <1>2, <1>3, <1>4

\* A row that starts at the balance, posted with its entry, keeps the books.
LEMMA RowAdds ==
    ASSUME NEW book \in Seq(LedgerRow), NEW b, Adds(book, b),
           NEW row \in LedgerRow, row.after = row.delta + b
    PROVE  Adds(Append(book, row), row.after)
<1>1. PICK more : more = Append(book, row)
  OBVIOUS
<1>2. /\ Len(book) \in Nat /\ Len(more) = Len(book) + 1 /\ more # << >>
      /\ DOMAIN book = 1..Len(book) /\ DOMAIN more = 1..(Len(book) + 1)
      /\ \A i \in 1..Len(book) : more[i] = book[i]
      /\ more[Len(book) + 1] = row
      /\ book = << >> <=> Len(book) = 0
  BY <1>1, RowAppended
<1>3. ASSUME NEW i \in DOMAIN more
      PROVE  more[i].after = more[i].delta + IF i = 1 THEN Opening ELSE more[i - 1].after
  <2>1. CASE i \in 1..Len(book)
    <3>1. book[i].after = book[i].delta + IF i = 1 THEN Opening ELSE book[i - 1].after
      BY <1>2, <2>1 DEF Adds
    <3>2. i # 1 => i - 1 \in 1..Len(book)
      BY <1>2, <2>1
    <3>3. QED
      BY <1>2, <2>1, <3>1, <3>2
  <2>2. CASE i = Len(book) + 1
    <3>1. b = IF Len(book) = 0 THEN Opening ELSE book[Len(book)].after
      BY <1>2 DEF Adds
    <3>2. i # 1 => i - 1 = Len(book) /\ Len(book) \in 1..Len(book)
      BY <1>2, <2>2
    <3>3. QED
      BY <1>2, <2>2, <3>1, <3>2
  <2>3. QED
    BY <1>2, <1>3, <2>1, <2>2
<1>4. row.after = IF more = << >> THEN Opening ELSE more[Len(more)].after
  BY <1>2
<1>5. QED
  BY <1>1, <1>3, <1>4 DEF Adds

LEMMA RowAccounted ==
    ASSUME NEW book \in Seq(LedgerRow), NEW entries, Accounted(book, entries),
           NEW row \in LedgerRow
    PROVE  Accounted(Append(book, row), entries \cup EntriesOf(row))
<1>1. PICK more : more = Append(book, row)
  OBVIOUS
<1>2. /\ DOMAIN book = 1..Len(book) /\ DOMAIN more = 1..(Len(book) + 1) /\ Len(book) \in Nat
      /\ \A i \in 1..Len(book) : more[i] = book[i]
      /\ more[Len(book) + 1] = row
  BY <1>1, RowAppended
<1>3. ASSUME NEW t, NEW type
      PROVE  HasRow(more, t, type) <=>
                 HasRow(book, t, type) \/ (row.topUp = t /\ row.type = type)
  <2>1. /\ Len(book) + 1 \in DOMAIN more /\ DOMAIN book \subseteq DOMAIN more
        /\ \A i \in DOMAIN more : i \in DOMAIN book \/ i = Len(book) + 1
    BY <1>2
  <2>2. QED
    BY <1>2, <2>1 DEF HasRow
<1>4. /\ row.type = "TOP_UP" => EntriesOf(row) = {<<row.topUp, "succeeded">>}
      /\ row.type = "TOP_UP_REFUND" => EntriesOf(row) = {<<row.topUp, "refunded">>}
      /\ row.type \notin {"TOP_UP", "TOP_UP_REFUND"} => EntriesOf(row) = {}
  BY DEF EntriesOf
<1>5. ASSUME NEW t \in TopUps
      PROVE  /\ <<t, "succeeded">> \in entries \cup EntriesOf(row) <=> HasRow(more, t, "TOP_UP")
             /\ <<t, "refunded">> \in entries \cup EntriesOf(row)
                   <=> HasRow(more, t, "TOP_UP_REFUND")
  BY <1>3, <1>4 DEF Accounted
<1>6. QED
  BY <1>1, <1>5 DEF Accounted

\* A step that writes one row and its entry.
Books(row) ==
    /\ row \in LedgerRow
    /\ row.after = row.delta + balance
    /\ balance' = row.after
    /\ ledger' = Append(ledger, row)
    /\ journal' = journal \cup EntriesOf(row)

LEMMA RowKeepsBooks ==
    ASSUME TypeOK, BooksAgree, NEW row, Books(row)
    PROVE  BooksAgree'
<1>1. ledger \in Seq(LedgerRow)
  BY DEF TypeOK
<1>2. Adds(ledger', balance')
  BY <1>1, BookParts, RowAdds DEF Books
<1>3. Accounted(ledger', journal')
  BY <1>1, BookParts, RowAccounted DEF Books
<1>4. QED
  BY <1>2, <1>3, BookParts

LEMMA RowFields ==
    ASSUME NEW type \in {"TOP_UP", "TOP_UP_BONUS", "TOP_UP_REFUND", "OTHER"},
           NEW t \in TopUps \cup {None}, NEW delta \in Int, NEW after \in Nat
    PROVE  /\ Row(type, t, delta, after) \in LedgerRow
           /\ Row(type, t, delta, after).type = type /\ Row(type, t, delta, after).topUp = t
           /\ Row(type, t, delta, after).delta = delta /\ Row(type, t, delta, after).after = after
BY DEF Row, LedgerRow

\* Crediting writes the rows of the amount and of the bonus, or finds the credit.
LEMMA CreditKeepsBooks ==
    ASSUME TypeOK, BooksAgree, NEW a \in Attempts,
           CreditAndSucceed(a) \/ (KeepSettled(a) /\ ExistingLedger(a))
    PROVE  BooksAgree'
<1>1. PICK t \in TopUps : t = TopUpOf(a)
  BY AttemptParts
<1>2. journal' = journal \cup {<<t, "succeeded">>}
  BY <1>1 DEF CreditAndSucceed, KeepSettled, PostSucceeded
<1>3. CASE ExistingLedger(a)
  <2>1. <<t, "succeeded">> \in journal
    BY <1>1, <1>3 DEF ExistingLedger, BooksAgree
  <2>2. journal' = journal /\ UNCHANGED <<balance, ledger>>
    BY <1>2, <1>3, <2>1 DEF CreditAndSucceed, KeepSettled
  <2>3. QED
    BY <2>2, BookParts
<1>4. CASE ~ExistingLedger(a)
  <2>1. /\ balance' = balance + Amount[t] + Bonus[t]
        /\ ledger' = ledger \o CreditRows(a)
        /\ Amount[t] \in Nat /\ Bonus[t] \in Nat /\ balance \in Nat
        /\ ledger \in Seq(LedgerRow)
    BY <1>1, <1>4, ConstantsAssumption DEF CreditAndSucceed, TypeOK
  <2>2. PICK credit : credit = Row("TOP_UP", t, Amount[t], balance + Amount[t])
    OBVIOUS
  <2>3. PICK bonus : bonus = Row("TOP_UP_BONUS", t, Bonus[t], balance + Amount[t] + Bonus[t])
    OBVIOUS
  <2>4. /\ credit \in LedgerRow /\ credit.type = "TOP_UP" /\ credit.topUp = t
        /\ credit.delta = Amount[t] /\ credit.after = balance + Amount[t]
    <3>1. PICK after : after = balance + Amount[t]
      OBVIOUS
    <3>2. after \in Nat /\ "TOP_UP" \in {"TOP_UP", "TOP_UP_BONUS"}
      BY <2>1, <3>1
    <3>3. credit = Row("TOP_UP", t, Amount[t], after)
      BY <2>2, <3>1
    <3> QED BY <2>1, <3>1, <3>2, <3>3, RowFields
  <2>5. /\ bonus \in LedgerRow /\ bonus.type = "TOP_UP_BONUS"
        /\ bonus.delta = Bonus[t] /\ bonus.after = balance + Amount[t] + Bonus[t]
    BY <2>1, <2>3, RowFields
  <2>6. /\ credit.after = credit.delta + balance /\ bonus.after = bonus.delta + credit.after
        /\ EntriesOf(credit) = {<<t, "succeeded">>} /\ EntriesOf(bonus) = {}
    BY <2>1, <2>4, <2>5 DEF EntriesOf
  <2>7. CreditRows(a) = IF Bonus[t] = 0 THEN <<credit>> ELSE <<credit, bonus>>
    BY <1>1, <2>2, <2>3 DEF CreditRows
  <2>8. PICK once : once = Append(ledger, credit)
    OBVIOUS
  <2>9. once \in Seq(LedgerRow)
    BY <2>1, <2>4, <2>8
  <2>10. Adds(once, credit.after)
    BY <2>1, <2>4, <2>6, <2>8, BookParts, RowAdds
  <2>11. Accounted(once, journal')
    BY <1>2, <2>1, <2>4, <2>6, <2>8, BookParts, RowAccounted
  <2>12. CASE Bonus[t] = 0
    <3>1. ledger' = once
      BY <2>1, <2>7, <2>8, <2>12
    <3>2. balance' = credit.after
      BY <2>1, <2>4, <2>12
    <3>3. QED
      BY <2>10, <2>11, <3>1, <3>2, BookParts
  <2>13. CASE Bonus[t] # 0
    <3>1. ledger' = Append(once, bonus)
      BY <2>1, <2>7, <2>8, <2>13
    <3>2. Adds(Append(once, bonus), bonus.after)
      BY <2>5, <2>6, <2>9, <2>10, RowAdds
    <3>3. Accounted(Append(once, bonus), journal' \cup {})
      BY <2>5, <2>6, <2>9, <2>11, RowAccounted
    <3>4. balance' = bonus.after /\ journal' \cup {} = journal'
      BY <2>1, <2>5
    <3>5. QED
      BY <3>1, <3>2, <3>3, <3>4, BookParts
  <2>14. QED
    BY <2>12, <2>13
<1>5. QED
  BY <1>3, <1>4

LEMMA RequestBooks ==
    ASSUME TypeOK, NEW t \in TopUps, RequestRefund(t), ~UNCHANGED money
    PROVE  \E row : Books(row)
<1>1. Unspent(t)
  BY DEF RequestRefund
<1>2. Amount[t] \in Nat /\ balance \in Nat /\ Amount[t] <= balance
  BY <1>1, ConstantsAssumption DEF TypeOK, Unspent
<1>3. PICK row : row = Row("TOP_UP_REFUND", t, -Amount[t], balance - Amount[t])
  OBVIOUS
<1>4. /\ row \in LedgerRow /\ row.type = "TOP_UP_REFUND" /\ row.topUp = t
      /\ row.delta = -Amount[t] /\ row.after = balance - Amount[t]
  BY <1>2, <1>3, RowFields
<1>5. EntriesOf(row) = {<<t, "refunded">>} /\ row.after = row.delta + balance
  BY <1>2, <1>4 DEF EntriesOf
<1>6. QED
  BY <1>1, <1>3, <1>4, <1>5 DEF RequestRefund, Books

LEMMA SpendBooks ==
    ASSUME TypeOK, NEW price \in Prices, Spend(price)
    PROVE  \E row : Books(row)
<1>1. price \in Nat /\ balance \in Nat /\ price <= balance
  BY ConstantsAssumption DEF TypeOK, Spend
<1>2. PICK row : row = Row("OTHER", None, -price, balance - price)
  OBVIOUS
<1>3. /\ row \in LedgerRow /\ row.type = "OTHER"
      /\ row.delta = -price /\ row.after = balance - price
  BY <1>1, <1>2, RowFields
<1>4. EntriesOf(row) = {} /\ row.after = row.delta + balance
  BY <1>1, <1>3 DEF EntriesOf
<1>5. QED
  BY <1>2, <1>3, <1>4 DEF Spend, Books

LEMMA BooksAgreeStep ==
    ASSUME TypeOK, BooksAgree, [Next]_vars
    PROVE  BooksAgree'
<1>1. CASE UNCHANGED money
  BY <1>1, BookParts DEF money
<1>2. ASSUME NEW t \in TopUps, RequestRefund(t), ~UNCHANGED money
      PROVE  BooksAgree'
  BY <1>2, RequestBooks, RowKeepsBooks
<1>3. ASSUME NEW price \in Prices, Spend(price)
      PROVE  BooksAgree'
  BY <1>3, SpendBooks, RowKeepsBooks
<1>4. ASSUME NEW c \in Calls, NEW a \in Attempts, ReconcileWalletCredit(c, a)
      PROVE  BooksAgree'
  BY <1>1, <1>4, CreditKeepsBooks DEF ReconcileWalletCredit, AlreadySettled
<1>5. ASSUME NEW c \in Calls, Settle(c)
      PROVE  BooksAgree'
  <2>1. at[c] \in Attempts
    BY <1>5, TypeParts, AtAttempt DEF Settle
  <2>2. QED
    BY <1>1, <1>5, <2>1, CreditKeepsBooks DEF Settle, AlreadySettled
<1>6. QED
  BY <1>1, <1>2, <1>3, <1>4, <1>5
  DEF Next, CreateTopUp, RetryTopUp, OpenAttempt, Verify, Reverify, ReadToMarkFailed, Continue,
      GatewayRefuses, GatewayAccepts, PersistLink, PersistFails, PersistForReview, GiveUp,
      GatewayConfirms, SettleFails, ReadForReview, ReadTopUpForReview, RecordReview,
      ReadForFailure, ReadTopUpForFailure, RecordFailure, ReadForAction, RecordAction,
      MarkDefinitivelyFailed,
      CompleteRefund, Pay, Crash, vars

\* Wallet, ledger and journal agree at every commit: each ledger row continues the
\* balance the row before it left, through the bonus row of a coupon and through
\* other products' spending, and a top-up's credit and its refund have their
\* accounting entry exactly when they have their row.
THEOREM TopUpBooksAgree == Spec => []BooksAgree
<1>1. Init => BooksAgree
  BY DEF Init, BooksAgree, IsCredited, RowsFor
<1>2. TypeOK /\ BooksAgree /\ [Next]_vars => BooksAgree'
  BY BooksAgreeStep
<1>3. QED
  BY <1>1, <1>2, TopUpTypeCorrect, PTL DEF Spec

(***************************************************************************)
(* The contract                                                            *)
(***************************************************************************)

\* What the contract sees.
PaidTopUps == {t \in TopUps : \E n \in 1..MaxAttempts : paid[<<t, n>>] = "full"}
PhaseOf == [t \in TopUps |-> Phase(t)]

\* An amount is taken back only where it was credited.
RefundIsCredited == \A t \in TopUps : RefundTaken(t) => IsCredited(t)

MoneyInv == SafetyInv /\ RefundIsCredited

LEMMA RefundIsCreditedStep ==
    ASSUME MoneyInv, [Next]_vars
    PROVE  RefundIsCredited'
<1>1. \A t \in TopUps : IsCredited(t) => IsCredited(t)'
  BY CreditedStep DEF MoneyInv, SafetyInv
<1>2. CASE refund' = refund
  BY <1>1, <1>2 DEF MoneyInv, RefundIsCredited, RefundTaken
<1>3. ASSUME NEW t \in TopUps, RequestRefund(t) \/ CompleteRefund(t)
      PROVE  RefundIsCredited'
  <2>1. IsCredited(t)
    BY <1>3 DEF MoneyInv, SafetyInv, SuccessIsCredited, RefundIsCredited, RequestRefund,
                Refundable, CompleteRefund, RefundTaken
  <2>2. \A u \in TopUps : u # t => refund'[u] = refund[u]
    BY <1>3 DEF MoneyInv, SafetyInv, TypeOK, RequestRefund, CompleteRefund
  <2>3. QED
    BY <1>1, <2>1, <2>2 DEF MoneyInv, RefundIsCredited, RefundTaken
<1>4. QED
  BY <1>2, <1>3
  DEF Next, CreateTopUp, RetryTopUp, OpenAttempt, Verify, Reverify, ReconcileWalletCredit,
      CreditAndSucceed, KeepSettled, ReadToMarkFailed, Continue, GatewayRefuses,
      GatewayAccepts, PersistLink, PersistFails, PersistForReview, GiveUp, GatewayConfirms,
      Settle, SettleFails, ReadForReview, ReadTopUpForReview, RecordReview, ReadForFailure,
      ReadTopUpForFailure, RecordFailure, ReadForAction, RecordAction,
      MarkDefinitivelyFailed, Pay, Spend, Crash, vars

LEMMA MoneyInvariant == Spec => []MoneyInv
<1>1. Init => RefundIsCredited
  BY DEF Init, RefundIsCredited, RefundTaken
<1>2. MoneyInv /\ [Next]_vars => RefundIsCredited'
  BY RefundIsCreditedStep
<1>3. QED
  BY <1>1, <1>2, SafetyInvariant, PTL DEF Spec, MoneyInv

(***************************************************************************)
(* Steps                                                                   *)
(***************************************************************************)

\* The credit of a top-up, as the phase sees it.
LEMMA PhaseValues ==
    /\ \A t \in TopUps : refund[t] = "COMPLETED" => Phase(t) = "refunded"
    /\ \A t \in TopUps : refund[t] = "APPROVED" => Phase(t) = "refunding"
    /\ \A t \in TopUps : ~RefundTaken(t) =>
          Phase(t) = IF IsCredited(t) THEN "credited" ELSE "open"
BY DEF Phase, RefundTaken

\* A step that leaves money, refunds, payments and credits alone is invisible.
LEMMA Invisible ==
    ASSUME UNCHANGED <<balance, refund, paid>>,
           \A t \in TopUps : IsCredited(t)' <=> IsCredited(t)
    PROVE  UNCHANGED Contract!vars
<1>1. \A t \in TopUps : Phase(t)' = Phase(t)
  BY DEF Phase
<1>2. [t \in TopUps |-> Phase(t)]' = [t \in TopUps |-> Phase(t)]
  BY <1>1
<1>3. PaidTopUps' = PaidTopUps
  BY DEF PaidTopUps
<1>4. QED
  BY <1>2, <1>3 DEF Contract!vars, PaidTopUps

\* Crediting is the contract's credit, unless the credit was there.
LEMMA CreditImplements ==
    ASSUME MoneyInv, [Next]_vars, NEW a \in Attempts, CreditStep(a)
    PROVE  [Contract!Next]_(Contract!vars)
<1> DEFINE t == TopUpOf(a)
<1>1. t \in TopUps
  BY AttemptParts
<1>2. \A u \in TopUps : IsCredited(u)' <=> (IsCredited(u) \/ u = t)
  BY CreditedStep DEF MoneyInv, SafetyInv
<1>3. UNCHANGED <<refund, paid>>
  BY DEF CreditStep, CreditAndSucceed
<1>4. CASE IsCredited(t)
  <2>1. balance' = balance
    BY <1>4 DEF CreditStep, CreditAndSucceed, ExistingLedger
  <2>2. QED
    BY <1>2, <1>3, <1>4, <2>1, Invisible
<1>5. CASE ~IsCredited(t)
  <2>1. balance' = balance + Amount[t] + Bonus[t]
    BY <1>5 DEF CreditStep, CreditAndSucceed, ExistingLedger
  <2>2. ~RefundTaken(t) /\ refund' = refund
    BY <1>1, <1>3, <1>5 DEF MoneyInv, RefundIsCredited
  <2>3. Phase(t) = "open" /\ Phase(t)' = "credited"
    BY <1>1, <1>2, <1>5, <2>2 DEF Phase, RefundTaken
  <2>4. \A u \in TopUps : u # t => Phase(u)' = Phase(u)
    BY <1>2, <1>3 DEF Phase
  <2>5. [u \in TopUps |-> Phase(u)]' = [[u \in TopUps |-> Phase(u)] EXCEPT ![t] = "credited"]
    BY <1>1, <2>3, <2>4
  <2>6. t \in PaidTopUps /\ PaidTopUps' = PaidTopUps
    <3>1. PICK n \in 1..MaxAttempts : a = <<t, n>>
      BY DEF Attempts, TopUpOf
    <3>2. QED
      BY <1>1, <1>3, <3>1 DEF CreditStep, PaidTopUps
  <2>7. Contract!Credit(t)
    BY <1>1, <2>1, <2>3, <2>5, <2>6 DEF Contract!Credit, PaidTopUps
  <2>8. QED
    BY <1>1, <2>7 DEF Contract!Next
<1>6. QED
  BY <1>4, <1>5

\* Requesting a refund takes the amount back, or changes nothing visible.
LEMMA RequestImplements ==
    ASSUME MoneyInv, [Next]_vars, NEW t \in TopUps, RequestRefund(t)
    PROVE  [Contract!Next]_(Contract!vars)
<1>1. PlainStep
  BY RequestIsPlain DEF MoneyInv, SafetyInv
<1>2. \A u \in TopUps : IsCredited(u)' <=> IsCredited(u)
  BY <1>1, CreditedStep DEF MoneyInv, SafetyInv
<1>3. IsCredited(t) /\ ~RefundTaken(t) /\ paid' = paid
  BY DEF MoneyInv, SafetyInv, SuccessIsCredited, RequestRefund, Refundable, outside
<1>4. refund' = [refund EXCEPT ![t] = IF Unspent(t) THEN "APPROVED" ELSE "REVIEW_REQUIRED"]
  BY DEF RequestRefund
<1>5. refund \in [TopUps -> RefundStatuses]
  BY DEF MoneyInv, SafetyInv, TypeOK
<1>6. \A u \in TopUps : u # t => Phase(u)' = Phase(u)
  BY <1>2, <1>4, <1>5 DEF Phase
<1>7. Phase(t) = "credited"
  BY <1>3 DEF Phase, RefundTaken
<1>8. PaidTopUps' = PaidTopUps
  BY <1>3 DEF PaidTopUps
<1>9. CASE Unspent(t)
  <2>1. balance >= Amount[t] /\ balance' = balance - Amount[t]
    BY <1>9 DEF RequestRefund, Unspent
  <2>2. Phase(t)' = "refunding"
    BY <1>4, <1>5, <1>9 DEF Phase
  <2>3. [u \in TopUps |-> Phase(u)]' = [[u \in TopUps |-> Phase(u)] EXCEPT ![t] = "refunding"]
    BY <1>6, <2>2
  <2>4. Contract!TakeBack(t)
    BY <1>7, <1>8, <2>1, <2>3 DEF Contract!TakeBack, PaidTopUps
  <2>5. QED
    BY <2>4 DEF Contract!Next
<1>10. CASE ~Unspent(t)
  <2>1. balance' = balance
    BY <1>10 DEF RequestRefund, money
  <2>2. Phase(t)' = Phase(t)
    BY <1>2, <1>3, <1>4, <1>5, <1>7, <1>10 DEF Phase
  <2>3. [u \in TopUps |-> Phase(u)]' = [u \in TopUps |-> Phase(u)]
    BY <1>6, <2>2
  <2>4. QED
    BY <1>8, <2>1, <2>3 DEF Contract!vars, PaidTopUps
<1>11. QED
  BY <1>9, <1>10

\* Recording the bank's refund is the contract's last step of a top-up.
LEMMA CompleteImplements ==
    ASSUME MoneyInv, NEW t \in TopUps, CompleteRefund(t)
    PROVE  Contract!Next
<1>1. UNCHANGED <<balance, ledger, paid>> /\ refund[t] = "APPROVED"
      /\ refund' = [refund EXCEPT ![t] = "COMPLETED"]
  BY DEF CompleteRefund, money, outside
<1>2. refund \in [TopUps -> RefundStatuses]
  BY DEF MoneyInv, SafetyInv, TypeOK
<1>3. \A u \in TopUps : IsCredited(u)' <=> IsCredited(u)
  BY <1>1 DEF IsCredited
<1>4. Phase(t) = "refunding" /\ Phase(t)' = "refunded"
  BY <1>1, <1>2 DEF Phase
<1>5. \A u \in TopUps : u # t => Phase(u)' = Phase(u)
  BY <1>1, <1>2, <1>3 DEF Phase
<1>6. [u \in TopUps |-> Phase(u)]' = [[u \in TopUps |-> Phase(u)] EXCEPT ![t] = "refunded"]
  BY <1>4, <1>5
<1>7. PaidTopUps' = PaidTopUps
  BY <1>1 DEF PaidTopUps
<1>8. Contract!Refunded(t)
  BY <1>1, <1>4, <1>6, <1>7 DEF Contract!Refunded, PaidTopUps
<1>9. QED
  BY <1>8 DEF Contract!Next

\* A payment counts for its top-up once it is full.
LEMMA PayImplements ==
    ASSUME MoneyInv, NEW a \in Attempts, NEW amount \in {"short", "full"}, Pay(a, amount)
    PROVE  [Contract!Next]_(Contract!vars)
<1> DEFINE t == TopUpOf(a)
<1>1. UNCHANGED <<balance, ledger, refund>> /\ paid[a] = "no"
      /\ paid' = [paid EXCEPT ![a] = amount]
  BY DEF Pay, money
<1>2. PICK n \in 1..MaxAttempts : a = <<t, n>> /\ t \in TopUps
  BY DEF Attempts, TopUpOf
<1>3. \A u \in TopUps : Phase(u)' = Phase(u)
  BY <1>1 DEF Phase, IsCredited
<1>4. [u \in TopUps |-> Phase(u)]' = [u \in TopUps |-> Phase(u)]
  BY <1>3
<1>5. \A u \in TopUps, k \in 1..MaxAttempts :
         <<u, k>> \in Attempts /\ (<<u, k>> = a <=> u = t /\ k = n)
  <2> HIDE DEF t
  <2>1. \A u \in TopUps, k \in 1..MaxAttempts : <<u, k>> = <<t, n>> <=> u = t /\ k = n
    OBVIOUS
  <2>2. \A u \in TopUps, k \in 1..MaxAttempts : <<u, k>> \in Attempts
    BY AttemptParts
  <2>3. QED
    BY <1>2, <2>1, <2>2
<1>6. paid \in [Attempts -> {"no", "short", "full"}]
  BY DEF MoneyInv, SafetyInv, TypeOK
<1>7. \A u \in TopUps, k \in 1..MaxAttempts :
         paid'[<<u, k>>] = "full" <=> paid[<<u, k>>] = "full" \/ (u = t /\ k = n /\ amount = "full")
  <2>1. ASSUME NEW u \in TopUps, NEW k \in 1..MaxAttempts, NEW b \in Attempts, b = <<u, k>>
        PROVE  paid'[b] = "full" <=> paid[b] = "full" \/ (u = t /\ k = n /\ amount = "full")
    BY <1>1, <1>5, <1>6, <2>1
  <2>2. QED
    BY <1>5, <2>1
<1>8. CASE amount = "full"
  <2>1. PaidTopUps' = PaidTopUps \cup {t}
    BY <1>2, <1>7, <1>8 DEF PaidTopUps
  <2>2. Contract!Pay(t)
    BY <1>1, <1>4, <2>1 DEF Contract!Pay, PaidTopUps
  <2>3. QED
    BY <1>2, <2>2 DEF Contract!Next
<1>9. CASE amount = "short"
  <2>1. PaidTopUps' = PaidTopUps
    BY <1>7, <1>9 DEF PaidTopUps
  <2>2. QED
    BY <1>1, <1>4, <2>1 DEF Contract!vars, PaidTopUps
<1>10. QED
  BY <1>8, <1>9

\* A purchase is the contract's spending.
LEMMA SpendImplements ==
    ASSUME MoneyInv, [Next]_vars, NEW price \in Prices, Spend(price)
    PROVE  Contract!Next
<1>1. \A u \in TopUps : IsCredited(u)' <=> IsCredited(u)
  BY SpendIsPlain, CreditedStep DEF MoneyInv, SafetyInv
<1>2. UNCHANGED <<refund, paid>>
  BY DEF Spend
<1>3. \A u \in TopUps : Phase(u)' = Phase(u)
  BY <1>1, <1>2 DEF Phase
<1>4. [u \in TopUps |-> Phase(u)]' = [u \in TopUps |-> Phase(u)]
  BY <1>3
<1>5. PaidTopUps' = PaidTopUps
  BY <1>2 DEF PaidTopUps
<1>6. balance' >= 0 /\ balance' <= balance
  BY ConstantsAssumption DEF MoneyInv, SafetyInv, TypeOK, Spend
<1>7. Contract!Spend
  BY <1>4, <1>5, <1>6 DEF Contract!Spend, PaidTopUps
<1>8. QED
  BY <1>7 DEF Contract!Next

LEMMA StepImplements ==
    ASSUME MoneyInv, [Next]_vars
    PROVE  [Contract!Next]_(Contract!vars)
<1>1. CASE \E a \in Attempts : CreditStep(a)
  BY <1>1, CreditImplements
<1>2. CASE UNCHANGED <<balance, ledger, refund, paid>>
  <2>1. \A t \in TopUps : IsCredited(t)' <=> IsCredited(t)
    BY <1>2 DEF IsCredited
  <2>2. QED
    BY <1>2, <2>1, Invisible
<1>3. CASE \E t \in TopUps : RequestRefund(t) \/ CompleteRefund(t)
  BY <1>3, RequestImplements, CompleteImplements
<1>4. CASE \E a \in Attempts, amount \in {"short", "full"} : Pay(a, amount)
  BY <1>4, PayImplements
<1>5. CASE \E price \in Prices : Spend(price)
  BY <1>5, SpendImplements
<1>6. ASSUME NEW c \in Calls, Continue(c), ~\E a \in Attempts : CreditStep(a)
      PROVE  UNCHANGED <<balance, ledger, refund, paid>>
  <2>1. CASE Settle(c)
    <3>1. pc[c] = "settle" /\ at[c] \in Attempts /\ paid[at[c]] = "full" /\ UNCHANGED paid
      BY <2>1, TypeParts, AtAttempt DEF Settle, MoneyInv, SafetyInv, ConfirmedIsPaid, outside
    <3>2. QED
      BY <1>6, <2>1, <3>1 DEF Settle, CreditStep, KeepSettled, money
  <2>2. CASE ~Settle(c)
    BY <1>6, <2>2
    DEF Continue, GatewayRefuses, GatewayAccepts, PersistLink, PersistFails,
        PersistForReview, GiveUp, GatewayConfirms, SettleFails, ReadForReview,
        ReadTopUpForReview, RecordReview, ReadForFailure, ReadTopUpForFailure,
        RecordFailure, ReadForAction, RecordAction, MarkDefinitivelyFailed, money, outside
  <2>3. QED
    BY <2>1, <2>2
<1>7. ASSUME NEW c \in Calls, NEW a \in Attempts, ReconcileWalletCredit(c, a), ~CreditStep(a)
      PROVE  UNCHANGED <<balance, ledger, refund, paid>>
  BY <1>7 DEF ReconcileWalletCredit, CreditStep, KeepSettled, money, outside, MoneyInv,
              SafetyInv, ConfirmedIsPaid
<1>8. QED
  BY <1>1, <1>2, <1>3, <1>4, <1>5, <1>6, <1>7
  DEF Next, CreateTopUp, RetryTopUp, OpenAttempt, Verify, Reverify, ReadToMarkFailed, Crash,
      money,
      outside, vars

\* The top-up machinery moves the wallet's money only as the contract does.
THEOREM TopUpImplementsContract == Spec => ImplementsContract
<1>1. Init => Contract!Init
  <2>1. ASSUME Init
        PROVE  PaidTopUps = {} /\ [t \in TopUps |-> Phase(t)] = [t \in TopUps |-> "open"]
    <3>1. \A t \in TopUps : Phase(t) = "open"
      BY <2>1 DEF Init, Phase, IsCredited
    <3>2. PaidTopUps = {}
      BY <2>1, AttemptParts DEF Init, PaidTopUps
    <3>3. QED
      BY <3>1, <3>2
  <2>2. QED
    BY <2>1 DEF Init, Contract!Init, PaidTopUps
<1>2. MoneyInv /\ [Next]_vars => [Contract!Next]_(Contract!vars)
  BY StepImplements
<1>3. QED
  BY <1>1, <1>2, MoneyInvariant, PTL DEF Spec, ImplementsContract, Contract!Spec
=============================================================================
