----------------------------- MODULE WalletTopUp -----------------------------
(***************************************************************************)
(* Charging the wallet through a bank gateway.  A top-up has one payment   *)
(* attempt after another; an attempt is created at the gateway, paid by    *)
(* the customer there, and verified when the gateway redirects the browser *)
(* back (the callback, delivered any number of times) or when an admin     *)
(* asks again.  A verified attempt is settled: the wallet is credited and  *)
(* the attempt and the top-up become SUCCEEDED.  What cannot be decided    *)
(* goes to REVIEW with an open recovery case.                              *)
(*                                                                         *)
(* Settling, retrying and refunding are Serializable and lock their rows,  *)
(* so each is one step.  Recording a review or a failure is READ COMMITTED *)
(* and locks nothing: it reads the attempt, reads the top-up and writes,   *)
(* and anything may commit between.  Marking an attempt failed locks the   *)
(* attempt and reads the top-up unlocked.  An admin's reverify and         *)
(* reconcile end by recording the action, READ COMMITTED again: an attempt *)
(* read without a case is given one by a later write.                      *)
(*                                                                         *)
(* FAILED stands for FAILED and CANCELED, which no code tells apart, and   *)
(* "link" is what the gateway returned when it created the payment         *)
(* (authority, reference and redirect URL): the customer can pay, and a    *)
(* callback can arrive, once it is on the attempt's row.                   *)
(***************************************************************************)
EXTENDS Integers, Sequences, FiniteSets

CONSTANTS
    TopUps,       \* top-ups of one wallet
    MaxAttempts,  \* bound: attempts one top-up may have
    Calls,        \* handler invocations that may run at the same time
    Desk,         \* those an admin makes; the others are the customer's browser
    None,         \* no attempt, no top-up
    Amount,       \* what each top-up charges the wallet
    Bonus,        \* what its coupon adds, 0 without one
    Opening,      \* wallet balance at the start
    Prices,       \* what other products may take from the wallet
    MaxSpends,    \* bound: how often they do
    CanCrash      \* whether a call may be cut short by a restart or a lost database

Attempts == TopUps \X (1..MaxAttempts)

AttemptStatuses ==
    {"ABSENT", "CREATED", "PENDING", "REVIEW", "EXPIRED", "FAILED", "SUCCEEDED"}
TopUpStatuses == {"ABSENT", "CREATED", "PENDING", "FAILED", "SUCCEEDED"}
\* An OPEN case is "OPENED_BY_ACTION" while its reason is
\* admin_recovery_action: an admin's action made it, no review did.
CaseStatuses ==
    {"NONE", "OPEN", "OPENED_BY_ACTION", "RESOLVED", "DEFINITIVELY_FAILED"}
RefundStatuses == {"NONE", "REVIEW_REQUIRED", "APPROVED", "COMPLETED"}

\* The statuses a retry may follow, and those time does not touch.
Retryable == {"FAILED", "EXPIRED"}
NonExpirable == {"SUCCEEDED", "FAILED"}

Phases == {"idle", "create", "persist", "unpersisted", "verify", "settle", "review",
           "reviewRead", "reviewWrite", "failRead", "failWrite", "mark",
           "actionRead", "actionWrite"}

ASSUME ConstantsAssumption ==
    /\ MaxAttempts \in Nat \ {0}
    /\ Desk \subseteq Calls
    /\ Amount \in [TopUps -> Nat \ {0}] /\ Bonus \in [TopUps -> Nat]
    /\ Opening \in Nat /\ Prices \subseteq Nat \ {0}
    /\ MaxSpends \in Nat /\ CanCrash \in BOOLEAN
    /\ None \notin Attempts \cup TopUps

VARIABLES
    topUp,     \* WalletTopUp.status
    tries,     \* attempts the top-up has had
    attempt,   \* PaymentAttempt.status
    linked,    \* attempts that have their authority and redirect URL
    verified,  \* attempts with verifiedAt
    recovery,  \* PaymentRecoveryCase.status (and reasonCode) of the attempt's case
    refund,    \* status of the top-up's furthest WalletTopUpRefund
    balance,   \* Wallet.availableBalance
    ledger,    \* WalletLedgerEntry rows of the wallet, in commit order
    journal,   \* accounting entries posted for the top-ups
    paid,      \* what the gateway holds for an attempt: "no", "short" or "full"
    pc,        \* where each handler invocation is
    at,        \* the attempt it works on
    saw,       \* whether the top-up (for an action: the attempt) it read was SUCCEEDED
    spends     \* counter for MaxSpends

rows == <<topUp, tries, attempt, linked, verified, recovery>>
money == <<balance, ledger, journal>>
calls == <<pc, at, saw>>
outside == <<paid, spends>>
vars == <<rows, refund, money, calls, outside>>

Init ==
    /\ topUp = [t \in TopUps |-> "ABSENT"]
    /\ tries = [t \in TopUps |-> 0]
    /\ attempt = [a \in Attempts |-> "ABSENT"]
    /\ linked = {}
    /\ verified = {}
    /\ recovery = [a \in Attempts |-> "NONE"]
    /\ refund = [t \in TopUps |-> "NONE"]
    /\ balance = Opening
    /\ ledger = << >>
    /\ journal = {}
    /\ paid = [a \in Attempts |-> "no"]
    /\ pc = [c \in Calls |-> "idle"]
    /\ at = [c \in Calls |-> None]
    /\ saw = [c \in Calls |-> FALSE]
    /\ spends = 0

(***************************************************************************)
(* Handler invocations                                                     *)
(***************************************************************************)

\* Call c starts at phase p of its work on attempt a.
Start(c, p, a) ==
    /\ pc[c] = "idle"
    /\ pc' = [pc EXCEPT ![c] = p]
    /\ at' = [at EXCEPT ![c] = a]
    /\ UNCHANGED saw

Go(c, p) ==
    /\ pc' = [pc EXCEPT ![c] = p]
    /\ UNCHANGED <<at, saw>>

\* The call is answered, or lost with an error.
End(c) ==
    /\ pc' = [pc EXCEPT ![c] = "idle"]
    /\ at' = [at EXCEPT ![c] = None]
    /\ saw' = [saw EXCEPT ![c] = FALSE]

\* Verifying or settling returns: an admin's call goes on to record the action.
Return(c) ==
    IF c \in Desk
    THEN /\ pc' = [pc EXCEPT ![c] = "actionRead"]
         /\ saw' = [saw EXCEPT ![c] = FALSE]
         /\ UNCHANGED at
    ELSE End(c)

\* An admin who marks an attempt failed holds its row until the commit.
Unlocked(a) == \A c \in Calls : ~(pc[c] = "mark" /\ at[c] = a)

TopUpOf(a) == a[1]
Latest(t) == <<t, tries[t]>>
SetTopUp(t, status) == topUp' = [topUp EXCEPT ![t] = status]
SetAttempt(a, status) == attempt' = [attempt EXCEPT ![a] = status]
SetCase(a, status) == recovery' = [recovery EXCEPT ![a] = status]

\* updateMany ... status: { not: SUCCEEDED }
TopUpUnlessSucceeded(t, status) ==
    SetTopUp(t, IF topUp[t] = "SUCCEEDED" THEN "SUCCEEDED" ELSE status)
AttemptUnlessSucceeded(a, status) ==
    SetAttempt(a, IF attempt[a] = "SUCCEEDED" THEN "SUCCEEDED" ELSE status)

(***************************************************************************)
(* Creating an attempt                                                     *)
(***************************************************************************)

\* A new attempt row, and the top-up starts over with it.
OpenAttempt(c, t) ==
    LET a == <<t, tries[t] + 1>>
    IN /\ c \notin Desk
       /\ tries[t] < MaxAttempts
       /\ tries' = [tries EXCEPT ![t] = @ + 1]
       /\ SetTopUp(t, "CREATED")
       /\ Start(c, "create", a)
       /\ UNCHANGED <<linked, verified, recovery, refund, money, outside>>

CreateTopUp(c, t) ==
    /\ topUp[t] = "ABSENT"
    /\ OpenAttempt(c, t)
    /\ SetAttempt(<<t, 1>>, "CREATED")

\* The latest attempt as the retry finds it: EXPIRED once its half hour is
\* over, unless it already ended.  The gateway call that creates an attempt
\* times out long before that.
Expires(a) ==
    /\ attempt[a] \notin NonExpirable
    /\ \A c \in Calls : at[c] = a => pc[c] \notin {"create", "persist", "unpersisted"}
    /\ Unlocked(a)

RetryTopUp(c, t) ==
    LET a == Latest(t)
    IN /\ topUp[t] \notin {"ABSENT", "SUCCEEDED"}
       /\ OpenAttempt(c, t)
       /\ \/ /\ attempt[a] \in Retryable
             /\ SetAttempt(<<t, tries[t] + 1>>, "CREATED")
          \/ /\ Expires(a)
             /\ attempt' = [attempt EXCEPT ![a] = "EXPIRED",
                                           ![<<t, tries[t] + 1>>] = "CREATED"]

\* The gateway refuses the payment, or does not answer.
GatewayRefuses(c) ==
    LET a == at[c]
    IN /\ pc[c] = "create"
       /\ Unlocked(a)
       /\ AttemptUnlessSucceeded(a, "FAILED")
       /\ TopUpUnlessSucceeded(TopUpOf(a), "FAILED")
       /\ End(c)
       /\ UNCHANGED <<tries, linked, verified, recovery, refund, money, outside>>

GatewayAccepts(c) ==
    /\ pc[c] = "create"
    /\ Go(c, "persist")
    /\ UNCHANGED <<rows, refund, money, outside>>

\* The attempt and its top-up are written whatever they have become.
PersistLink(c) ==
    LET a == at[c]
    IN /\ pc[c] = "persist"
       /\ Unlocked(a)
       /\ SetAttempt(a, "PENDING")
       /\ SetTopUp(TopUpOf(a), "PENDING")
       /\ linked' = linked \cup {a}
       /\ End(c)
       /\ UNCHANGED <<tries, verified, recovery, refund, money, outside>>

PersistFails(c) ==
    /\ pc[c] = "persist"
    /\ Go(c, "unpersisted")
    /\ UNCHANGED <<rows, refund, money, outside>>

PersistForReview(c) ==
    LET a == at[c]
    IN /\ pc[c] = "unpersisted"
       /\ Unlocked(a)
       /\ SetAttempt(a, "REVIEW")
       /\ TopUpUnlessSucceeded(TopUpOf(a), "PENDING")
       /\ SetCase(a, "OPEN")
       /\ linked' = linked \cup {a}
       /\ End(c)
       /\ UNCHANGED <<tries, verified, refund, money, outside>>

\* That failed as well; the error is swallowed.
GiveUp(c) ==
    /\ pc[c] = "unpersisted"
    /\ End(c)
    /\ UNCHANGED <<rows, refund, money, outside>>

(***************************************************************************)
(* The wallet                                                              *)
(***************************************************************************)

LedgerRow == [type : {"TOP_UP", "TOP_UP_BONUS", "TOP_UP_REFUND", "OTHER"},
              topUp : TopUps \cup {None}, delta : Int, after : Nat]

Row(type, t, delta, after) == [type |-> type, topUp |-> t, delta |-> delta, after |-> after]

\* Mutant: the bonus row repeats the balance of the row before it.
MutantCreditRows(a) ==
    LET t == TopUpOf(a)
        credit == Row("TOP_UP", t, Amount[t], balance + Amount[t])
    IN IF Bonus[t] = 0 THEN <<credit>>
       ELSE <<credit, Row("TOP_UP_BONUS", t, Bonus[t], balance + Amount[t])>>

\* The ledger rows of a credit: the amount, then the coupon's bonus.
CreditRows(a) ==
    LET t == TopUpOf(a)
        credit == Row("TOP_UP", t, Amount[t], balance + Amount[t])
    IN IF Bonus[t] = 0 THEN <<credit>>
       ELSE <<credit, Row("TOP_UP_BONUS", t, Bonus[t], balance + Amount[t] + Bonus[t])>>

IsCredited(t) == \E i \in DOMAIN ledger : ledger[i].type = "TOP_UP" /\ ledger[i].topUp = t

\* Mutant: the stamp of the gateway's confirmation is taken for the credit.
MutantStampedLedger(a) == a \in verified

\* The row under the key topup_credit_<top-up>, whichever attempt wrote it.
ExistingLedger(a) == IsCredited(TopUpOf(a))

(***************************************************************************)
(* Verifying an attempt                                                    *)
(***************************************************************************)

\* The customer pays at the gateway, perhaps another amount.
Pay(a, amount) ==
    /\ a \in linked
    /\ paid[a] = "no"
    /\ paid' = [paid EXCEPT ![a] = amount]
    /\ UNCHANGED <<rows, refund, money, calls, spends>>

\* A callback; a SUCCEEDED attempt is answered as it is.
Verify(c, a) ==
    /\ c \notin Desk
    /\ a \in linked
    /\ attempt[a] # "SUCCEEDED"
    /\ Start(c, "verify", a)
    /\ UNCHANGED <<rows, refund, money, outside>>

\* An admin asks the gateway again; the action is recorded in every case.
Reverify(c, a) ==
    /\ c \in Desk
    /\ a \in linked
    /\ Start(c, IF attempt[a] = "SUCCEEDED" THEN "actionRead" ELSE "verify", a)
    /\ UNCHANGED <<rows, refund, money, outside>>

AmountMatches(a) == paid[a] = "full"

\* The gateway confirms the amount: the attempt is stamped before it settles.
GatewayConfirms(c) ==
    LET a == at[c]
    IN /\ pc[c] = "verify"
       /\ AmountMatches(a)
       /\ Unlocked(a)
       /\ verified' = IF attempt[a] = "SUCCEEDED" THEN verified ELSE verified \cup {a}
       /\ Go(c, "settle")
       /\ UNCHANGED <<topUp, tries, attempt, linked, recovery, refund, money, outside>>

\* The gateway is silent, in doubt, or names another amount (or, in phase
\* "review", settling asked for it): the attempt is read again.
ReadForReview(c) ==
    /\ pc[c] \in {"verify", "review"}
    /\ IF attempt[at[c]] = "SUCCEEDED" THEN Return(c) ELSE Go(c, "reviewRead")
    /\ UNCHANGED <<rows, refund, money, outside>>

ReadTopUpForReview(c) ==
    /\ pc[c] = "reviewRead"
    /\ pc' = [pc EXCEPT ![c] = "reviewWrite"]
    /\ saw' = [saw EXCEPT ![c] = topUp[TopUpOf(at[c])] = "SUCCEEDED"]
    /\ UNCHANGED <<rows, refund, money, at, outside>>

\* Mutant: a case that was closed stays closed.
MutantReviewCase(a) == IF recovery[a] = "NONE" THEN "OPEN" ELSE recovery[a]

ReviewCase(a) == "OPEN"

RecordReview(c) ==
    LET a == at[c]
        t == TopUpOf(a)
    IN /\ pc[c] = "reviewWrite"
       /\ Unlocked(a)
       /\ SetAttempt(a, "REVIEW")
       /\ SetTopUp(t, IF saw[c] THEN topUp[t] ELSE "PENDING")
       /\ SetCase(a, ReviewCase(a))
       /\ Return(c)
       /\ UNCHANGED <<tries, linked, verified, refund, money, outside>>

\* The redirect says the payment was canceled or failed.
ReadForFailure(c) ==
    /\ pc[c] = "verify"
    /\ IF attempt[at[c]] = "SUCCEEDED" THEN Return(c) ELSE Go(c, "failRead")
    /\ UNCHANGED <<rows, refund, money, outside>>

ReadTopUpForFailure(c) ==
    /\ pc[c] = "failRead"
    /\ IF topUp[TopUpOf(at[c])] = "SUCCEEDED" THEN Return(c) ELSE Go(c, "failWrite")
    /\ UNCHANGED <<rows, refund, money, outside>>

RecordFailure(c) ==
    LET a == at[c]
    IN /\ pc[c] = "failWrite"
       /\ Unlocked(a)
       /\ SetAttempt(a, "FAILED")
       /\ SetTopUp(TopUpOf(a), "FAILED")
       /\ SetCase(a, IF recovery[a] \in {"NONE", "RESOLVED"} THEN recovery[a]
                     ELSE "DEFINITIVELY_FAILED")
       /\ Return(c)
       /\ UNCHANGED <<tries, linked, verified, refund, money, outside>>

(***************************************************************************)
(* Settling a verified attempt                                             *)
(***************************************************************************)

AlreadySettled(a) == attempt[a] = "SUCCEEDED" /\ ExistingLedger(a)

\* Mutant: the top-up's status alone says that another attempt succeeded.
MutantIsDuplicate(a) == topUp[TopUpOf(a)] = "SUCCEEDED" /\ ExistingLedger(a)

\* Some other payment was already taken for this top-up.
IsDuplicate(a) ==
    \/ \E n \in 1..MaxAttempts :
          <<TopUpOf(a), n>> # a /\ attempt[<<TopUpOf(a), n>>] = "SUCCEEDED"
    \/ topUp[TopUpOf(a)] = "SUCCEEDED" /\ ExistingLedger(a)

PostSucceeded(a) == journal' = journal \cup {<<TopUpOf(a), "succeeded">>}

\* Credit the wallet unless the top-up's credit is there, and succeed.
CreditAndSucceed(a) ==
    LET t == TopUpOf(a)
    IN /\ IF ExistingLedger(a)
            THEN UNCHANGED <<balance, ledger>>
            ELSE /\ balance' = balance + Amount[t] + Bonus[t]
                 /\ ledger' = ledger \o CreditRows(a)
       /\ SetAttempt(a, "SUCCEEDED")
       /\ SetTopUp(t, "SUCCEEDED")
       /\ verified' = verified \cup {a}
       /\ SetCase(a, IF recovery[a] = "NONE" THEN "NONE" ELSE "RESOLVED")
       /\ PostSucceeded(a)
       /\ UNCHANGED <<tries, linked, refund>>

\* Nothing to credit: the journal entry is made sure of, and nothing else.
KeepSettled(a) ==
    /\ PostSucceeded(a)
    /\ UNCHANGED <<rows, refund, balance, ledger>>

\* A call in "settle" settles its attempt; a duplicate goes to review.
Settle(c) ==
    LET a == at[c]
    IN /\ pc[c] = "settle"
       /\ Unlocked(a)
       /\ \/ AlreadySettled(a) /\ KeepSettled(a) /\ Return(c)
          \/ /\ ~AlreadySettled(a) /\ IsDuplicate(a)
             /\ Go(c, "review")
             /\ UNCHANGED <<rows, refund, money>>
          \/ /\ ~AlreadySettled(a) /\ ~IsDuplicate(a)
             /\ CreditAndSucceed(a)
             /\ Return(c)
       /\ UNCHANGED outside

\* Mutant: the error is answered and forgotten.
MutantAfterFailure(c) == End(c)

AfterFailure(c) == Go(c, "review")

\* Stamping or settling throws: three conflicts in a row, a coupon used up
\* meanwhile, a wallet in another currency.  Nothing of it commits.
SettleFails(c) ==
    /\ pc[c] = "settle"
    /\ AfterFailure(c)
    /\ UNCHANGED <<rows, refund, money, outside>>

\* An admin settles an attempt the gateway confirmed before
\* (reconcileVerifiedWalletCredit); the call then records the action.  When
\* settling throws, nothing has happened and the call is over.
ReconcileWalletCredit(c, a) ==
    /\ c \in Desk
    /\ a \in verified
    /\ Unlocked(a)
    /\ \/ /\ AlreadySettled(a)
          /\ KeepSettled(a)
          /\ Start(c, "actionRead", a)
       \/ /\ ~AlreadySettled(a) /\ IsDuplicate(a)
          /\ Start(c, "review", a)
          /\ UNCHANGED <<rows, refund, money>>
       \/ /\ ~AlreadySettled(a) /\ ~IsDuplicate(a)
          /\ CreditAndSucceed(a)
          /\ Start(c, "actionRead", a)
    /\ UNCHANGED outside

(***************************************************************************)
(* Recovery by an admin                                                    *)
(***************************************************************************)

\* Recording the action of a reverify or a reconcile: an attempt that has a
\* case keeps it as it is.
ReadForAction(c) ==
    LET a == at[c]
    IN /\ pc[c] = "actionRead"
       /\ IF recovery[a] # "NONE" THEN End(c)
          ELSE /\ pc' = [pc EXCEPT ![c] = "actionWrite"]
               /\ saw' = [saw EXCEPT ![c] = attempt[a] = "SUCCEEDED"]
               /\ UNCHANGED at
       /\ UNCHANGED <<rows, refund, money, outside>>

ActionCase(c) == IF saw[c] THEN "RESOLVED" ELSE "OPENED_BY_ACTION"

\* The case the attempt was read without; one made meanwhile (the attempt has
\* one at most) rolls this back.
RecordAction(c) ==
    LET a == at[c]
    IN /\ pc[c] = "actionWrite"
       /\ Unlocked(a)
       /\ SetCase(a, IF recovery[a] = "NONE" THEN ActionCase(c) ELSE recovery[a])
       /\ End(c)
       /\ UNCHANGED <<topUp, tries, attempt, linked, verified, refund, money, outside>>

ReadToMarkFailed(c, a) ==
    /\ c \in Desk
    /\ attempt[a] \notin {"ABSENT", "SUCCEEDED"}
    /\ topUp[TopUpOf(a)] # "SUCCEEDED"
    /\ Unlocked(a)
    /\ Start(c, "mark", a)
    /\ UNCHANGED <<rows, refund, money, outside>>

MarkDefinitivelyFailed(c) ==
    LET a == at[c]
    IN /\ pc[c] = "mark"
       /\ SetAttempt(a, "FAILED")
       /\ SetTopUp(TopUpOf(a), "FAILED")
       /\ SetCase(a, "DEFINITIVELY_FAILED")
       /\ End(c)
       /\ UNCHANGED <<tries, linked, verified, refund, money, outside>>

\* Mutant: a top-up is refundable as soon as its payment is known.
MutantRefundable(t) == topUp[t] \in {"PENDING", "SUCCEEDED"}

Refundable(t) == topUp[t] = "SUCCEEDED"

RefundTaken(t) == refund[t] \in {"APPROVED", "COMPLETED"}

\* Mutant: the credit is taken back although it was spent.
MutantUnspent(t) == TRUE

Unspent(t) == balance >= Amount[t]

\* The amount (not the bonus) leaves the wallet before any bank refund.
RequestRefund(t) ==
    /\ Refundable(t)
    /\ ~RefundTaken(t)
    /\ IF Unspent(t)
         THEN /\ balance' = balance - Amount[t]
              /\ ledger' = Append(ledger, Row("TOP_UP_REFUND", t, -Amount[t], balance - Amount[t]))
              /\ journal' = journal \cup {<<t, "refunded">>}
              /\ refund' = [refund EXCEPT ![t] = "APPROVED"]
         ELSE /\ refund' = [refund EXCEPT ![t] = "REVIEW_REQUIRED"]
              /\ UNCHANGED money
    /\ UNCHANGED <<rows, calls, outside>>

CompleteRefund(t) ==
    /\ refund[t] = "APPROVED"
    /\ refund' = [refund EXCEPT ![t] = "COMPLETED"]
    /\ UNCHANGED <<rows, money, calls, outside>>

(***************************************************************************)
(* The rest of the world                                                   *)
(***************************************************************************)

\* Other products take money out of the wallet, never more than it has.
Spend(price) ==
    /\ spends < MaxSpends
    /\ balance >= price
    /\ balance' = balance - price
    /\ ledger' = Append(ledger, Row("OTHER", None, -price, balance - price))
    /\ spends' = spends + 1
    /\ UNCHANGED <<rows, refund, journal, calls, paid>>

\* The process or its database connection is lost: an open transaction rolls
\* back, and what was in flight is never looked at again.
Crash(c) ==
    /\ CanCrash
    /\ pc[c] # "idle"
    /\ End(c)
    /\ UNCHANGED <<rows, refund, money, outside>>

Continue(c) ==
    \/ GatewayRefuses(c) \/ GatewayAccepts(c)
    \/ PersistLink(c) \/ PersistFails(c) \/ PersistForReview(c) \/ GiveUp(c)
    \/ GatewayConfirms(c) \/ Settle(c) \/ SettleFails(c)
    \/ ReadForReview(c) \/ ReadTopUpForReview(c) \/ RecordReview(c)
    \/ ReadForFailure(c) \/ ReadTopUpForFailure(c) \/ RecordFailure(c)
    \/ ReadForAction(c) \/ RecordAction(c)
    \/ MarkDefinitivelyFailed(c)

Next ==
    \/ \E c \in Calls, t \in TopUps : CreateTopUp(c, t) \/ RetryTopUp(c, t)
    \/ \E c \in Calls, a \in Attempts :
          \/ Verify(c, a) \/ Reverify(c, a)
          \/ ReconcileWalletCredit(c, a) \/ ReadToMarkFailed(c, a)
    \/ \E c \in Calls : Continue(c)
    \/ \E t \in TopUps : RequestRefund(t) \/ CompleteRefund(t)
    \/ \E a \in Attempts, amount \in {"short", "full"} : Pay(a, amount)
    \/ \E price \in Prices : Spend(price)
    \/ \E c \in Calls : Crash(c)

Spec == Init /\ [][Next]_vars

\* A handler that was started is run to its end: it waits for the gateway,
\* which times out, and for row locks, which PostgreSQL grants in the order
\* they were asked for, so that no holder after holder shuts it out.
FairSpec == Spec /\ \A c \in Calls : SF_vars(Continue(c))

(***************************************************************************)
(* Properties                                                              *)
(***************************************************************************)

\* Every variable has its type; in particular the wallet never goes below
\* zero, whatever refunds and purchases do to it.
TypeOK ==
    /\ topUp \in [TopUps -> TopUpStatuses]
    /\ tries \in [TopUps -> 0..MaxAttempts]
    /\ attempt \in [Attempts -> AttemptStatuses]
    /\ linked \subseteq Attempts
    /\ verified \subseteq Attempts
    /\ recovery \in [Attempts -> CaseStatuses]
    /\ refund \in [TopUps -> RefundStatuses]
    /\ balance \in Nat
    /\ ledger \in Seq(LedgerRow)
    /\ journal \subseteq TopUps \X {"succeeded", "refunded"}
    /\ paid \in [Attempts -> {"no", "short", "full"}]
    /\ pc \in [Calls -> Phases]
    /\ at \in [Calls -> Attempts \cup {None}]
    /\ \A c \in Calls : pc[c] = "idle" <=> at[c] = None
    /\ saw \in [Calls -> BOOLEAN]
    /\ spends \in 0..MaxSpends

RowsFor(t, type) == {i \in DOMAIN ledger : ledger[i].topUp = t /\ ledger[i].type = type}

\* However many attempts are paid, callbacks delivered, verifications run at
\* the same time and credits reconciled, a top-up credits the wallet once
\* (docs/payment-flow.md, attempt behaviour 6: one TOP_UP row).
CreditedOnce ==
    \A t \in TopUps : \A i, j \in RowsFor(t, "TOP_UP") : i = j

\* A top-up or an attempt that reads SUCCEEDED stands on a credit in the
\* ledger, however its status got there (settleVerifiedAttempt).
SuccessIsCredited ==
    /\ \A t \in TopUps : topUp[t] = "SUCCEEDED" => IsCredited(t)
    /\ \A a \in Attempts : attempt[a] = "SUCCEEDED" => IsCredited(TopUpOf(a))

\* Only money the gateway confirmed in full is credited: a short payment, a
\* canceled one or one never made does not become balance through any
\* sequence of reviews, retries and reconciliations.
CreditIsPaid ==
    \A t \in TopUps :
        IsCredited(t) => \E n \in 1..MaxAttempts : paid[<<t, n>>] = "full"

\* At most one attempt of a top-up is SUCCEEDED, even after the top-up was
\* written back to PENDING; the partial unique index
\* PaymentAttempt_one_success_per_topup never has to stop one.
OneSuccess ==
    \A a, b \in Attempts :
        /\ TopUpOf(a) = TopUpOf(b)
        /\ attempt[a] = "SUCCEEDED"
        /\ attempt[b] = "SUCCEEDED"
        => a = b

\* The recovery queue shows what it should: an attempt in REVIEW has the OPEN
\* case of its review, and none that SUCCEEDED has a case that still says
\* review or says it failed.  The one exception is the code's: a case an
\* admin's reverify or reconcile creates from a stale read (recovery.ts:65-88)
\* may stay open beside a SUCCEEDED attempt.
CaseMatchesAttempt ==
    \A a \in Attempts :
        /\ attempt[a] = "REVIEW" => recovery[a] = "OPEN"
        /\ attempt[a] = "SUCCEEDED" => recovery[a] \in {"NONE", "RESOLVED", "OPENED_BY_ACTION"}

\* The ledger explains the balance row by row, and accounting has posted what
\* the ledger shows of each top-up.
BooksAgree ==
    /\ balance = IF ledger = << >> THEN Opening ELSE ledger[Len(ledger)].after
    /\ \A i \in DOMAIN ledger :
          ledger[i].after =
            ledger[i].delta + IF i = 1 THEN Opening ELSE ledger[i - 1].after
    /\ \A t \in TopUps :
          /\ <<t, "succeeded">> \in journal <=> IsCredited(t)
          /\ <<t, "refunded">> \in journal <=> RowsFor(t, "TOP_UP_REFUND") # {}

\* The wallet's view of top-ups, with everything about attempts hidden.
Phase(t) ==
    CASE refund[t] = "COMPLETED" -> "refunded"
      [] refund[t] = "APPROVED" -> "refunding"
      [] OTHER -> IF IsCredited(t) THEN "credited" ELSE "open"

Contract == INSTANCE TopUpContract WITH
    funds <- balance,
    paid <- {t \in TopUps : \E n \in 1..MaxAttempts : paid[<<t, n>>] = "full"},
    phase <- [t \in TopUps |-> Phase(t)]

\* The top-up machinery implements the contract: paid, credited once, taken
\* back at most once, in that order, and the money with it.
ImplementsContract == Contract!Spec

OpenCases == {"OPEN", "OPENED_BY_ACTION"}

\* A payment the gateway confirmed is not forgotten: the wallet is credited
\* or an admin finds an open case, unless the process dies first.
ConfirmedIsKept ==
    \A a \in Attempts :
        (\E c \in Calls : pc[c] = "settle" /\ at[c] = a)
            ~> (IsCredited(TopUpOf(a)) \/ recovery[a] \in OpenCases)

=============================================================================
