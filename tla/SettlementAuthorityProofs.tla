--------------------- MODULE SettlementAuthorityProofs ---------------------
(***************************************************************************)
(* Theorems about SettlementAuthority for every set of customers, calls,   *)
(* operation ids, usage ids, offered requests and price list.              *)
(***************************************************************************)
EXTENDS SettlementAuthority, TLAPS

(***************************************************************************)
(* Amounts                                                                 *)
(***************************************************************************)

\* costRial is an integer amount, and using fewer tokens never costs more.
LEMMA CostRialMonotone ==
    ASSUME NEW p \in Nat, NEW s \in Nat, NEW t \in Nat, s <= t
    PROVE  CostRial(s, p) \in Nat /\ CostRial(t, p) \in Nat
           /\ CostRial(s, p) <= CostRial(t, p)
<1>1. s * p \in Nat /\ t * p \in Nat /\ s * p <= t * p
  OBVIOUS
<1>2. ASSUME NEW x \in Nat, NEW y \in Nat, x <= y
      PROVE  (x + 999999) \div 1000000 \in Nat
             /\ (x + 999999) \div 1000000 <= (y + 999999) \div 1000000
  BY <1>2
<1>3. QED
  BY <1>1, <1>2 DEF CostRial, TokensPerMillion

\* A charge for usage inside the reserved bounds never exceeds the hold, since
\* both are computed with the price the reservation was made at.
LEMMA ChargeWithinHold ==
    ASSUME NEW price \in Price, NEW used \in Tokens, NEW bounds \in Tokens,
           WithinBounds(used, bounds)
    PROVE  /\ Amount(price, used) \in Nat
           /\ Amount(price, bounds) \in Nat
           /\ Amount(price, used) <= Amount(price, bounds)
<1> USE DEF Price, Tokens, WithinBounds
<1>1. /\ CostRial(used.input, price.input) \in Nat
      /\ CostRial(bounds.input, price.input) \in Nat
      /\ CostRial(used.input, price.input) <= CostRial(bounds.input, price.input)
  BY CostRialMonotone
<1>2. /\ CostRial(used.output, price.output) \in Nat
      /\ CostRial(bounds.output, price.output) \in Nat
      /\ CostRial(used.output, price.output) <= CostRial(bounds.output, price.output)
  BY CostRialMonotone
<1>3. QED
  BY <1>1, <1>2 DEF Amount

\* Any price and token counts give a nonnegative amount.
LEMMA AmountIsNat ==
    ASSUME NEW price \in Price, NEW tokens \in Tokens
    PROVE  Amount(price, tokens) \in Nat
<1>1. WithinBounds(tokens, tokens)
  BY DEF WithinBounds, Tokens
<1>2. QED
  BY <1>1, ChargeWithinHold

(***************************************************************************)
(* Types                                                                   *)
(***************************************************************************)

\* A handler that serves a request serves an offered one.
Serving == \A c \in Calls : pc[c] # "idle" => req[c] \in Offered

TypeInv == TypeOK /\ Serving

\* Posting an entry that leaves a nonnegative balance keeps both types.
LEMMA PostTypes ==
    ASSUME TypeOK, NEW a \in Accounts, NEW delta \in Int, balance[a] + delta >= 0,
           NEW kind \in {"hold", "extra", "release", "other"},
           NEW op \in Ops \cup {None}, NEW usage \in Usages \cup {None},
           Post(a, kind, delta, op, usage)
    PROVE  balance' \in [Accounts -> Nat] /\ ledger' \in [Accounts -> Seq(Entry)]
<1>1. CASE delta = 0
  BY <1>1 DEF Post, money, TypeOK
<1>2. CASE delta # 0
  <2> DEFINE e == [kind |-> kind, delta |-> delta, after |-> balance[a] + delta,
                   op |-> op, usage |-> usage]
  <2>1. balance[a] \in Nat /\ ledger[a] \in Seq(Entry)
    BY DEF TypeOK
  <2>2. e \in Entry
    BY <2>1 DEF Entry
  <2>3. Append(ledger[a], e) \in Seq(Entry)
    BY <2>1, <2>2
  <2>4. balance' = [balance EXCEPT ![a] = @ + delta]
        /\ ledger' = [ledger EXCEPT ![a] = Append(@, e)]
    BY <1>2 DEF Post
  <2>5. balance' \in [Accounts -> Nat]
    BY <2>1, <2>4 DEF TypeOK
  <2>6. ledger' \in [Accounts -> Seq(Entry)]
    BY <2>3, <2>4 DEF TypeOK
  <2>7. QED
    BY <2>5, <2>6
<1>3. QED
  BY <1>1, <1>2

\* The types that an answer moves.
CallTypes ==
    /\ pc \in [Calls -> {"idle", "account", "usage", "fund", "mutate", "reply"}]
    /\ req \in [Calls -> Offered \cup {None}]
    /\ answer \in [Calls -> Answer \cup {None}]
    /\ Serving

OperationTypes ==
    operation \subseteq [op : Ops, body : {Body(r) : r \in Offered}, answer : Answer]

\* A denial and an outcome are answers.
LEMMA AnswerTypes ==
    /\ \A code \in Denials \cup Thrown : Denial(code) \in Answer
    /\ \A res \in Row : OutcomeOf(res) \in Answer
BY DEF Answer, Denial, OutcomeOf, Row, Statuses

\* Answering and recording keep the types of the call and of the operations.
LEMMA AnswerWithTypes ==
    ASSUME TypeInv, NEW c \in Calls, pc[c] # "idle", NEW a \in Answer, AnswerWith(c, a)
    PROVE  CallTypes'
BY DEF TypeInv, TypeOK, Serving, CallTypes, AnswerWith

LEMMA RecordTypes ==
    ASSUME TypeInv, NEW c \in Calls, pc[c] # "idle", NEW a \in Answer, Record(c, a)
    PROVE  CallTypes' /\ OperationTypes'
<1>1. CallTypes'
  BY AnswerWithTypes DEF Record
<1>2. req[c] \in Offered /\ req[c].op \in Ops
  BY ConstantsAssumption DEF TypeInv, Serving, Request
<1>3. OperationTypes'
  BY <1>2 DEF TypeInv, TypeOK, OperationTypes, Record
<1>4. QED
  BY <1>1, <1>3

LEMMA DenyTypes ==
    ASSUME TypeInv, NEW c \in Calls, pc[c] # "idle", NEW code \in Denials, Deny(c, code)
    PROVE  CallTypes' /\ OperationTypes' /\ UNCHANGED <<balance, ledger, reservation>>
<1>1. Denial(code) \in Answer
  BY AnswerTypes
<1>2. QED
  BY <1>1, RecordTypes DEF Deny

LEMMA ThrowTypes ==
    ASSUME TypeInv, NEW c \in Calls, pc[c] # "idle", NEW code \in Thrown, Throw(c, code)
    PROVE  CallTypes' /\ OperationTypes' /\ UNCHANGED <<balance, ledger, reservation>>
<1>1. Denial(code) \in Answer
  BY AnswerTypes
<1>2. QED
  BY <1>1, AnswerWithTypes DEF Throw, OperationTypes, TypeInv, TypeOK

\* The request a handler serves and the rows it reads are typed.
LEMMA RequestTypes ==
    ASSUME TypeInv, NEW c \in Calls, pc[c] # "idle"
    PROVE  /\ req[c] \in Request /\ req[c].usage \in Usages /\ req[c].account \in Accounts
           /\ req[c].scope \in Scopes /\ req[c].op \in Ops /\ req[c].tokens \in Tokens
           /\ reservation[req[c].usage] \in Row
BY ConstantsAssumption DEF TypeInv, TypeOK, Serving, Request

LEMMA InitTypes == Init => TypeInv
<1> SUFFICES ASSUME Init PROVE TypeInv
  OBVIOUS
<1>1. Absent \in Row
  BY ConstantsAssumption DEF Absent, Row, Statuses, Tokens, NoTokens
<1>2. QED
  BY <1>1, ConstantsAssumption DEF Init, TypeInv, TypeOK, Serving

\* The types of everything a mutating call may change.
MovedTypes ==
    /\ CallTypes /\ OperationTypes
    /\ balance \in [Accounts -> Nat]
    /\ ledger \in [Accounts -> Seq(Entry)]
    /\ reservation \in [Usages -> Row]

\* Closing or changing a reservation is recorded with its new outcome.
LEMMA OutcomeTypes ==
    ASSUME TypeInv, NEW c \in Calls, pc[c] # "idle", NEW row \in Row,
           Record(c, OutcomeOf(row)),
           reservation' = [reservation EXCEPT ![req[c].usage] = row]
    PROVE  CallTypes' /\ OperationTypes' /\ reservation' \in [Usages -> Row]
<1>1. OutcomeOf(row) \in Answer
  BY AnswerTypes
<1>2. QED
  BY <1>1, RecordTypes DEF TypeInv, TypeOK

LEMMA AcknowledgeTypes ==
    ASSUME TypeInv, NEW c \in Calls, pc[c] # "idle", Acknowledge(c)
    PROVE  CallTypes' /\ OperationTypes' /\ UNCHANGED <<balance, ledger, reservation>>
<1>1. OutcomeOf(reservation[req[c].usage]) \in Answer
  BY AnswerTypes, RequestTypes
<1>2. QED
  BY <1>1, RecordTypes DEF Acknowledge

LEMMA FundTypes ==
    ASSUME TypeInv, NEW c \in Calls, Fund(c)
    PROVE  TypeInv'
<1> DEFINE r == req[c]
           hold == Amount(PriceList[revision], r.tokens)
           row == [status |-> "RESERVED", account |-> r.account, scope |-> r.scope,
                   hold |-> hold, remaining |-> hold, settled |-> 0,
                   revision |-> revision, bounds |-> r.tokens]
<1>1. pc[c] # "idle"
  BY DEF Fund
<1>2. r.account \in Accounts /\ r.usage \in Usages /\ r.op \in Ops /\ r.tokens \in Tokens
      /\ r.scope \in Scopes
  BY <1>1, RequestTypes
<1>3. hold \in Nat
  <2>1. PriceList[revision] \in Price
    BY ConstantsAssumption DEF TypeInv, TypeOK
  <2>2. QED
    BY <1>2, <2>1, AmountIsNat
<1>4. row \in Row
  BY <1>2, <1>3 DEF Row, Statuses, TypeInv, TypeOK
<1>5. CASE Deny(c, "wallet_frozen") \/ Deny(c, "insufficient_funds")
  BY <1>1, <1>5, DenyTypes
     DEF Fund, TypeInv, TypeOK, CallTypes, OperationTypes, Denials
<1>6. CASE Throw(c, "stale_pricing") \/ Throw(c, "rolled_back")
  BY <1>1, <1>6, ThrowTypes
     DEF Fund, TypeInv, TypeOK, CallTypes, OperationTypes, Thrown
<1>7. CASE /\ Affords(r.account, hold)
           /\ reservation' = [reservation EXCEPT ![r.usage] = row]
           /\ DebitHold(r.account, "hold", hold, r.op, r.usage)
           /\ Record(c, OutcomeOf(row))
  <2>1. CallTypes' /\ OperationTypes' /\ reservation' \in [Usages -> Row]
    BY <1>1, <1>4, <1>7, OutcomeTypes
  <2>2. balance[r.account] + (-hold) >= 0 /\ -hold \in Int
    BY <1>2, <1>3, <1>7 DEF Affords, TypeInv, TypeOK
  <2>3. balance' \in [Accounts -> Nat] /\ ledger' \in [Accounts -> Seq(Entry)]
    BY <1>2, <1>7, <2>2, PostTypes DEF DebitHold, TypeInv
  <2>4. UNCHANGED <<revision, accountStatus, walletStatus>>
    BY DEF Fund
  <2>5. QED
    BY <2>1, <2>3, <2>4 DEF TypeInv, TypeOK, CallTypes, OperationTypes
<1>8. QED
  BY <1>5, <1>6, <1>7 DEF Fund

\* Nothing but the call and the operation row changes when money does not move.
LEMMA StillTypes ==
    ASSUME TypeInv, CallTypes', OperationTypes', UNCHANGED <<balance, ledger, reservation>>
    PROVE  MovedTypes'
BY DEF TypeInv, TypeOK, MovedTypes

LEMMA RefuseChargeTypes ==
    ASSUME TypeInv, NEW c \in Calls, pc[c] = "mutate", RefuseCharge(c)
    PROVE  MovedTypes'
<1>1. \A code \in {"not_found", "scope_mismatch", "state_conflict"} :
         Deny(c, code) => MovedTypes'
  BY DenyTypes, StillTypes DEF Denials
<1>2. Throw(c, "stale_pricing") => MovedTypes'
  BY ThrowTypes, StillTypes DEF Thrown
<1>3. QED
  BY <1>1, <1>2 DEF RefuseCharge, DenyScope

\* Closing changes three fields and keeps the row's type.
LEMMA CloseRowFields ==
    ASSUME NEW res \in Row, NEW n \in Nat, NEW status \in Closed
    PROVE  /\ CloseRow(res, n, status) \in Row
           /\ CloseRow(res, n, status).status = status
           /\ CloseRow(res, n, status).remaining = 0
           /\ CloseRow(res, n, status).settled = res.settled + n
           /\ CloseRow(res, n, status).hold = res.hold
           /\ CloseRow(res, n, status).revision = res.revision
           /\ CloseRow(res, n, status).bounds = res.bounds
           /\ CloseRow(res, n, status).account = res.account
<1> DEFINE emptied == [res EXCEPT !.remaining = 0]
           charged == [emptied EXCEPT !.settled = @ + n]
           closed == [charged EXCEPT !.status = status]
<1>1. /\ emptied \in Row /\ emptied.remaining = 0 /\ emptied.settled = res.settled
      /\ emptied.hold = res.hold /\ emptied.revision = res.revision
      /\ emptied.bounds = res.bounds /\ emptied.account = res.account
  BY DEF Row
<1>2. /\ charged \in Row /\ charged.remaining = 0 /\ charged.settled = res.settled + n
      /\ charged.hold = res.hold /\ charged.revision = res.revision
      /\ charged.bounds = res.bounds /\ charged.account = res.account
  <2> HIDE DEF emptied
  <2>1. QED
    BY <1>1 DEF Row
<1>3. status \in Statuses
  BY DEF Closed, Charged, Statuses
<1>4. /\ closed \in Row /\ closed.status = status
      /\ closed.remaining = 0 /\ closed.settled = res.settled + n
      /\ closed.hold = res.hold /\ closed.revision = res.revision
      /\ closed.bounds = res.bounds /\ closed.account = res.account
  <2> HIDE DEF charged
  <2>1. QED
    BY <1>2, <1>3 DEF Row
<1>5. CloseRow(res, n, status) = closed
  BY DEF CloseRow
<1>6. QED
  BY <1>4, <1>5

LEMMA ApplyBillableTypes ==
    ASSUME TypeInv, NEW c \in Calls, pc[c] = "mutate", NEW billable \in Nat,
           NEW status \in Charged, ApplyBillable(c, billable, status)
    PROVE  MovedTypes'
<1> DEFINE r == req[c]
           res == reservation[r.usage]
           done == CloseRow(res, billable, status)
<1>1. /\ res \in Row /\ res.account \in Accounts /\ res.remaining \in Nat
      /\ r.usage \in Usages /\ r.op \in Ops
  BY RequestTypes DEF Row
<1>2. done \in Row
  BY <1>1, CloseRowFields DEF Closed
<1>3. balance[res.account] \in Nat
  BY <1>1 DEF TypeInv, TypeOK
<1>4. CASE Deny(c, "insufficient_funds")
  BY <1>4, DenyTypes, StillTypes DEF Denials
<1>5. CASE /\ billable > res.remaining
           /\ CanDebit(res.account, billable - res.remaining)
           /\ DebitHold(res.account, "extra", billable - res.remaining, r.op, r.usage)
           /\ reservation' = [reservation EXCEPT ![r.usage] = done]
           /\ Record(c, OutcomeOf(done))
  <2>1. CallTypes' /\ OperationTypes' /\ reservation' \in [Usages -> Row]
    BY <1>2, <1>5, OutcomeTypes
  <2>2. balance[res.account] + (-(billable - res.remaining)) >= 0
        /\ -(billable - res.remaining) \in Int
    BY <1>1, <1>3, <1>5 DEF CanDebit, Affords
  <2>3. balance' \in [Accounts -> Nat] /\ ledger' \in [Accounts -> Seq(Entry)]
    BY <1>1, <1>5, <2>2, PostTypes DEF DebitHold, TypeInv
  <2>4. QED
    BY <2>1, <2>3 DEF MovedTypes
<1>6. CASE /\ ~(billable > res.remaining)
           /\ CreditRelease(res.account, res.remaining - billable, r.op, r.usage)
           /\ reservation' = [reservation EXCEPT ![r.usage] = done]
           /\ Record(c, OutcomeOf(done))
  <2>1. CallTypes' /\ OperationTypes' /\ reservation' \in [Usages -> Row]
    BY <1>2, <1>6, OutcomeTypes
  <2>2. balance[res.account] + (res.remaining - billable) >= 0
        /\ res.remaining - billable \in Int
    BY <1>1, <1>3, <1>6
  <2>3. balance' \in [Accounts -> Nat] /\ ledger' \in [Accounts -> Seq(Entry)]
    BY <1>1, <1>6, <2>2, PostTypes DEF CreditRelease, TypeInv
  <2>4. QED
    BY <2>1, <2>3 DEF MovedTypes
<1>7. QED
  BY <1>4, <1>5, <1>6 DEF ApplyBillable

LEMMA BillableIsNat ==
    ASSUME TypeInv, NEW c \in Calls, pc[c] # "idle"
    PROVE  Billable(req[c]) \in Nat
<1>1. req[c].tokens \in Tokens /\ reservation[req[c].usage].revision \in 1..Len(PriceList)
  BY RequestTypes DEF Row
<1>2. PriceList[reservation[req[c].usage].revision] \in Price
  BY <1>1, ConstantsAssumption
<1>3. QED
  BY <1>1, <1>2, AmountIsNat DEF Billable

LEMMA ChargeTypes ==
    ASSUME TypeInv, NEW c \in Calls, pc[c] = "mutate", NEW status \in Charged,
           Charge(c, status)
    PROVE  MovedTypes'
<1>1. CASE Throw(c, "usage_unknown")
  BY <1>1, ThrowTypes, StillTypes DEF Thrown
<1>2. CASE Deny(c, "state_conflict")
  BY <1>2, DenyTypes, StillTypes DEF Denials
<1>3. CASE Acknowledge(c)
  BY <1>3, AcknowledgeTypes, StillTypes
<1>4. CASE ApplyBillable(c, Billable(req[c]), status)
  BY <1>4, ApplyBillableTypes, BillableIsNat
<1>5. QED
  BY <1>1, <1>2, <1>3, <1>4 DEF Charge

LEMMA MarkUncertainTypes ==
    ASSUME TypeInv, NEW c \in Calls, pc[c] = "mutate", MarkUncertain(c)
    PROVE  MovedTypes'
<1> DEFINE kept == [reservation[req[c].usage] EXCEPT !.status = "UNCERTAIN"]
<1>1. kept \in Row
  BY RequestTypes DEF Row, Statuses
<1>2. CASE Deny(c, "state_conflict")
  BY <1>2, DenyTypes, StillTypes DEF Denials
<1>3. CASE /\ reservation' = [reservation EXCEPT ![req[c].usage] = kept]
           /\ Record(c, OutcomeOf(kept))
           /\ UNCHANGED money
  BY <1>1, <1>3, OutcomeTypes DEF MovedTypes, TypeInv, TypeOK, money
<1>4. QED
  BY <1>2, <1>3 DEF MarkUncertain

LEMMA ReleaseTypes ==
    ASSUME TypeInv, NEW c \in Calls, Release(c)
    PROVE  MovedTypes'
<1> DEFINE r == req[c]
           res == reservation[r.usage]
           done == CloseRow(res, 0, "RELEASED")
<1>1. pc[c] # "idle"
  BY DEF Release
<1>2. /\ res \in Row /\ res.account \in Accounts /\ res.remaining \in Nat
      /\ r.usage \in Usages /\ r.op \in Ops
  BY <1>1, RequestTypes DEF Row
<1>3. done \in Row
  BY <1>2, CloseRowFields DEF Closed
<1>4. \A code \in {"not_found", "scope_mismatch", "state_conflict"} :
         Deny(c, code) => MovedTypes'
  BY <1>1, DenyTypes, StillTypes DEF Denials
<1>5. CASE Acknowledge(c)
  BY <1>1, <1>5, AcknowledgeTypes, StillTypes
<1>6. CASE /\ CreditRelease(res.account, res.remaining, r.op, r.usage)
           /\ reservation' = [reservation EXCEPT ![r.usage] = done]
           /\ Record(c, OutcomeOf(done))
  <2>1. CallTypes' /\ OperationTypes' /\ reservation' \in [Usages -> Row]
    BY <1>1, <1>3, <1>6, OutcomeTypes
  <2>2. balance[res.account] + res.remaining >= 0
    BY <1>2 DEF TypeInv, TypeOK
  <2>3. balance' \in [Accounts -> Nat] /\ ledger' \in [Accounts -> Seq(Entry)]
    BY <1>2, <1>6, <2>2, PostTypes DEF CreditRelease, TypeInv
  <2>4. QED
    BY <2>1, <2>3 DEF MovedTypes
<1>7. QED
  BY <1>4, <1>5, <1>6 DEF Release, DenyScope

\* The steps of a call keep every type.
LEMMA CallStepTypes ==
    ASSUME TypeInv, NEW c \in Calls, CallStep(c)
    PROVE  TypeInv'
<1> USE DEF TypeInv
<1>1. ASSUME MovedTypes', UNCHANGED <<revision, accountStatus, walletStatus>>
      PROVE  TypeInv'
  BY <1>1 DEF MovedTypes, CallTypes, OperationTypes, TypeOK
<1>2. CASE CheckAccount(c)
  <2>1. CASE Deny(c, "account_inactive")
    BY <1>1, <1>2, <2>1, DenyTypes, StillTypes DEF CheckAccount, Denials
  <2>2. CASE /\ pc' = [pc EXCEPT ![c] = "usage"]
             /\ UNCHANGED <<balance, ledger, reservation, operation, req, answer>>
    BY <1>2, <2>2 DEF CheckAccount, TypeOK, Serving
  <2>3. QED
    BY <1>2, <2>1, <2>2 DEF CheckAccount
<1>3. CASE CheckUsage(c)
  <2>1. CASE Deny(c, "idempotency_conflict")
    BY <1>1, <1>3, <2>1, DenyTypes, StillTypes DEF CheckUsage, Denials
  <2>2. CASE /\ pc' = [pc EXCEPT ![c] = "fund"]
             /\ UNCHANGED <<balance, ledger, reservation, operation, req, answer>>
    BY <1>3, <2>2 DEF CheckUsage, TypeOK, Serving
  <2>3. QED
    BY <1>3, <2>1, <2>2 DEF CheckUsage
<1>4. CASE Fund(c)
  BY <1>4, FundTypes
<1>5. CASE Settle(c)
  BY <1>1, <1>5, RefuseChargeTypes, MarkUncertainTypes, ChargeTypes DEF Settle, Charged
<1>6. CASE Reconcile(c)
  BY <1>1, <1>6, RefuseChargeTypes, ChargeTypes DEF Reconcile, Charged
<1>7. CASE Release(c)
  BY <1>1, <1>7, ReleaseTypes DEF Release
<1>8. CASE RollBack(c)
  BY <1>1, <1>8, ThrowTypes, StillTypes DEF RollBack, InTransaction, Thrown
<1>9. CASE Reply(c)
  BY <1>9 DEF Reply, TypeOK, Serving
<1>10. QED
  BY <1>2, <1>3, <1>4, <1>5, <1>6, <1>7, <1>8, <1>9 DEF CallStep

LEMMA ReceiveTypes ==
    ASSUME TypeInv, NEW c \in Calls, NEW r \in Offered, Receive(c, r)
    PROVE  TypeInv'
<1>1. CASE RowsOf(r.op) = {}
  BY <1>1 DEF Receive, TypeInv, TypeOK, Serving
<1>2. CASE RowsOf(r.op) # {}
  <2>1. PICK row \in RowsOf(r.op) :
           /\ pc' = [pc EXCEPT ![c] = "reply"]
           /\ answer' = [answer EXCEPT ![c] = Replay(row, r)]
    BY <1>2 DEF Receive
  <2>2. row.answer \in Answer
    BY DEF RowsOf, TypeInv, TypeOK
  <2>3. Replay(row, r) \in Answer
    BY <2>2, AnswerTypes DEF Replay, Thrown
  <2>4. QED
    BY <2>1, <2>3 DEF Receive, TypeInv, TypeOK, Serving
<1>3. QED
  BY <1>1, <1>2

LEMMA EnvironmentTypes ==
    ASSUME TypeInv, Environment
    PROVE  TypeInv'
<1>1. CASE PublishPrice
  BY <1>1 DEF PublishPrice, TypeInv, TypeOK, Serving
<1>2. ASSUME NEW a \in Accounts, NEW b \in BOOLEAN, SetUserBlock(a, b)
      PROVE  TypeInv'
  BY <1>2 DEF SetUserBlock, TypeInv, TypeOK, Serving
<1>3. ASSUME NEW a \in Accounts, NEW delta \in Int, OtherProduct(a, delta)
      PROVE  TypeInv'
  BY <1>3, PostTypes DEF OtherProduct, TypeInv, TypeOK, Serving
<1>4. QED
  BY <1>1, <1>2, <1>3, ConstantsAssumption DEF Environment

LEMMA NextTypes == TypeInv /\ [Next]_vars => TypeInv'
<1> SUFFICES ASSUME TypeInv, [Next]_vars PROVE TypeInv'
  OBVIOUS
<1>1. CASE UNCHANGED vars
  BY <1>1 DEF vars, TypeInv, TypeOK, Serving
<1>2. CASE Next
  BY <1>2, ReceiveTypes, CallStepTypes, EnvironmentTypes DEF Next
<1>3. QED
  BY <1>1, <1>2

\* Every variable keeps its type, and in particular no wallet balance is ever
\* negative, although the authority, the shop and retries spend concurrently.
THEOREM TypeCorrect == Spec => []TypeOK
<1>1. Spec => []TypeInv
  BY InitTypes, NextTypes, PTL DEF Spec
<1>2. TypeInv => TypeOK
  BY DEF TypeInv
<1>3. QED
  BY <1>1, <1>2, PTL

(***************************************************************************)
(* Answers                                                                 *)
(***************************************************************************)

\* A call that is about to answer, and what it answers with.
AnswerIsRecorded(c) ==
    pc[c] = "reply" /\ answer[c].code \notin Thrown =>
        \E row \in RowsOf(req[c].op) : row.body = Body(req[c]) /\ row.answer = answer[c]

\* Every step is one call's or none's, keeps the recorded operations, and leaves
\* its call either not answering, or answering an error or a recorded outcome.
OneCallAnswers ==
    /\ operation \subseteq operation'
    /\ \/ UNCHANGED <<pc, req, answer>>
       \/ \E c \in Calls :
            /\ \A d \in Calls \ {c} :
                 pc'[d] = pc[d] /\ req'[d] = req[d] /\ answer'[d] = answer[d]
            /\ AnswerIsRecorded(c)'

LEMMA RecordAnswers ==
    ASSUME TypeInv, NEW c \in Calls, NEW a, Record(c, a)
    PROVE  OneCallAnswers
<1> DEFINE row == [op |-> req[c].op, body |-> Body(req[c]), answer |-> a]
<1>1. /\ pc' = [pc EXCEPT ![c] = "reply"] /\ answer' = [answer EXCEPT ![c] = a] /\ req' = req
      /\ operation' = operation \cup {row}
  BY DEF Record, AnswerWith
<1>2. answer'[c] = a /\ req'[c] = req[c]
  BY <1>1 DEF TypeInv, TypeOK
<1>3. row \in operation' /\ row.op = req[c].op /\ row.body = Body(req[c]) /\ row.answer = a
  BY <1>1
<1>4. Body(req[c])' = Body(req[c])
  BY <1>2 DEF Body, NoTokens
<1>5. AnswerIsRecorded(c)'
  BY <1>2, <1>3, <1>4 DEF AnswerIsRecorded, RowsOf
<1> QED BY <1>1, <1>5 DEF OneCallAnswers, TypeInv, TypeOK

LEMMA DenyAnswers ==
    ASSUME TypeInv, NEW c \in Calls, NEW code, Deny(c, code)
    PROVE  OneCallAnswers
BY RecordAnswers DEF Deny

LEMMA ThrowAnswers ==
    ASSUME TypeInv, NEW c \in Calls, NEW code \in Thrown, Throw(c, code)
    PROVE  OneCallAnswers
<1>1. /\ pc' = [pc EXCEPT ![c] = "reply"] /\ answer' = [answer EXCEPT ![c] = Denial(code)]
      /\ req' = req /\ operation' = operation
  BY DEF Throw, AnswerWith
<1>2. answer'[c].code = code
  BY <1>1 DEF TypeInv, TypeOK, Denial
<1>3. AnswerIsRecorded(c)'
  BY <1>2 DEF AnswerIsRecorded
<1> QED BY <1>1, <1>3 DEF OneCallAnswers, TypeInv, TypeOK

\* A step that only moves the program counter of a call answers nothing.
LEMMA MovingAnswers ==
    ASSUME TypeInv, NEW c \in Calls, NEW p, p # "reply", pc' = [pc EXCEPT ![c] = p],
           UNCHANGED <<operation, req, answer>>
    PROVE  OneCallAnswers
BY DEF OneCallAnswers, AnswerIsRecorded, TypeInv, TypeOK

LEMMA ChargeAnswers ==
    ASSUME TypeInv, NEW c \in Calls, NEW status, Charge(c, status)
    PROVE  OneCallAnswers
BY RecordAnswers, DenyAnswers, ThrowAnswers DEF Charge, ApplyBillable, Acknowledge, Thrown

LEMMA CallStepAnswers ==
    ASSUME TypeInv, NEW c \in Calls, CallStep(c)
    PROVE  OneCallAnswers
<1>1. CASE CheckAccount(c) \/ CheckUsage(c)
  BY <1>1, DenyAnswers, MovingAnswers DEF CheckAccount, CheckUsage
<1>2. CASE Fund(c)
  BY <1>2, RecordAnswers, DenyAnswers, ThrowAnswers DEF Fund, Thrown
<1>3. CASE RefuseCharge(c)
  BY <1>3, DenyAnswers, ThrowAnswers DEF RefuseCharge, DenyScope, Thrown
<1>4. CASE MarkUncertain(c)
  BY <1>4, RecordAnswers, DenyAnswers DEF MarkUncertain
<1>5. CASE Release(c)
  BY <1>5, RecordAnswers, DenyAnswers DEF Release, DenyScope, Acknowledge
<1>6. CASE RollBack(c)
  BY <1>6, ThrowAnswers DEF RollBack, Thrown
<1>7. CASE Reply(c)
  <2>1. pc'[c] = "idle"
    BY <1>7 DEF Reply, TypeInv, TypeOK
  <2> QED BY <1>7, <2>1 DEF Reply, OneCallAnswers, AnswerIsRecorded, TypeInv, TypeOK
<1> QED BY <1>1, <1>2, <1>3, <1>4, <1>5, <1>6, <1>7, ChargeAnswers
        DEF CallStep, Settle, Reconcile

LEMMA ReceiveAnswers ==
    ASSUME TypeInv, NEW c \in Calls, NEW r \in Offered, Receive(c, r)
    PROVE  OneCallAnswers
<1>1. /\ operation' = operation /\ req'[c] = r
      /\ \A d \in Calls \ {c} : pc'[d] = pc[d] /\ req'[d] = req[d] /\ answer'[d] = answer[d]
  BY DEF Receive, TypeInv, TypeOK
<1>2. AnswerIsRecorded(c)'
  <2>1. CASE RowsOf(r.op) = {}
    <3>1. pc'[c] # "reply"
      BY <2>1 DEF Receive, TypeInv, TypeOK
    <3> QED BY <3>1 DEF AnswerIsRecorded
  <2>2. CASE RowsOf(r.op) # {}
    <3>1. PICK row \in RowsOf(r.op) : answer'[c] = Replay(row, r)
      BY <2>2 DEF Receive, TypeInv, TypeOK
    <3>2. CASE row.body # Body(r)
      BY <3>1, <3>2 DEF Replay, Denial, AnswerIsRecorded, Thrown
    <3>3. CASE row.body = Body(r)
      <4>1. row \in RowsOf(r.op)' /\ Body(req[c])' = Body(r)
        BY <1>1 DEF RowsOf, Body, NoTokens
      <4> QED BY <1>1, <3>1, <3>3, <4>1 DEF Replay, AnswerIsRecorded
    <3> QED BY <3>2, <3>3
  <2> QED BY <2>1, <2>2
<1> QED BY <1>1, <1>2 DEF OneCallAnswers

LEMMA AnswersStep ==
    ASSUME TypeInv, AnswersAreRecorded, [Next]_vars
    PROVE  AnswersAreRecorded'
<1>1. OneCallAnswers
  <2>1. CASE UNCHANGED vars
    BY <2>1 DEF vars, OneCallAnswers
  <2>2. CASE Environment
    BY <2>2 DEF Environment, PublishPrice, SetUserBlock, OtherProduct, OneCallAnswers
  <2> QED BY <2>1, <2>2, ReceiveAnswers, CallStepAnswers DEF Next
<1>2. ASSUME NEW d \in Calls, pc'[d] = pc[d], req'[d] = req[d], answer'[d] = answer[d]
      PROVE  AnswerIsRecorded(d)'
  <2> SUFFICES ASSUME pc[d] = "reply", answer[d].code \notin Thrown
               PROVE  \E row \in RowsOf(req[d].op)' :
                        row.body = Body(req[d])' /\ row.answer = answer'[d]
    BY <1>2 DEF AnswerIsRecorded
  <2>1. PICK row \in RowsOf(req[d].op) : row.body = Body(req[d]) /\ row.answer = answer[d]
    BY DEF AnswersAreRecorded
  <2>2. row \in RowsOf(req[d].op)' /\ Body(req[d])' = Body(req[d])
    BY <1>1, <1>2 DEF OneCallAnswers, RowsOf, Body, NoTokens
  <2> QED BY <1>2, <2>1, <2>2
<1>3. \A d \in Calls : AnswerIsRecorded(d)'
  BY <1>1, <1>2 DEF OneCallAnswers
<1> QED BY <1>3 DEF AnswersAreRecorded, AnswerIsRecorded

\* What a caller hears, unless it is an error that kept nothing, is the outcome
\* on record under its operation_id for the body it sent: however many retries
\* of an operation race, and whichever transaction rolls back, they hear the same.
THEOREM RetriesHearTheRecord == Spec => []AnswersAreRecorded
<1>1. Init => TypeInv /\ AnswersAreRecorded
  BY InitTypes DEF Init, AnswersAreRecorded
<1> QED BY <1>1, NextTypes, AnswersStep, PTL DEF Spec

(***************************************************************************)
(* The ledger                                                              *)
(***************************************************************************)

\* Money moves by a posted entry or not at all.
Posted ==
    \/ UNCHANGED money
    \/ \E a \in Accounts, delta \in Int : \E kind, op, usage : Post(a, kind, delta, op, usage)

LEMMA AnsweringPostsNothing ==
    ASSUME NEW c, NEW code, Deny(c, code) \/ Throw(c, code) \/ Acknowledge(c)
    PROVE  Posted
BY DEF Deny, Throw, Acknowledge, Posted, money

LEMMA ChargePosts ==
    ASSUME TypeInv, NEW c \in Calls, pc[c] = "mutate", NEW status, Charge(c, status)
    PROVE  Posted
<1> DEFINE res == reservation[req[c].usage]
           n == Billable(req[c])
<1>1. res.account \in Accounts /\ res.remaining \in Nat /\ n \in Nat
  BY RequestTypes, BillableIsNat DEF Row
<1>2. -(n - res.remaining) \in Int /\ res.remaining - n \in Int
  BY <1>1
<1>3. CASE ApplyBillable(c, n, status)
  BY <1>1, <1>2, <1>3, AnsweringPostsNothing DEF ApplyBillable, DebitHold, CreditRelease, Posted
<1> QED BY <1>3, AnsweringPostsNothing DEF Charge

LEMMA CallStepPosts ==
    ASSUME TypeInv, NEW c \in Calls, CallStep(c)
    PROVE  Posted
<1> DEFINE r == req[c]
           hold == Amount(PriceList[revision], r.tokens)
           res == reservation[r.usage]
<1>1. ASSUME pc[c] # "idle"
      PROVE  /\ r.account \in Accounts /\ r.tokens \in Tokens
             /\ res.account \in Accounts /\ res.remaining \in Nat
  BY <1>1, RequestTypes DEF Row
<1>2. CASE Fund(c)
  <2>1. PriceList[revision] \in Price
    BY ConstantsAssumption DEF TypeInv, TypeOK
  <2>2. -hold \in Int /\ r.account \in Accounts
    BY <1>1, <1>2, <2>1, AmountIsNat DEF Fund
  <2> QED BY <1>2, <2>2, AnsweringPostsNothing DEF Fund, DebitHold, Posted
<1>3. CASE Release(c)
  BY <1>1, <1>3, AnsweringPostsNothing DEF Release, DenyScope, CreditRelease, Posted
<1>4. CASE Settle(c) \/ Reconcile(c)
  <2>1. RefuseCharge(c) \/ MarkUncertain(c) => Posted
    BY AnsweringPostsNothing DEF RefuseCharge, DenyScope, MarkUncertain, Posted
  <2> QED BY <1>4, <2>1, ChargePosts DEF Settle, Reconcile
<1>5. CASE CheckAccount(c) \/ CheckUsage(c) \/ RollBack(c) \/ Reply(c)
  BY <1>5, AnsweringPostsNothing DEF CheckAccount, CheckUsage, RollBack, Reply, Posted, money
<1> QED BY <1>2, <1>3, <1>4, <1>5 DEF CallStep

LEMMA NextPosts ==
    ASSUME TypeInv, [Next]_vars
    PROVE  Posted
<1>1. CASE Environment
  <2>1. ASSUME NEW a \in Accounts, NEW n \in OtherAmounts, OtherProduct(a, n) \/ OtherProduct(a, -n)
        PROVE  Posted
    <3>1. n \in Int /\ -n \in Int
      BY ConstantsAssumption
    <3> QED BY <2>1, <3>1 DEF OtherProduct, Posted
  <2> QED BY <1>1, <2>1 DEF Environment, PublishPrice, SetUserBlock, Posted, money
<1>2. ASSUME NEW c \in Calls, NEW r \in Offered, Receive(c, r)
      PROVE  Posted
  BY <1>2 DEF Receive, Posted, money
<1>3. CASE UNCHANGED vars
  BY <1>3 DEF vars, Posted, money
<1> QED BY <1>1, <1>2, <1>3, CallStepPosts DEF Next

LEMMA Appended ==
    ASSUME NEW S, NEW old \in Seq(S), NEW e, NEW new, new = Append(old, e)
    PROVE  /\ Len(old) \in Nat /\ Len(new) = Len(old) + 1 /\ new[Len(old) + 1] = e
           /\ DOMAIN new = 1..(Len(old) + 1) /\ DOMAIN old = 1..Len(old)
           /\ \A i \in 1..Len(old) : new[i] = old[i]
           /\ new # << >>
           /\ old = << >> <=> Len(old) = 0
<1>1. Len(old) \in Nat /\ DOMAIN old = 1..Len(old) /\ (old = << >> <=> Len(old) = 0)
  OBVIOUS
<1>2. Len(new) = Len(old) + 1 /\ DOMAIN new = 1..(Len(old) + 1)
  OBVIOUS
<1>3. new[Len(old) + 1] = e /\ \A i \in 1..Len(old) : new[i] = old[i]
  BY <1>1
<1>4. new # << >>
  BY <1>1, <1>2
<1> QED BY <1>1, <1>2, <1>3, <1>4

\* An entry with the balance it leaves continues the chain of its wallet.
LEMMA PostChains ==
    ASSUME TypeOK, LedgerChain, Posted
    PROVE  LedgerChain'
<1>1. CASE UNCHANGED money
  BY <1>1 DEF money, LedgerChain
<1>2. ASSUME NEW b \in Accounts, NEW delta \in Int, delta # 0, NEW kind, NEW op, NEW usage,
             Post(b, kind, delta, op, usage)
      PROVE  LedgerChain'
  <2> DEFINE e == [kind |-> kind, delta |-> delta, after |-> balance[b] + delta,
                   op |-> op, usage |-> usage]
  <2>1. /\ balance'[b] = balance[b] + delta
        /\ ledger'[b] = Append(ledger[b], e)
        /\ \A a \in Accounts \ {b} : balance'[a] = balance[a] /\ ledger'[a] = ledger[a]
        /\ ledger[b] \in Seq(Entry)
    BY <1>2 DEF Post, TypeOK
  <2> DEFINE old == ledger[b]
             new == ledger'[b]
             n == Len(old)
  <2>2. /\ n \in Nat /\ Len(new) = n + 1 /\ new[n + 1] = e
        /\ DOMAIN new = 1..(n + 1) /\ DOMAIN old = 1..n
        /\ \A i \in 1..n : new[i] = old[i]
        /\ new # << >>
        /\ old = << >> <=> n = 0
    <3> HIDE DEF e
    <3> QED BY <2>1, Appended
  <2>3. e.after = balance[b] + delta /\ e.delta = delta
    OBVIOUS
  <2>4. ASSUME NEW i \in DOMAIN new
        PROVE  new[i].after = (IF i = 1 THEN Opening ELSE new[i - 1].after) + new[i].delta
    <3>1. CASE i \in 1..n
      <4>1. old[i].after = (IF i = 1 THEN Opening ELSE old[i - 1].after) + old[i].delta
        BY <2>2, <3>1 DEF LedgerChain
      <4>2. i # 1 => i - 1 \in 1..n
        BY <2>2, <3>1
      <4> QED BY <2>2, <3>1, <4>1, <4>2
    <3>2. CASE i = n + 1
      <4>1. balance[b] = IF n = 0 THEN Opening ELSE old[n].after
        BY <2>2 DEF LedgerChain
      <4>2. n # 0 => new[n] = old[n]
        BY <2>2
      <4> QED BY <2>2, <2>3, <3>2, <4>1, <4>2
    <3> QED BY <2>2, <2>4, <3>1, <3>2
  <2>5. balance'[b] = IF new = << >> THEN Opening ELSE new[Len(new)].after
    BY <2>1, <2>2, <2>3
  <2> HIDE DEF e, old, new, n
  <2>6. ASSUME NEW a \in Accounts \ {b}
        PROVE  /\ \A i \in DOMAIN ledger'[a] :
                    ledger'[a][i].after =
                      (IF i = 1 THEN Opening ELSE ledger'[a][i - 1].after) + ledger'[a][i].delta
               /\ balance'[a] =
                    IF ledger'[a] = << >> THEN Opening ELSE ledger'[a][Len(ledger'[a])].after
    BY <2>1 DEF LedgerChain
  <2> QED BY <2>4, <2>5, <2>6 DEF LedgerChain, new
<1> QED BY <1>1, <1>2 DEF Posted, Post

\* Every wallet's ledger explains its balance entry by entry, although holds,
\* charges, releases and the rest of the shop write to it concurrently: an entry
\* says the balance it leaves, which is the next one's start.
THEOREM LedgerExplainsBalance == Spec => []LedgerChain
<1>1. Init => TypeInv /\ LedgerChain
  BY InitTypes DEF Init, LedgerChain
<1>2. TypeInv /\ LedgerChain /\ [Next]_vars => LedgerChain'
  BY NextPosts, PostChains DEF TypeInv
<1> QED BY <1>1, <1>2, NextTypes, PTL DEF Spec

(***************************************************************************)
(* The reservation books and the refinement of HoldContract                *)
(*                                                                         *)
(* Every step of the authority is one of six effects on wallets and        *)
(* reservations.  The books are preserved by each effect, each effect is a *)
(* step of the contract or a stutter, and no effect touches a closed       *)
(* reservation.                                                            *)
(***************************************************************************)

HoldOf(res) == Amount(PriceList[res.revision], res.bounds)

Untouched == UNCHANGED <<balance, reservation>>

Opened(u, row) ==
    /\ reservation[u].status = "ABSENT"
    /\ row \in Row /\ row.status = "RESERVED"
    /\ row.hold = HoldOf(row) /\ row.remaining = row.hold /\ row.settled = 0
    /\ walletStatus[row.account] = "ACTIVE"
    /\ balance[row.account] >= row.hold
    /\ balance' = [balance EXCEPT ![row.account] = @ - row.hold]
    /\ reservation' = [reservation EXCEPT ![u] = row]

Doubted(u, row) ==
    /\ reservation[u].status \in {"RESERVED", "UNCERTAIN"}
    /\ row \in Row /\ row.status = "UNCERTAIN"
    /\ row.account = reservation[u].account /\ row.hold = reservation[u].hold
    /\ row.remaining = reservation[u].remaining /\ row.settled = reservation[u].settled
    /\ HoldOf(row) = HoldOf(reservation[u])
    /\ UNCHANGED balance
    /\ reservation' = [reservation EXCEPT ![u] = row]

\* A charge of n, out of the hold or, if it lacked something, out of the wallet.
ChargedBy(u, n, status) ==
    LET res == reservation[u] IN
    /\ res.status \in {"RESERVED", "UNCERTAIN"}
    /\ status \in Charged
    /\ n \in Nat /\ n <= HoldOf(res)
    /\ n <= res.remaining =>
          balance' = [balance EXCEPT ![res.account] = @ + (res.remaining - n)]
    /\ reservation' = [reservation EXCEPT ![u] = CloseRow(res, n, status)]

Refunded(u) ==
    LET res == reservation[u] IN
    /\ res.status = "RESERVED"
    /\ balance' = [balance EXCEPT ![res.account] = @ + res.remaining]
    /\ reservation' = [reservation EXCEPT ![u] = CloseRow(res, 0, "RELEASED")]

PaidElsewhere(a) ==
    /\ balance'[a] >= 0
    /\ balance' = [balance EXCEPT ![a] = balance'[a]]
    /\ UNCHANGED reservation

Effect ==
    \/ Untouched
    \/ \E u \in Usages : \E row \in Row : Opened(u, row) \/ Doubted(u, row)
    \/ \E u \in Usages : \E n \in Nat : \E status \in Charged : ChargedBy(u, n, status)
    \/ \E u \in Usages : Refunded(u)
    \/ \E a \in Accounts : PaidElsewhere(a)

\* A posted entry moves the balance by its amount, also when that is zero.
LEMMA PostBalance ==
    ASSUME TypeOK, NEW a \in Accounts, NEW delta \in Int, NEW kind, NEW op, NEW usage,
           Post(a, kind, delta, op, usage)
    PROVE  balance' = [balance EXCEPT ![a] = @ + delta]
BY DEF TypeOK, Post, money

LEMMA AnsweringIsUntouched ==
    ASSUME NEW c \in Calls, NEW code,
           Deny(c, code) \/ Throw(c, code) \/ Acknowledge(c)
    PROVE  Untouched
BY DEF Deny, Throw, Acknowledge, Untouched

LEMMA FundEffect ==
    ASSUME TypeInv, NEW c \in Calls, Fund(c)
    PROVE  Effect
<1> DEFINE r == req[c]
           hold == Amount(PriceList[revision], r.tokens)
           row == [status |-> "RESERVED", account |-> r.account, scope |-> r.scope,
                   hold |-> hold, remaining |-> hold, settled |-> 0,
                   revision |-> revision, bounds |-> r.tokens]
<1>1. pc[c] # "idle"
  BY DEF Fund
<1>2. r.account \in Accounts /\ r.usage \in Usages /\ r.op \in Ops /\ r.tokens \in Tokens
      /\ r.scope \in Scopes
  BY <1>1, RequestTypes
<1>3. hold \in Nat
  <2>1. PriceList[revision] \in Price
    BY ConstantsAssumption DEF TypeInv, TypeOK
  <2>2. QED
    BY <1>2, <2>1, AmountIsNat
<1>4. row \in Row
  BY <1>2, <1>3 DEF Row, Statuses, TypeInv, TypeOK
<1>5. CASE \E code \in Denials \cup Thrown : Deny(c, code) \/ Throw(c, code)
  BY <1>5, AnsweringIsUntouched DEF Effect
<1>6. CASE /\ WalletUsable(r.account) /\ Affords(r.account, hold)
           /\ reservation[r.usage].status = "ABSENT"
           /\ reservation' = [reservation EXCEPT ![r.usage] = row]
           /\ DebitHold(r.account, "hold", hold, r.op, r.usage)
  <2>1. balance' = [balance EXCEPT ![r.account] = @ + (-hold)]
    BY <1>2, <1>3, <1>6, PostBalance DEF DebitHold, TypeInv
  <2>2. balance' = [balance EXCEPT ![r.account] = @ - hold]
    BY <1>2, <1>3, <2>1 DEF TypeInv, TypeOK
  <2>3. Opened(r.usage, row)
    BY <1>4, <1>6, <2>2 DEF Opened, HoldOf, WalletUsable, Affords
  <2>4. QED
    BY <1>2, <1>4, <2>3 DEF Effect
<1>7. QED
  BY <1>5, <1>6 DEF Fund, Denials, Thrown

LEMMA ChargeEffect ==
    ASSUME TypeInv, NEW c \in Calls, pc[c] = "mutate", NEW status \in Charged,
           MayCharge(req[c]), Charge(c, status)
    PROVE  Effect
<1> DEFINE r == req[c]
           res == reservation[r.usage]
           n == Billable(r)
<1>1. /\ res \in Row /\ res.account \in Accounts /\ res.remaining \in Nat
      /\ res.bounds \in Tokens /\ r.tokens \in Tokens
      /\ r.usage \in Usages /\ r.op \in Ops
  BY RequestTypes DEF Row
<1>2. CASE \E code \in Denials \cup Thrown : Deny(c, code) \/ Throw(c, code) \/ Acknowledge(c)
  BY <1>2, AnsweringIsUntouched DEF Effect
<1>3. CASE /\ WithinBounds(r.tokens, res.bounds) /\ res.status \notin Charged
           /\ ApplyBillable(c, n, status)
  <2>1. n \in Nat /\ n <= HoldOf(res)
    <3>1. PriceList[res.revision] \in Price
      BY <1>1, ConstantsAssumption DEF Row
    <3>2. QED
      BY <1>1, <1>3, <3>1, ChargeWithinHold DEF Billable, HoldOf
  <2>2. res.status \in {"RESERVED", "UNCERTAIN"}
    BY <1>1, <1>3 DEF MayCharge, InScope, Row, Statuses, Charged
  <2>3. CASE Deny(c, "insufficient_funds")
    BY <2>3, AnsweringIsUntouched DEF Effect
  <2>4. CASE /\ n > res.remaining
             /\ reservation' = [reservation EXCEPT ![r.usage] = CloseRow(res, n, status)]
    <3>1. ChargedBy(r.usage, n, status)
      BY <1>1, <2>1, <2>2, <2>4 DEF ChargedBy
    <3>2. QED
      BY <1>1, <2>1, <3>1 DEF Effect
  <2>5. CASE /\ CreditRelease(res.account, res.remaining - n, r.op, r.usage)
             /\ reservation' = [reservation EXCEPT ![r.usage] = CloseRow(res, n, status)]
    <3>1. balance' = [balance EXCEPT ![res.account] = @ + (res.remaining - n)]
      BY <1>1, <2>1, <2>5, PostBalance DEF CreditRelease, TypeInv
    <3>2. ChargedBy(r.usage, n, status)
      BY <2>1, <2>2, <2>5, <3>1 DEF ChargedBy
    <3>3. QED
      BY <1>1, <2>1, <3>2 DEF Effect
  <2>6. QED
    BY <1>3, <2>3, <2>4, <2>5 DEF ApplyBillable
<1>4. QED
  BY <1>2, <1>3 DEF Charge, Denials, Thrown

LEMMA MarkUncertainEffect ==
    ASSUME TypeInv, NEW c \in Calls, pc[c] = "mutate", MayCharge(req[c]), MarkUncertain(c)
    PROVE  Effect
<1> DEFINE u == req[c].usage
           kept == [reservation[u] EXCEPT !.status = "UNCERTAIN"]
<1>1. reservation[u] \in Row /\ u \in Usages
  BY RequestTypes
<1>2. /\ kept \in Row /\ kept.status = "UNCERTAIN"
      /\ kept.account = reservation[u].account /\ kept.hold = reservation[u].hold
      /\ kept.remaining = reservation[u].remaining /\ kept.settled = reservation[u].settled
      /\ kept.revision = reservation[u].revision /\ kept.bounds = reservation[u].bounds
  BY <1>1 DEF Row, Statuses
<1>3. CASE Deny(c, "state_conflict")
  BY <1>3, AnsweringIsUntouched DEF Effect
<1>4. CASE /\ reservation[u].status \notin Charged
           /\ reservation' = [reservation EXCEPT ![u] = kept]
           /\ UNCHANGED money
  <2>1. reservation[u].status \in {"RESERVED", "UNCERTAIN"}
    BY <1>1, <1>4 DEF MayCharge, InScope, Row, Statuses, Charged
  <2>2. Doubted(u, kept)
    <3> HIDE DEF kept
    <3>1. QED
      BY <1>2, <1>4, <2>1 DEF Doubted, HoldOf, money
  <2>3. QED
    BY <1>1, <1>2, <2>2 DEF Effect
<1>5. QED
  BY <1>3, <1>4 DEF MarkUncertain

LEMMA ReleaseEffect ==
    ASSUME TypeInv, NEW c \in Calls, Release(c)
    PROVE  Effect
<1> DEFINE r == req[c]
           res == reservation[r.usage]
<1>1. pc[c] # "idle"
  BY DEF Release
<1>2. /\ res \in Row /\ res.account \in Accounts /\ res.remaining \in Nat
      /\ r.usage \in Usages /\ r.op \in Ops
  BY <1>1, RequestTypes DEF Row
<1>3. CASE \E code \in Denials : Deny(c, code) \/ Acknowledge(c)
  BY <1>3, AnsweringIsUntouched DEF Effect
<1>4. CASE /\ InScope(r) /\ res.status \notin NotReleasable \cup {"RELEASED"}
           /\ CreditRelease(res.account, res.remaining, r.op, r.usage)
           /\ reservation' = [reservation EXCEPT ![r.usage] = CloseRow(res, 0, "RELEASED")]
  <2>1. res.status = "RESERVED"
    BY <1>2, <1>4 DEF InScope, Row, Statuses, NotReleasable, Charged
  <2>2. balance' = [balance EXCEPT ![res.account] = @ + res.remaining]
    BY <1>2, <1>4, PostBalance DEF CreditRelease, TypeInv
  <2>3. Refunded(r.usage)
    BY <1>4, <2>1, <2>2 DEF Refunded
  <2>4. QED
    BY <1>2, <2>3 DEF Effect
<1>5. QED
  BY <1>3, <1>4 DEF Release, DenyScope, Denials

\* Every step of the specification is one of the effects.
LEMMA StepEffect ==
    ASSUME TypeInv, [Next]_vars
    PROVE  Effect
<1>1. CASE UNCHANGED vars
  BY <1>1 DEF vars, Effect, Untouched
<1>2. ASSUME NEW c \in Calls, CallStep(c) PROVE Effect
  <2>1. CASE CheckAccount(c) \/ CheckUsage(c)
    BY <2>1, AnsweringIsUntouched DEF CheckAccount, CheckUsage, Effect, Untouched
  <2>2. CASE Fund(c)
    BY <2>2, FundEffect
  <2>3. ASSUME RefuseCharge(c) PROVE Effect
    BY <2>3, AnsweringIsUntouched DEF RefuseCharge, DenyScope, Effect
  <2>4. CASE Settle(c)
    BY <2>3, <2>4, ChargeEffect, MarkUncertainEffect DEF Settle, Charged
  <2>5. CASE Reconcile(c)
    BY <2>3, <2>5, ChargeEffect DEF Reconcile, Charged
  <2>6. CASE Release(c)
    BY <2>6, ReleaseEffect
  <2>7. CASE RollBack(c)
    BY <2>7, AnsweringIsUntouched DEF RollBack, Effect
  <2>8. CASE Reply(c)
    BY <2>8 DEF Reply, Effect, Untouched
  <2>9. QED
    BY <1>2, <2>1, <2>2, <2>4, <2>5, <2>6, <2>7, <2>8 DEF CallStep
<1>3. ASSUME NEW c \in Calls, NEW r \in Offered, Receive(c, r) PROVE Effect
  BY <1>3 DEF Receive, Effect, Untouched
<1>4. CASE PublishPrice \/ \E a \in Accounts, b \in BOOLEAN : SetUserBlock(a, b)
  BY <1>4 DEF PublishPrice, SetUserBlock, Effect, Untouched
<1>5. ASSUME NEW a \in Accounts, NEW delta \in Int, OtherProduct(a, delta) PROVE Effect
  <2>1. balance' = [balance EXCEPT ![a] = @ + delta] /\ balance[a] + delta >= 0
    BY <1>5, PostBalance DEF OtherProduct, TypeInv
  <2>2. balance'[a] = balance[a] + delta
    BY <2>1 DEF TypeInv, TypeOK
  <2>3. PaidElsewhere(a)
    BY <1>5, <2>1, <2>2 DEF OtherProduct, PaidElsewhere
  <2>4. QED
    BY <2>3 DEF Effect
<1>6. QED
  BY <1>1, <1>2, <1>3, <1>4, <1>5, ConstantsAssumption DEF Next, Environment

(***************************************************************************)
(* Books                                                                   *)
(***************************************************************************)

\* A hold is the price of its bounds at the revision it was made at; without
\* this, nothing would bound the charge by the hold.
HoldIsPriced ==
    \A u \in Usages : IF reservation[u].status = "ABSENT"
                      THEN reservation[u].settled = 0
                      ELSE reservation[u].hold = HoldOf(reservation[u])

Books == ReservationBooks /\ HoldIsPriced

LEMMA InitBooks == Init => Books
BY DEF Init, Books, ReservationBooks, HoldIsPriced, Absent, Charged

\* What the books say of one row.
RowBooks(res) ==
    /\ res.status \in {"RESERVED", "UNCERTAIN"} =>
           res.remaining = res.hold /\ res.settled = 0
    /\ res.status \in Charged => res.remaining = 0 /\ res.settled <= res.hold
    /\ res.status = "RELEASED" => res.remaining = 0 /\ res.settled = 0
    /\ IF res.status = "ABSENT" THEN res.settled = 0 ELSE res.hold = HoldOf(res)

LEMMA BooksAreRowBooks == Books <=> \A u \in Usages : RowBooks(reservation[u])
BY DEF Books, ReservationBooks, HoldIsPriced, RowBooks

LEMMA CloseRowBooks ==
    ASSUME NEW res \in Row, RowBooks(res), res.status \in {"RESERVED", "UNCERTAIN"},
           NEW n \in Nat, n <= HoldOf(res), NEW status \in Closed,
           status = "RELEASED" => n = 0
    PROVE  RowBooks(CloseRow(res, n, status))
<1> DEFINE done == CloseRow(res, n, status)
<1>1. /\ done.status = status /\ done.remaining = 0 /\ done.settled = res.settled + n
      /\ done.hold = res.hold /\ done.revision = res.revision /\ done.bounds = res.bounds
  BY CloseRowFields
<1>2. res.settled = 0 /\ res.hold = HoldOf(res) /\ res.hold \in Nat
  BY DEF RowBooks, Row
<1>3. status \in Charged \cup {"RELEASED"}
  BY DEF Closed
<1>4. QED
  BY <1>1, <1>2, <1>3 DEF RowBooks, HoldOf, Charged

LEMMA EffectBooks ==
    ASSUME TypeInv, Books, Effect
    PROVE  Books'
<1>1. \A u \in Usages : reservation[u] \in Row /\ RowBooks(reservation[u])
  BY BooksAreRowBooks DEF TypeInv, TypeOK
<1>2. SUFFICES \A u \in Usages : RowBooks(reservation'[u])
  BY DEF Books, ReservationBooks, HoldIsPriced, RowBooks, HoldOf
<1>3. CASE UNCHANGED reservation
  BY <1>1, <1>3
<1>4. ASSUME NEW u \in Usages, NEW row \in Row, Opened(u, row) \/ Doubted(u, row)
      PROVE  \A v \in Usages : RowBooks(reservation'[v])
  <2>1. RowBooks(row)
    <3>1. CASE Opened(u, row)
      BY <3>1 DEF Opened, RowBooks, Charged
    <3>2. CASE Doubted(u, row)
      BY <1>1, <3>2 DEF Doubted, RowBooks, Charged
    <3>3. QED
      BY <1>4, <3>1, <3>2
  <2>2. reservation' = [reservation EXCEPT ![u] = row]
    BY <1>4 DEF Opened, Doubted
  <2>3. QED
    BY <1>1, <2>1, <2>2 DEF TypeInv, TypeOK
<1>5. ASSUME NEW u \in Usages, NEW n \in Nat, NEW status \in Charged, ChargedBy(u, n, status)
      PROVE  \A v \in Usages : RowBooks(reservation'[v])
  <2>1. RowBooks(CloseRow(reservation[u], n, status))
    BY <1>1, <1>5, CloseRowBooks DEF ChargedBy, Closed, Charged
  <2>2. reservation' = [reservation EXCEPT ![u] = CloseRow(reservation[u], n, status)]
    BY <1>5 DEF ChargedBy
  <2>3. QED
    BY <1>1, <2>1, <2>2 DEF TypeInv, TypeOK
<1>6. ASSUME NEW u \in Usages, Refunded(u)
      PROVE  \A v \in Usages : RowBooks(reservation'[v])
  <2>1. 0 <= HoldOf(reservation[u])
    BY <1>1, <1>6 DEF Refunded, RowBooks, Row
  <2>2. RowBooks(CloseRow(reservation[u], 0, "RELEASED"))
    BY <1>1, <1>6, <2>1, CloseRowBooks DEF Refunded, Closed
  <2>3. reservation' = [reservation EXCEPT ![u] = CloseRow(reservation[u], 0, "RELEASED")]
    BY <1>6 DEF Refunded
  <2>4. QED
    BY <1>1, <2>2, <2>3 DEF TypeInv, TypeOK
<1>7. QED
  BY <1>3, <1>4, <1>5, <1>6 DEF Effect, Untouched, PaidElsewhere

LEMMA Safe == Spec => [](TypeInv /\ Books)
<1>1. Init => TypeInv /\ Books
  BY InitTypes, InitBooks
<1>2. TypeInv /\ Books /\ [Next]_vars => (TypeInv /\ Books)'
  BY NextTypes, StepEffect, EffectBooks
<1>3. QED
  BY <1>1, <1>2, PTL DEF Spec

\* Every reservation's books are in order in every state, whatever the prices:
\* an open hold is whole, a closed one holds nothing, and a charge never exceeds
\* the hold, so a settle never debits the customer a second time.
THEOREM BooksAlwaysBalance == Spec => []ReservationBooks
<1>1. Books => ReservationBooks
  BY DEF Books
<1>2. QED
  BY <1>1, Safe, PTL

(***************************************************************************)
(* What a step may never do                                                *)
(***************************************************************************)

\* No call ever changes a settled, reconciled or released reservation.
THEOREM ClosedStaysClosed == Spec => HistoryIsFixed
<1>1. ASSUME TypeInv, [Next]_vars, NEW u \in Usages, reservation[u].status \in Closed
      PROVE  reservation'[u] = reservation[u]
  <2>1. Effect
    BY <1>1, StepEffect
  <2>2. ASSUME NEW v \in Usages, NEW row, reservation' = [reservation EXCEPT ![v] = row],
               reservation[v].status \in {"ABSENT", "RESERVED", "UNCERTAIN"}
        PROVE  reservation'[u] = reservation[u]
    BY <1>1, <2>2 DEF TypeInv, TypeOK, Closed, Charged
  <2>3. QED
    BY <2>1, <2>2
       DEF Effect, Untouched, Opened, Doubted, ChargedBy, Refunded, PaidElsewhere
<1>2. TypeInv /\ [Next]_vars =>
         [\A u \in Usages : reservation[u].status \in Closed =>
             reservation'[u] = reservation[u]]_vars
  BY <1>1
<1>3. QED
  BY <1>2, Safe, PTL DEF Spec, HistoryIsFixed

\* An uncertain hold stays until it is charged: no release can free it.
THEOREM UncertainHoldIsKept == Spec => UncertainIsKept
<1>1. ASSUME TypeInv, [Next]_vars, NEW u \in Usages, reservation[u].status = "UNCERTAIN"
      PROVE  reservation'[u].status \in Charged \cup {"UNCERTAIN"}
  <2>1. Effect /\ reservation \in [Usages -> Row]
    BY <1>1, StepEffect DEF TypeInv, TypeOK
  <2>2. CASE UNCHANGED reservation
    BY <1>1, <2>2
  <2>3. ASSUME NEW v \in Usages, NEW row \in Row, Opened(v, row) \/ Doubted(v, row)
        PROVE  reservation'[u].status \in Charged \cup {"UNCERTAIN"}
    BY <1>1, <2>1, <2>3 DEF Opened, Doubted
  <2>4. ASSUME NEW v \in Usages, NEW n \in Nat, NEW status \in Charged, ChargedBy(v, n, status)
        PROVE  reservation'[u].status \in Charged \cup {"UNCERTAIN"}
    <3>1. CloseRow(reservation[v], n, status).status = status
      BY <2>1, CloseRowFields DEF Closed
    <3>2. QED
      BY <1>1, <2>1, <2>4, <3>1 DEF ChargedBy
  <2>5. ASSUME NEW v \in Usages, Refunded(v)
        PROVE  reservation'[u].status \in Charged \cup {"UNCERTAIN"}
    BY <1>1, <2>1, <2>5 DEF Refunded
  <2>6. QED
    BY <2>1, <2>2, <2>3, <2>4, <2>5 DEF Effect, Untouched, PaidElsewhere
<1>2. TypeInv /\ [Next]_vars =>
         [\A u \in Usages : reservation[u].status = "UNCERTAIN" =>
             reservation'[u].status \in Charged \cup {"UNCERTAIN"}]_vars
  BY <1>1
<1>3. QED
  BY <1>2, Safe, PTL DEF Spec, UncertainIsKept

\* Blocking a customer freezes the wallet: while it is active, so is the account.
BlockFreezes ==
    \A a \in Accounts : walletStatus[a] = "ACTIVE" => accountStatus[a] = "ACTIVE"

LEMMA BlockStep ==
    ASSUME TypeInv, BlockFreezes, [Next]_vars
    PROVE  BlockFreezes'
<1>1. ASSUME UNCHANGED <<accountStatus, walletStatus>>
      PROVE  BlockFreezes'
  BY <1>1 DEF BlockFreezes
<1>2. ASSUME NEW a \in Accounts, NEW b \in BOOLEAN, SetUserBlock(a, b)
      PROVE  BlockFreezes'
  BY <1>2 DEF SetUserBlock, BlockFreezes, TypeInv, TypeOK
<1>3. ASSUME NEW c \in Calls, CallStep(c)
      PROVE  BlockFreezes'
  BY <1>1, <1>3 DEF CallStep, CheckAccount, CheckUsage, Fund, Settle, Release, Reconcile,
                    RollBack, Reply
<1>4. ASSUME NEW c \in Calls, NEW r \in Offered, Receive(c, r)
      PROVE  BlockFreezes'
  BY <1>1, <1>4 DEF Receive
<1> QED BY <1>1, <1>2, <1>3, <1>4 DEF Next, Environment, PublishPrice, OtherProduct, vars

\* No hold is taken from a customer who is blocked, also where the block falls
\* between the reserve's unlocked look at the account and its lock on the wallet:
\* the wallet's status, which is read under the lock, was frozen with the account.
THEOREM BlockedCustomerHoldsNothing == Spec => NoHoldWhileBlocked
<1>1. Init => BlockFreezes
  BY DEF Init, BlockFreezes
<1>2. ASSUME TypeInv, BlockFreezes, [Next]_vars, NEW u \in Usages,
             reservation[u].status = "ABSENT", reservation'[u].status # "ABSENT"
      PROVE  accountStatus[reservation'[u].account] = "ACTIVE"
  <2>1. Effect /\ reservation \in [Usages -> Row]
    BY <1>2, StepEffect DEF TypeInv, TypeOK
  <2>2. ASSUME NEW v \in Usages, NEW row \in Row, Opened(v, row)
        PROVE  accountStatus[reservation'[u].account] = "ACTIVE"
    <3>1. v = u /\ reservation'[u] = row
      BY <1>2, <2>1, <2>2 DEF Opened
    <3>2. walletStatus[row.account] = "ACTIVE" /\ row.account \in Accounts
      BY <2>2 DEF Opened, Row
    <3> QED BY <1>2, <3>1, <3>2 DEF BlockFreezes
  <2>3. ASSUME NEW v \in Usages, NEW row, reservation' = [reservation EXCEPT ![v] = row],
               reservation[v].status # "ABSENT"
        PROVE  FALSE
    BY <1>2, <2>1, <2>3
  <2> QED BY <1>2, <2>1, <2>2, <2>3
          DEF Effect, Untouched, Doubted, ChargedBy, Refunded, PaidElsewhere
<1>3. TypeInv /\ BlockFreezes /\ [Next]_vars =>
         [\A u \in Usages :
             reservation[u].status = "ABSENT" /\ reservation'[u].status # "ABSENT" =>
                 accountStatus[reservation'[u].account] = "ACTIVE"]_vars
  BY <1>2
<1> QED BY <1>1, <1>3, BlockStep, Safe, PTL DEF Spec, NoHoldWhileBlocked

(***************************************************************************)
(* Refinement                                                              *)
(***************************************************************************)

\* Changing one reservation changes each abstract function at one point.
LEMMA OneReservation ==
    ASSUME TypeInv, NEW u \in Usages, NEW row,
           reservation' = [reservation EXCEPT ![u] = row]
    PROVE  /\ PhaseBar' = [PhaseBar EXCEPT ![u] = PhaseOf(row)]
           /\ OwnerBar' = [OwnerBar EXCEPT ![u] = row.account]
           /\ AmountBar' = [AmountBar EXCEPT ![u] = row.hold]
           /\ ChargeBar' = [ChargeBar EXCEPT ![u] = row.settled]
<1>1. \A v \in Usages : reservation'[v] = IF v = u THEN row ELSE reservation[v]
  BY DEF TypeInv, TypeOK
<1>2. PhaseBar' = [PhaseBar EXCEPT ![u] = PhaseOf(row)]
  <2>1. PhaseBar' = [v \in Usages |-> PhaseOf(reservation'[v])]
    BY DEF PhaseBar, PhaseOf
  <2>2. [PhaseBar EXCEPT ![u] = PhaseOf(row)]
          = [v \in Usages |-> IF v = u THEN PhaseOf(row) ELSE PhaseOf(reservation[v])]
    BY DEF PhaseBar
  <2>3. \A v \in Usages : PhaseOf(reservation'[v])
                          = IF v = u THEN PhaseOf(row) ELSE PhaseOf(reservation[v])
    BY <1>1
  <2>4. QED
    BY <2>1, <2>2, <2>3
<1>3. OwnerBar' = [OwnerBar EXCEPT ![u] = row.account]
  <2>1. OwnerBar' = [v \in Usages |-> reservation'[v].account]
    BY DEF OwnerBar
  <2>2. [OwnerBar EXCEPT ![u] = row.account]
          = [v \in Usages |-> IF v = u THEN row.account ELSE reservation[v].account]
    BY DEF OwnerBar
  <2>3. \A v \in Usages : reservation'[v].account
                          = IF v = u THEN row.account ELSE reservation[v].account
    BY <1>1
  <2>4. QED
    BY <2>1, <2>2, <2>3
<1>4. AmountBar' = [AmountBar EXCEPT ![u] = row.hold]
  <2>1. AmountBar' = [v \in Usages |-> reservation'[v].hold]
    BY DEF AmountBar
  <2>2. [AmountBar EXCEPT ![u] = row.hold]
          = [v \in Usages |-> IF v = u THEN row.hold ELSE reservation[v].hold]
    BY DEF AmountBar
  <2>3. \A v \in Usages : reservation'[v].hold
                          = IF v = u THEN row.hold ELSE reservation[v].hold
    BY <1>1
  <2>4. QED
    BY <2>1, <2>2, <2>3
<1>5. ChargeBar' = [ChargeBar EXCEPT ![u] = row.settled]
  <2>1. ChargeBar' = [v \in Usages |-> reservation'[v].settled]
    BY DEF ChargeBar
  <2>2. [ChargeBar EXCEPT ![u] = row.settled]
          = [v \in Usages |-> IF v = u THEN row.settled ELSE reservation[v].settled]
    BY DEF ChargeBar
  <2>3. \A v \in Usages : reservation'[v].settled
                          = IF v = u THEN row.settled ELSE reservation[v].settled
    BY <1>1
  <2>4. QED
    BY <2>1, <2>2, <2>3
<1>6. QED
  BY <1>2, <1>3, <1>4, <1>5

LEMMA PhaseOfStatus ==
    ASSUME NEW res
    PROVE  /\ res.status = "ABSENT" <=> PhaseOf(res) = "none"
           /\ res.status = "RESERVED" <=> PhaseOf(res) = "open"
           /\ res.status = "UNCERTAIN" <=> PhaseOf(res) = "doubt"
           /\ res.status = "RELEASED" => PhaseOf(res) = "refunded"
           /\ res.status \in Charged => PhaseOf(res) = "charged"
BY DEF PhaseOf, Charged

LEMMA InitContract == Init => Contract!Init
<1> SUFFICES ASSUME Init PROVE Contract!Init
  OBVIOUS
<1>1. Absent \in Row
  BY ConstantsAssumption DEF Absent, Row, Statuses, Tokens, NoTokens
<1>2. PhaseOf(Absent) = "none"
  BY PhaseOfStatus DEF Absent
<1>3. Absent.account \in Accounts /\ Absent.hold = 0 /\ Absent.settled = 0
  BY <1>1 DEF Absent, Row
<1>4. reservation = [u \in Usages |-> Absent] /\ balance = [a \in Accounts |-> Opening]
  BY DEF Init
<1>5. /\ PhaseBar = [u \in Usages |-> "none"]
      /\ OwnerBar = [u \in Usages |-> Absent.account]
      /\ AmountBar = [u \in Usages |-> 0]
      /\ ChargeBar = [u \in Usages |-> 0]
  BY <1>2, <1>3, <1>4 DEF PhaseBar, OwnerBar, AmountBar, ChargeBar
<1>6. QED
  BY <1>3, <1>4, <1>5 DEF Contract!Init

\* Each effect is a step of the contract or leaves its state alone.
LEMMA EffectContract ==
    ASSUME TypeInv, Books, Effect
    PROVE  Contract!Next \/ UNCHANGED Contract!vars
<1>1. \A u \in Usages :
         /\ reservation[u] \in Row /\ RowBooks(reservation[u])
         /\ reservation[u].hold \in Nat /\ reservation[u].settled \in Nat
         /\ reservation[u].account \in Accounts
         /\ PhaseBar[u] = PhaseOf(reservation[u]) /\ OwnerBar[u] = reservation[u].account
         /\ AmountBar[u] = reservation[u].hold /\ ChargeBar[u] = reservation[u].settled
  BY BooksAreRowBooks
     DEF TypeInv, TypeOK, Row, PhaseBar, OwnerBar, AmountBar, ChargeBar
<1>2. balance \in [Accounts -> Nat]
  BY DEF TypeInv, TypeOK
<1>3. \A u \in Usages :
         /\ [OwnerBar EXCEPT ![u] = reservation[u].account] = OwnerBar
         /\ [AmountBar EXCEPT ![u] = reservation[u].hold] = AmountBar
         /\ [ChargeBar EXCEPT ![u] = reservation[u].settled] = ChargeBar
  BY DEF OwnerBar, AmountBar, ChargeBar
<1>4. UNCHANGED reservation => UNCHANGED <<PhaseBar, OwnerBar, AmountBar, ChargeBar>>
  BY DEF PhaseBar, OwnerBar, AmountBar, ChargeBar, PhaseOf
<1>5. CASE Untouched
  BY <1>4, <1>5 DEF Untouched, Contract!vars
<1>6. ASSUME NEW u \in Usages, NEW row \in Row, Opened(u, row)
      PROVE  Contract!Next
  <2>1. row.account \in Accounts /\ row.hold \in Nat /\ balance[row.account] \in Nat
    BY <1>2 DEF Row
  <2>2. /\ PhaseBar' = [PhaseBar EXCEPT ![u] = PhaseOf(row)]
        /\ OwnerBar' = [OwnerBar EXCEPT ![u] = row.account]
        /\ AmountBar' = [AmountBar EXCEPT ![u] = row.hold]
        /\ ChargeBar' = [ChargeBar EXCEPT ![u] = row.settled]
    BY <1>6, OneReservation DEF Opened
  <2>3. Contract!Open(u, row.account, row.hold)
    <3>1. PhaseBar[u] = "none" /\ PhaseOf(row) = "open"
      BY <1>1, <1>6, PhaseOfStatus DEF Opened
    <3>2. reservation[u].settled = row.settled
      BY <1>1, <1>6 DEF Opened, RowBooks
    <3>3. UNCHANGED ChargeBar
      BY <1>3, <2>2, <3>2
    <3>4. /\ balance[row.account] >= row.hold
          /\ balance' = [balance EXCEPT ![row.account] = @ - row.hold]
      BY <1>6 DEF Opened
    <3>5. QED
      BY <2>2, <3>1, <3>3, <3>4 DEF Contract!Open
  <2>4. row.hold \in 0..balance[row.account]
    BY <1>6, <2>1 DEF Opened
  <2>5. QED
    BY <2>1, <2>3, <2>4 DEF Contract!Next
<1>7. ASSUME NEW u \in Usages, NEW row \in Row, Doubted(u, row)
      PROVE  Contract!Next
  <2>1. /\ PhaseBar' = [PhaseBar EXCEPT ![u] = PhaseOf(row)]
        /\ OwnerBar' = [OwnerBar EXCEPT ![u] = row.account]
        /\ AmountBar' = [AmountBar EXCEPT ![u] = row.hold]
        /\ ChargeBar' = [ChargeBar EXCEPT ![u] = row.settled]
    BY <1>7, OneReservation DEF Doubted
  <2>2. Contract!Doubt(u)
    <3>1. PhaseBar[u] \in {"open", "doubt"} /\ PhaseOf(row) = "doubt"
      BY <1>1, <1>7, PhaseOfStatus DEF Doubted
    <3>2. /\ row.account = reservation[u].account /\ row.hold = reservation[u].hold
          /\ row.settled = reservation[u].settled /\ UNCHANGED balance
      BY <1>7 DEF Doubted
    <3>3. UNCHANGED <<OwnerBar, AmountBar, ChargeBar>>
      BY <1>3, <2>1, <3>2
    <3>4. QED
      BY <2>1, <3>1, <3>2, <3>3 DEF Contract!Doubt
  <2>3. QED
    BY <2>2 DEF Contract!Next
<1>8. ASSUME NEW u \in Usages, NEW n \in Nat, NEW status \in Charged, ChargedBy(u, n, status)
      PROVE  Contract!Next
  <2> DEFINE res == reservation[u]
             done == CloseRow(res, n, status)
  <2>1. /\ done.status = status /\ done.settled = res.settled + n
        /\ done.hold = res.hold /\ done.account = res.account
    BY <1>1, CloseRowFields DEF Closed
  <2>2. res.settled = 0 /\ res.remaining = res.hold /\ n <= res.hold
    BY <1>1, <1>8 DEF ChargedBy, RowBooks
  <2>3. balance' = [balance EXCEPT ![res.account] = @ + (res.hold - n)]
    BY <1>8, <2>2 DEF ChargedBy
  <2>4. /\ PhaseBar' = [PhaseBar EXCEPT ![u] = "charged"]
        /\ ChargeBar' = [ChargeBar EXCEPT ![u] = n]
        /\ UNCHANGED <<OwnerBar, AmountBar>>
    <3>1. reservation' = [reservation EXCEPT ![u] = done] /\ PhaseOf(done) = "charged"
      BY <1>8, <2>1, PhaseOfStatus DEF ChargedBy
    <3> HIDE DEF done
    <3>2. /\ PhaseBar' = [PhaseBar EXCEPT ![u] = PhaseOf(done)]
          /\ OwnerBar' = [OwnerBar EXCEPT ![u] = done.account]
          /\ AmountBar' = [AmountBar EXCEPT ![u] = done.hold]
          /\ ChargeBar' = [ChargeBar EXCEPT ![u] = done.settled]
      BY <3>1, OneReservation
    <3>3. done.settled = n
      BY <2>1, <2>2
    <3>4. QED
      BY <1>3, <2>1, <3>1, <3>2, <3>3
  <2>5. Contract!Charge(u, n)
    BY <1>1, <1>8, <2>2, <2>3, <2>4, PhaseOfStatus DEF ChargedBy, Contract!Charge
  <2>6. n \in 0..AmountBar[u]
    BY <1>1, <2>2
  <2>7. QED
    BY <2>5, <2>6 DEF Contract!Next
<1>9. ASSUME NEW u \in Usages, Refunded(u)
      PROVE  Contract!Next
  <2> DEFINE res == reservation[u]
             done == CloseRow(res, 0, "RELEASED")
  <2>1. /\ done.status = "RELEASED" /\ done.settled = res.settled
        /\ done.hold = res.hold /\ done.account = res.account
    BY <1>1, CloseRowFields DEF Closed
  <2>2. balance' = [balance EXCEPT ![res.account] = @ + res.hold]
    BY <1>1, <1>9 DEF Refunded, RowBooks
  <2>3. /\ PhaseBar' = [PhaseBar EXCEPT ![u] = "refunded"]
        /\ UNCHANGED <<OwnerBar, AmountBar, ChargeBar>>
    <3>1. reservation' = [reservation EXCEPT ![u] = done] /\ PhaseOf(done) = "refunded"
      BY <1>9, <2>1, PhaseOfStatus DEF Refunded
    <3> HIDE DEF done
    <3>2. /\ PhaseBar' = [PhaseBar EXCEPT ![u] = PhaseOf(done)]
          /\ OwnerBar' = [OwnerBar EXCEPT ![u] = done.account]
          /\ AmountBar' = [AmountBar EXCEPT ![u] = done.hold]
          /\ ChargeBar' = [ChargeBar EXCEPT ![u] = done.settled]
      BY <3>1, OneReservation
    <3>3. QED
      BY <1>3, <2>1, <3>1, <3>2
  <2>4. Contract!Refund(u)
    BY <1>1, <1>9, <2>2, <2>3, PhaseOfStatus DEF Refunded, Contract!Refund
  <2>5. QED
    BY <2>4 DEF Contract!Next
<1>10. ASSUME NEW a \in Accounts, PaidElsewhere(a)
       PROVE  Contract!Next
  BY <1>4, <1>10 DEF PaidElsewhere, Contract!Next, Contract!Elsewhere
<1>11. QED
  BY <1>5, <1>6, <1>7, <1>8, <1>9, <1>10 DEF Effect

\* The wallet authority implements the hold contract: retries, races between
\* handlers, rollbacks, price revisions and blocked customers never make it move
\* money in a way the contract does not allow.
THEOREM AuthorityImplementsContract == Spec => ImplementsContract
<1>1. TypeInv /\ Books /\ [Next]_vars => [Contract!Next]_(Contract!vars)
  BY StepEffect, EffectContract
<1>2. QED
  BY <1>1, InitContract, Safe, PTL DEF Spec, ImplementsContract, Contract!Spec
=============================================================================
