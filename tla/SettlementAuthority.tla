------------------------ MODULE SettlementAuthority ------------------------
(***************************************************************************)
(* The wallet authority that MessageGo calls to pay for AI runs: a run     *)
(* reserves a hold on the customer's wallet, and the hold is later settled *)
(* (charged for the tokens used), released or reconciled.                  *)
(*                                                                         *)
(* Every call runs in one READ COMMITTED transaction.  The transaction     *)
(* takes an advisory lock on its operation_id, then (for the mutating      *)
(* calls) the row lock of the reservation or (for a reserve) the row lock  *)
(* of the wallet.  A statement sees what had committed when it started, so *)
(* a call is a sequence of steps wherever another transaction may commit   *)
(* between two of its reads; from its last row lock to its commit it is    *)
(* one step, since the rows it then reads are locked.                      *)
(*                                                                         *)
(* A reservation is named by its usage_reservation_id, which the schema    *)
(* keeps unique; a row that does not exist has status "ABSENT".            *)
(***************************************************************************)
EXTENDS Integers, Sequences, FiniteSets

CONSTANTS
    Accounts,      \* customers that have a user row and a wallet
    Usages,        \* usage_reservation_id values
    Scopes,        \* product, workspace and run a call names, as one value
    Ops,           \* operation_id values
    Calls,         \* handler invocations that may run at the same time
    None,          \* no request, no answer, no operation
    PriceList,     \* the published revisions of the model's customer price
    Offered,       \* the requests MessageGo sends, each any number of times
    OtherAmounts,  \* amounts the rest of the shop credits or debits
    Opening,       \* wallet balance at the start
    MaxOther       \* bound: entries other products add to one wallet's ledger

TokensPerMillion == 1000000

Kinds == {"RESERVE", "SETTLE", "RELEASE", "RECONCILE"}
Tokens == [input : Nat, output : Nat]
Price == [input : Nat \ {0}, output : Nat \ {0}]

\* A request: "tokens" are the requested bounds of a reserve and the provider
\* usage of a settle or reconcile; "pin" is the pricing revision the caller
\* supplies, 0 when it supplies none; "uncertain" is outcome_class.
Request == [op : Ops, kind : Kinds, usage : Usages, account : Accounts,
            scope : Scopes, tokens : Tokens, uncertain : BOOLEAN, pin : Nat]

Statuses == {"ABSENT", "RESERVED", "UNCERTAIN", "SETTLED", "RECONCILED", "RELEASED"}
Charged == {"SETTLED", "RECONCILED"}
Closed == Charged \cup {"RELEASED"}
\* The statuses release refuses; an uncertain hold waits for its charge.
NotReleasable == Charged \cup {"UNCERTAIN"}

Denials == {"account_inactive", "wallet_frozen", "insufficient_funds", "not_found",
            "scope_mismatch", "state_conflict", "idempotency_conflict"}
\* Errors that are thrown out of the transaction, which rolls back: nothing is
\* recorded and the same operation_id may be tried again.
Thrown == {"replay_conflict", "stale_pricing", "usage_unknown", "rolled_back"}

Answer == [code : {"ok"} \cup Denials \cup Thrown, status : Statuses,
           hold : Nat, remaining : Nat, settled : Nat]

ASSUME ConstantsAssumption ==
    /\ Offered \subseteq Request
    /\ PriceList \in Seq(Price) /\ Len(PriceList) > 0
    /\ None \notin Request \cup Answer \cup Ops \cup Usages
    /\ Accounts # {} /\ Scopes # {}
    /\ Opening \in Nat /\ MaxOther \in Nat /\ OtherAmounts \subseteq Nat \ {0}

VARIABLES
    revision,       \* latest row of MessageGoCustomerPrice
    accountStatus,  \* User.accountStatus
    walletStatus,   \* Wallet.status
    balance,        \* Wallet.availableBalance
    ledger,         \* WalletLedgerEntry rows of each wallet, in commit order
    reservation,    \* MessageGoAuthorityReservation
    operation,      \* rows of MessageGoSettlementOperation
    pc,             \* where each handler invocation is
    req,            \* the request it serves
    answer          \* what it is about to answer

money == <<balance, ledger>>
vars == <<revision, accountStatus, walletStatus, balance, ledger, reservation,
          operation, pc, req, answer>>

(***************************************************************************)
(* Amounts                                                                 *)
(***************************************************************************)

\* Integer rial, rounded up: charging starts with the first token.
CostRial(tokens, rialPerMillion) ==
    (tokens * rialPerMillion + (TokensPerMillion - 1)) \div TokensPerMillion

\* What a hold on these bounds, or a charge for this usage, comes to.
Amount(price, tokens) ==
    CostRial(tokens.input, price.input) + CostRial(tokens.output, price.output)

\* Usage is billable only inside the bounds the hold was computed from.
WithinBounds(tokens, bounds) ==
    tokens.input <= bounds.input /\ tokens.output <= bounds.output

(***************************************************************************)
(* Rows                                                                    *)
(***************************************************************************)

NoTokens == [input |-> 0, output |-> 0]

\* What settlementFingerprint hashes: the supplied price and amounts are left
\* out, and an uncertain settle carries no usage.
Body(r) == <<r.kind, r.usage, r.account, r.scope, r.uncertain,
             IF r.uncertain THEN NoTokens ELSE r.tokens>>

RowsOf(o) == {row \in operation : row.op = o}

Denial(code) ==
    [code |-> code, status |-> "ABSENT", hold |-> 0, remaining |-> 0, settled |-> 0]

OutcomeOf(res) ==
    [code |-> "ok", status |-> res.status, hold |-> res.hold,
     remaining |-> res.remaining, settled |-> res.settled]

\* Mutant: the body of a retried operation_id is not compared.
MutantReplay(row, r) == row.answer

Replay(row, r) ==
    IF row.body # Body(r) THEN Denial("replay_conflict") ELSE row.answer

Absent == [status |-> "ABSENT", account |-> CHOOSE a \in Accounts : TRUE,
           scope |-> CHOOSE s \in Scopes : TRUE, hold |-> 0, remaining |-> 0,
           settled |-> 0, revision |-> 1, bounds |-> NoTokens]

Init ==
    /\ revision = 1
    /\ accountStatus = [a \in Accounts |-> "ACTIVE"]
    /\ walletStatus = [a \in Accounts |-> "ACTIVE"]
    /\ balance = [a \in Accounts |-> Opening]
    /\ ledger = [a \in Accounts |-> << >>]
    /\ reservation = [u \in Usages |-> Absent]
    /\ operation = {}
    /\ pc = [c \in Calls |-> "idle"]
    /\ req = [c \in Calls |-> None]
    /\ answer = [c \in Calls |-> None]

(***************************************************************************)
(* Steps of a call                                                         *)
(***************************************************************************)

InTransaction(c) == pc[c] \in {"account", "usage", "fund", "mutate"}

\* The advisory lock on an operation_id is held by the transaction that took it.
OperationLocked(o) == \E c \in Calls : InTransaction(c) /\ req[c].op = o

AnswerWith(c, a) ==
    /\ pc' = [pc EXCEPT ![c] = "reply"]
    /\ answer' = [answer EXCEPT ![c] = a]
    /\ UNCHANGED req

\* The operation row is written in the transaction whose outcome it records.
Record(c, a) ==
    /\ operation' = operation \cup
          {[op |-> req[c].op, body |-> Body(req[c]), answer |-> a]}
    /\ AnswerWith(c, a)

\* The transaction rolls back: the caller gets an error and nothing is kept.
Throw(c, code) ==
    /\ AnswerWith(c, Denial(code))
    /\ UNCHANGED <<balance, ledger, reservation, operation>>

Deny(c, code) ==
    /\ Record(c, Denial(code))
    /\ UNCHANGED <<balance, ledger, reservation>>

\* A request arrives; its transaction takes the operation lock and looks for the
\* operation row: a recorded operation is answered from the row.
Receive(c, r) ==
    /\ pc[c] = "idle"
    /\ ~OperationLocked(r.op)
    /\ req' = [req EXCEPT ![c] = r]
    /\ IF RowsOf(r.op) # {}
       THEN \E row \in RowsOf(r.op) :
               /\ pc' = [pc EXCEPT ![c] = "reply"]
               /\ answer' = [answer EXCEPT ![c] = Replay(row, r)]
       ELSE /\ pc' = [pc EXCEPT ![c] = IF r.kind = "RESERVE" THEN "account" ELSE "mutate"]
            /\ UNCHANGED answer
    /\ UNCHANGED <<revision, accountStatus, walletStatus, balance, ledger,
                   reservation, operation>>

\* The response is written to the socket and the invocation ends.
Reply(c) ==
    /\ pc[c] = "reply"
    /\ pc' = [pc EXCEPT ![c] = "idle"]
    /\ req' = [req EXCEPT ![c] = None]
    /\ answer' = [answer EXCEPT ![c] = None]
    /\ UNCHANGED <<revision, accountStatus, walletStatus, balance, ledger,
                   reservation, operation>>

\* The process dies, the connection drops or the transaction times out.
RollBack(c) ==
    /\ InTransaction(c)
    /\ Throw(c, "rolled_back")
    /\ UNCHANGED <<revision, accountStatus, walletStatus>>

(***************************************************************************)
(* Ledger entries                                                          *)
(***************************************************************************)

\* Mutant: balanceAfter is read before the update.
MutantPost(a, kind, delta, op, usage) ==
    IF delta = 0
    THEN UNCHANGED money
    ELSE /\ balance' = [balance EXCEPT ![a] = @ + delta]
         /\ ledger' = [ledger EXCEPT ![a] = Append(@,
               [kind |-> kind, delta |-> delta, after |-> balance[a],
                op |-> op, usage |-> usage])]

\* One entry, with the balance it leaves; an amount of zero writes none.
Post(a, kind, delta, op, usage) ==
    IF delta = 0
    THEN UNCHANGED money
    ELSE /\ balance' = [balance EXCEPT ![a] = @ + delta]
         /\ ledger' = [ledger EXCEPT ![a] = Append(@,
               [kind |-> kind, delta |-> delta, after |-> balance[a] + delta,
                op |-> op, usage |-> usage])]

\* Mutant: the whole hold is given back instead of what is left of it.
MutantCreditRelease(a, amount, op, usage) ==
    Post(a, "release", reservation[usage].hold, op, usage)

\* The conditional decrement of debitHold and the increment of creditRelease.
DebitHold(a, kind, amount, op, usage) == Post(a, kind, -amount, op, usage)
CreditRelease(a, amount, op, usage) == Post(a, "release", amount, op, usage)
\* Mutant: the wallet's status is not read again under its lock.
MutantWalletUsable(a) == TRUE

\* Mutant: the funds check is off by one.
MutantAffords(a, amount) == balance[a] + 1 >= amount

WalletUsable(a) == walletStatus[a] = "ACTIVE"
Affords(a, amount) == balance[a] >= amount
CanDebit(a, amount) == amount = 0 \/ (Affords(a, amount) /\ WalletUsable(a))

(***************************************************************************)
(* Reserve                                                                 *)
(***************************************************************************)

\* The account is read without a lock; it may be blocked before the hold is taken.
CheckAccount(c) ==
    /\ pc[c] = "account"
    /\ IF accountStatus[req[c].account] # "ACTIVE"
       THEN Deny(c, "account_inactive")
       ELSE /\ pc' = [pc EXCEPT ![c] = "usage"]
            /\ UNCHANGED <<balance, ledger, reservation, operation, req, answer>>
    /\ UNCHANGED <<revision, accountStatus, walletStatus>>

\* So may a second reserve bind the usage id after this read found it free.
CheckUsage(c) ==
    /\ pc[c] = "usage"
    /\ IF reservation[req[c].usage].status # "ABSENT"
       THEN Deny(c, "idempotency_conflict")
       ELSE /\ pc' = [pc EXCEPT ![c] = "fund"]
            /\ UNCHANGED <<balance, ledger, reservation, operation, req, answer>>
    /\ UNCHANGED <<revision, accountStatus, walletStatus>>

\* The reserve locks the wallet, prices the bounds at the latest revision, checks
\* the funds and inserts the reservation, which the unique usage id may refuse.
Fund(c) ==
    LET r == req[c]
        hold == Amount(PriceList[revision], r.tokens)
        row == [status |-> "RESERVED", account |-> r.account, scope |-> r.scope,
                hold |-> hold, remaining |-> hold, settled |-> 0,
                revision |-> revision, bounds |-> r.tokens]
    IN /\ pc[c] = "fund"
       /\ \/ /\ ~WalletUsable(r.account)
             /\ Deny(c, "wallet_frozen")
          \/ /\ WalletUsable(r.account)
             /\ r.pin \notin {0, revision}
             /\ Throw(c, "stale_pricing")
          \/ /\ WalletUsable(r.account)
             /\ r.pin \in {0, revision}
             /\ ~Affords(r.account, hold)
             /\ Deny(c, "insufficient_funds")
          \/ /\ WalletUsable(r.account)
             /\ r.pin \in {0, revision}
             /\ Affords(r.account, hold)
             /\ reservation[r.usage].status # "ABSENT"
             /\ Throw(c, "rolled_back")
          \/ /\ WalletUsable(r.account)
             /\ r.pin \in {0, revision}
             /\ Affords(r.account, hold)
             /\ reservation[r.usage].status = "ABSENT"
             /\ reservation' = [reservation EXCEPT ![r.usage] = row]
             /\ DebitHold(r.account, "hold", hold, r.op, r.usage)
             /\ Record(c, OutcomeOf(row))
       /\ UNCHANGED <<revision, accountStatus, walletStatus>>

(***************************************************************************)
(* Settle, release, reconcile                                              *)
(***************************************************************************)

\* The reservation a mutating call may touch, or the denial it records.
InScope(r) ==
    LET res == reservation[r.usage]
    IN res.status # "ABSENT" /\ res.account = r.account /\ res.scope = r.scope

DenyScope(c) ==
    LET res == reservation[req[c].usage]
    IN /\ ~InScope(req[c])
       /\ Deny(c, IF res.status = "ABSENT" THEN "not_found" ELSE "scope_mismatch")

\* A call that changes nothing but is recorded with the current outcome.
Acknowledge(c) ==
    /\ Record(c, OutcomeOf(reservation[req[c].usage]))
    /\ UNCHANGED <<balance, ledger, reservation>>

\* A closed reservation holds nothing more.
CloseRow(res, billable, status) ==
    [res EXCEPT !.remaining = 0, !.settled = @ + billable, !.status = status]

\* Charge a hold: give back what is left of it, or debit what it lacks.
ApplyBillable(c, billable, status) ==
    LET r == req[c]
        res == reservation[r.usage]
        done == CloseRow(res, billable, status)
    IN IF billable > res.remaining
       THEN \/ /\ CanDebit(res.account, billable - res.remaining)
               /\ DebitHold(res.account, "extra", billable - res.remaining, r.op, r.usage)
               /\ reservation' = [reservation EXCEPT ![r.usage] = done]
               /\ Record(c, OutcomeOf(done))
            \/ /\ ~CanDebit(res.account, billable - res.remaining)
               /\ Deny(c, "insufficient_funds")
       ELSE /\ CreditRelease(res.account, res.remaining - billable, r.op, r.usage)
            /\ reservation' = [reservation EXCEPT ![r.usage] = done]
            /\ Record(c, OutcomeOf(done))

\* Mutant: the charge uses the latest price.
MutantBillable(r) == Amount(PriceList[revision], r.tokens)

\* What the charge comes to, at the price the reservation was made at.
Billable(r) ==
    Amount(PriceList[reservation[r.usage].revision], r.tokens)

\* A settle or reconcile with a known usage, on a reservation it may touch.
Charge(c, status) ==
    LET r == req[c]
        res == reservation[r.usage]
    IN \/ /\ ~WithinBounds(r.tokens, res.bounds)
          /\ Throw(c, "usage_unknown")
       \/ /\ WithinBounds(r.tokens, res.bounds)
          /\ res.status \in Charged
          /\ IF res.settled # Billable(r) THEN Deny(c, "state_conflict") ELSE Acknowledge(c)
       \/ /\ WithinBounds(r.tokens, res.bounds)
          /\ res.status \notin Charged
          /\ ApplyBillable(c, Billable(r), status)

\* A settle whose outcome is uncertain keeps the hold until it is known.
MarkUncertain(c) ==
    LET r == req[c]
        kept == [reservation[r.usage] EXCEPT !.status = "UNCERTAIN"]
    IN IF reservation[r.usage].status \in Charged
       THEN Deny(c, "state_conflict")
       ELSE /\ reservation' = [reservation EXCEPT ![r.usage] = kept]
            /\ Record(c, OutcomeOf(kept))
            /\ UNCHANGED money

\* settle and reconcile share the checks on scope, price and a released hold.
RefuseCharge(c) ==
    LET r == req[c]
        res == reservation[r.usage]
    IN \/ DenyScope(c)
       \/ /\ InScope(r)
          /\ r.pin \notin {0, res.revision}
          /\ Throw(c, "stale_pricing")
       \/ /\ InScope(r)
          /\ r.pin \in {0, res.revision}
          /\ res.status = "RELEASED"
          /\ Deny(c, "state_conflict")

MayCharge(r) ==
    /\ InScope(r)
    /\ r.pin \in {0, reservation[r.usage].revision}
    /\ reservation[r.usage].status # "RELEASED"

Settle(c) ==
    /\ pc[c] = "mutate" /\ req[c].kind = "SETTLE"
    /\ \/ RefuseCharge(c)
       \/ MayCharge(req[c]) /\ req[c].uncertain /\ MarkUncertain(c)
       \/ MayCharge(req[c]) /\ ~req[c].uncertain /\ Charge(c, "SETTLED")
    /\ UNCHANGED <<revision, accountStatus, walletStatus>>

Reconcile(c) ==
    /\ pc[c] = "mutate" /\ req[c].kind = "RECONCILE"
    /\ \/ RefuseCharge(c)
       \/ MayCharge(req[c]) /\ Charge(c, "RECONCILED")
    /\ UNCHANGED <<revision, accountStatus, walletStatus>>

Release(c) ==
    LET r == req[c]
        res == reservation[r.usage]
        done == CloseRow(res, 0, "RELEASED")
    IN /\ pc[c] = "mutate" /\ r.kind = "RELEASE"
       /\ \/ DenyScope(c)
          \/ /\ InScope(r) /\ res.status \in NotReleasable
             /\ Deny(c, "state_conflict")
          \/ /\ InScope(r) /\ res.status = "RELEASED"
             /\ Acknowledge(c)
          \/ /\ InScope(r) /\ res.status \notin NotReleasable \cup {"RELEASED"}
             /\ CreditRelease(res.account, res.remaining, r.op, r.usage)
             /\ reservation' = [reservation EXCEPT ![r.usage] = done]
             /\ Record(c, OutcomeOf(done))
       /\ UNCHANGED <<revision, accountStatus, walletStatus>>

(***************************************************************************)
(* The rest of the shop                                                    *)
(***************************************************************************)

\* A price is never edited: a new revision is published.
PublishPrice ==
    /\ revision < Len(PriceList)
    /\ revision' = revision + 1
    /\ UNCHANGED <<accountStatus, walletStatus, balance, ledger, reservation,
                   operation, pc, req, answer>>

\* Blocking a customer freezes the wallet in the same transaction.
SetUserBlock(a, blocked) ==
    /\ accountStatus' = [accountStatus EXCEPT ![a] = IF blocked THEN "BLOCKED" ELSE "ACTIVE"]
    /\ walletStatus' = [walletStatus EXCEPT ![a] = IF blocked THEN "FROZEN" ELSE "ACTIVE"]
    /\ UNCHANGED <<revision, balance, ledger, reservation, operation, pc, req, answer>>

OtherEntries(a) == {i \in DOMAIN ledger[a] : ledger[a][i].kind = "other"}

\* creditWallet and debitWallet, as the other products call them.
OtherProduct(a, delta) ==
    /\ Cardinality(OtherEntries(a)) < MaxOther
    /\ WalletUsable(a)
    /\ balance[a] + delta >= 0
    /\ Post(a, "other", delta, None, None)
    /\ UNCHANGED <<revision, accountStatus, walletStatus, reservation, operation,
                   pc, req, answer>>

CallStep(c) ==
    \/ CheckAccount(c) \/ CheckUsage(c) \/ Fund(c)
    \/ Settle(c) \/ Release(c) \/ Reconcile(c)
    \/ RollBack(c) \/ Reply(c)

Environment ==
    \/ PublishPrice
    \/ \E a \in Accounts, b \in BOOLEAN : SetUserBlock(a, b)
    \/ \E a \in Accounts, n \in OtherAmounts : OtherProduct(a, n) \/ OtherProduct(a, -n)

Next ==
    \/ \E c \in Calls : (\E r \in Offered : Receive(c, r)) \/ CallStep(c)
    \/ Environment

Spec == Init /\ [][Next]_vars

(***************************************************************************)
(* Types                                                                   *)
(***************************************************************************)

Row == [status : Statuses, account : Accounts, scope : Scopes, hold : Nat,
        remaining : Nat, settled : Nat, revision : 1..Len(PriceList), bounds : Tokens]

Entry == [kind : {"hold", "extra", "release", "other"}, delta : Int, after : Int,
          op : Ops \cup {None}, usage : Usages \cup {None}]

\* Every variable stays in its type: a status, an amount or a recorded answer
\* outside the schema's would be a row the code cannot read back.
TypeOK ==
    /\ revision \in 1..Len(PriceList)
    /\ accountStatus \in [Accounts -> {"ACTIVE", "BLOCKED"}]
    /\ walletStatus \in [Accounts -> {"ACTIVE", "FROZEN"}]
    /\ balance \in [Accounts -> Nat]
    /\ ledger \in [Accounts -> Seq(Entry)]
    /\ reservation \in [Usages -> Row]
    /\ operation \subseteq [op : Ops, body : {Body(r) : r \in Offered}, answer : Answer]
    /\ pc \in [Calls -> {"idle", "account", "usage", "fund", "mutate", "reply"}]
    /\ req \in [Calls -> Offered \cup {None}]
    /\ answer \in [Calls -> Answer \cup {None}]

(***************************************************************************)
(* Properties                                                              *)
(***************************************************************************)

\* The books of one reservation: the hold is kept whole until it is closed, a
\* closed reservation keeps nothing, and no charge exceeds the hold although
\* prices change between the reserve and the charge (applyBillable then never
\* needs its extra debit).
ReservationBooks ==
    \A u \in Usages : LET res == reservation[u] IN
        /\ res.status \in {"RESERVED", "UNCERTAIN"} =>
               res.remaining = res.hold /\ res.settled = 0
        /\ res.status \in Charged => res.remaining = 0 /\ res.settled <= res.hold
        /\ res.status = "RELEASED" => res.remaining = 0 /\ res.settled = 0

\* The ledger explains the wallet: every entry's balanceAfter continues the one
\* before it, and the last one is the wallet's balance.
LedgerChain ==
    \A a \in Accounts :
        /\ \A i \in DOMAIN ledger[a] :
               ledger[a][i].after =
                   (IF i = 1 THEN Opening ELSE ledger[a][i - 1].after) + ledger[a][i].delta
        /\ balance[a] =
               IF ledger[a] = << >> THEN Opening ELSE ledger[a][Len(ledger[a])].after

\* A financial answer a caller gets is the recorded outcome of its operation_id,
\* so a retry never hears anything else.
AnswersAreRecorded ==
    \A c \in Calls :
        pc[c] = "reply" /\ answer[c].code \notin Thrown =>
            \E row \in RowsOf(req[c].op) :
                row.body = Body(req[c]) /\ row.answer = answer[c]

\* A charged or released reservation is history: no call changes it any more.
HistoryIsFixed ==
    [][\A u \in Usages : reservation[u].status \in Closed =>
           reservation'[u] = reservation[u]]_vars

\* An uncertain hold is given back only by a charge: it is never released.
UncertainIsKept ==
    [][\A u \in Usages : reservation[u].status = "UNCERTAIN" =>
           reservation'[u].status \in Charged \cup {"UNCERTAIN"}]_vars

\* No hold is taken from a blocked customer, even one blocked while the reserve
\* is under way.
NoHoldWhileBlocked ==
    [][\A u \in Usages :
           reservation[u].status = "ABSENT" /\ reservation'[u].status # "ABSENT" =>
               accountStatus[reservation'[u].account] = "ACTIVE"]_vars

(***************************************************************************)
(* What the authority promises, whatever calls it is sent                  *)
(***************************************************************************)

PhaseOf(res) ==
    CASE res.status = "ABSENT" -> "none"
      [] res.status = "RESERVED" -> "open"
      [] res.status = "UNCERTAIN" -> "doubt"
      [] res.status = "RELEASED" -> "refunded"
      [] OTHER -> "charged"

\* The contract's state, read off the reservations.
PhaseBar == [u \in Usages |-> PhaseOf(reservation[u])]
OwnerBar == [u \in Usages |-> reservation[u].account]
AmountBar == [u \in Usages |-> reservation[u].hold]
ChargeBar == [u \in Usages |-> reservation[u].settled]

Contract == INSTANCE HoldContract WITH
    Owners <- Accounts, Holds <- Usages, funds <- balance,
    phase <- PhaseBar, owner <- OwnerBar, amount <- AmountBar, charge <- ChargeBar

\* The authority implements the hold contract: under retries, races, rollbacks
\* and price changes its wallets and reservations only ever move as the contract
\* lets them.
ImplementsContract == Contract!Spec
============================================================================
