----------------------------- MODULE OrderPurchase -----------------------------
(***************************************************************************)
(* A prepaid purchase, from the quote to the job that delivers it.  A      *)
(* session (a conversation, or one catalogue checkout) is quoted; an order *)
(* is made of a quote, paid from the wallet, approved by an administrator  *)
(* and dispatched by the worker.  Session, order and infrastructure order  *)
(* each carry a product-flow state and revision, which a transition moves  *)
(* together and only when they agree.  A stock quote reserves one ready    *)
(* server until the quote is due; a manual offer takes a unit when paid.   *)
(*                                                                         *)
(* Requests run concurrently with each other and with the worker, whose    *)
(* cycle expires the quotes that are due, releases the reservations that   *)
(* have lapsed, dispatches one approved order and claims a job.  Where the *)
(* code reads a row it does not lock and writes later, the model has two   *)
(* actions.  Quotes are numbered in the order in which they are issued.    *)
(***************************************************************************)
EXTENDS Integers, FiniteSets

CONSTANTS
    Sessions,      \* recommendation sessions
    Conversations, \* the sessions that can be quoted again
    Quotes,        \* bound: recommendation quotes, each with at most one order
    SessionOf,     \* the session of each quote
    Customers,     \* wallet owners
    OwnerOf,       \* the customer of each session
    Price,         \* amountRial of each quote
    Offer,         \* offerSource of each quote's plan
    Servers,       \* preprovisioned inventory items
    None,          \* no server, no quote, no order
    Requests,      \* calls the web application serves at a time
    Worker,        \* the provisioning worker
    Opening,       \* wallet balances at the start
    OpeningUnits,  \* manualAvailableUnits at the start
    MaxCrashes     \* bound: times the worker is killed

Offers == {"API_CATALOG", "MANUAL_ADMIN", "PREPROVISIONED_INVENTORY"}
Callers == Requests \cup {Worker}
QuotesOf(s) == {q \in Quotes : SessionOf[q] = s}
Stock(q) == Offer[q] = "PREPROVISIONED_INVENTORY"
Manual(q) == Offer[q] = "MANUAL_ADMIN"

ASSUME ConstantsAssumption ==
    /\ Conversations \subseteq Sessions
    /\ Quotes \subseteq Nat /\ IsFiniteSet(Quotes)
    /\ SessionOf \in [Quotes -> Sessions]
    /\ OwnerOf \in [Sessions -> Customers]
    /\ Price \in [Quotes -> Nat \ {0}]
    /\ Offer \in [Quotes -> Offers]
    /\ \A q \in Quotes : SessionOf[q] \in Conversations => Offer[q] = "API_CATALOG"
    /\ None \notin Servers \cup Quotes
    /\ Worker \notin Requests
    /\ Opening \in [Customers -> Nat]
    /\ OpeningUnits \in Nat /\ MaxCrashes \in Nat

QuoteStatuses == {"NONE", "ACTIVE", "SELECTED", "CONVERTED", "EXPIRED", "INVALIDATED"}
Live == {"ACTIVE", "SELECTED"}
OrderStatuses == {"NONE", "PENDING_PAYMENT", "PAID", "REFUNDED"}
InfraStatuses == {"NONE", "WAITING_ADMIN_FUNDING", "MANUAL_REVIEW", "FUNDING_CONFIRMED",
                  "QUEUED", "PROVISIONING", "REFUNDED"}
Flows == {"DRAFT", "DELIVERY_CONFIGURED", "QUOTED", "AWAITING_PAYMENT", "QUOTE_EXPIRED",
          "PAID", "PROVISION_APPROVED", "PROVISIONING_SUBMITTED",
          "WAITING_ADMIN_DELIVERY_APPROVAL", "CANCELLED"}
\* Bug: a conversation is quoted again after its order was paid.
MutantRequotable == {"DELIVERY_CONFIGURED", "QUOTED", "QUOTE_EXPIRED", "PAID"}
Requotable == {"DELIVERY_CONFIGURED", "QUOTED", "QUOTE_EXPIRED"}
\* Bug: an expiry leaves an order where it awaits payment.
MutantExpireable == {"QUOTED"}
Expireable == {"QUOTED", "AWAITING_PAYMENT"}

VARIABLES
    session, \* flow, rev; revision counts its quotings, keys are their transitions
    quote,   \* status; its server; the expiry transition recorded for it
    due,     \* quotes whose expiresAt has passed
    order,   \* ServiceOrder of each quote: status, flow, rev
    infra,   \* InfrastructureOrder: status, flow, rev, server, the orders approved before
    server,  \* inventory item: status, reservation, assignment, whether freshly observed
    units,   \* ProviderCatalogItem.manualAvailableUnits
    balance, \* Wallet.availableBalance
    call,    \* what each request, and the worker, is in the middle of
    todo,    \* quotes the worker's sweep has yet to expire
    crashes  \* counter for MaxCrashes

books == <<order, infra, balance, units>>
rows == <<session, quote, books, server>>
vars == <<rows, due, call, todo, crashes>>

NotExpired == [by |-> "none", from |-> "QUOTED", ordered |-> FALSE]
Idle(pc) == [pc |-> pc, quote |-> None, session |-> None, flow |-> "DRAFT", rev |-> 0,
             ordered |-> FALSE, server |-> None, seen |-> {}]
\* Six transitions take a catalogue checkout from DRAFT to QUOTED.
Bootstrap == 6

Init ==
    /\ session = [s \in Sessions |->
           [flow |-> IF s \in Conversations THEN "DELIVERY_CONFIGURED" ELSE "DRAFT",
            rev |-> 0, lapsed |-> FALSE, revision |-> 0, keys |-> {}]]
    /\ quote = [q \in Quotes |-> [status |-> "NONE", server |-> None, expiry |-> NotExpired]]
    /\ due = {}
    /\ order = [q \in Quotes |-> [status |-> "NONE", flow |-> "DRAFT", rev |-> 0]]
    /\ infra = [q \in Quotes |->
           [status |-> "NONE", flow |-> "DRAFT", rev |-> 0, server |-> None, ahead |-> {}]]
    /\ server = [v \in Servers |->
           [status |-> "AVAILABLE", quote |-> None, order |-> None, assigned |-> None,
            fresh |-> TRUE]]
    /\ units = OpeningUnits
    /\ balance = Opening
    /\ call = [p \in Callers |-> Idle(IF p = Worker THEN "sweep" ELSE "idle")]
    /\ todo = {}
    /\ crashes = 0

(***************************************************************************)
(* The product flow                                                        *)
(***************************************************************************)

\* Bug: a session is moved whatever state it is in by now.
MutantSessionAt(s, from) == s \in Sessions /\ from \in Flows

\* currentOwnerState: the owners agree, and are where the transition starts.
SessionAt(s, from) == session[s].flow = from
OrderAt(q, from) ==
    /\ order[q].flow = from
    /\ SessionAt(SessionOf[q], from) /\ session[SessionOf[q]].rev = order[q].rev
InfraAt(q, from) ==
    /\ infra[q].flow = from /\ order[q].flow = from /\ infra[q].rev = order[q].rev

\* A row moved to a state by n transitions in a row.
Moved(row, to, n) == [row EXCEPT !.flow = to, !.rev = @ + n]

\* Session, order and infrastructure order move together.
AllMove(q, from, to, n, status) ==
    /\ InfraAt(q, from) /\ OrderAt(q, from)
    /\ session' = [session EXCEPT ![SessionOf[q]] = Moved(@, to, n)]
    /\ order' = [order EXCEPT ![q] = Moved(@, to, n)]
    /\ infra' = [infra EXCEPT ![q] = Moved([@ EXCEPT !.status = status], to, n)]

(***************************************************************************)
(* Ready servers.  AVAILABLE and not fresh stands for STALE and UNHEALTHY: *)
(* such a server can be observed again and nothing else.                   *)
(***************************************************************************)

Freed(v) == [server[v] EXCEPT !.status = "AVAILABLE", !.quote = None, !.order = None]

\* releaseExpiredInventoryReservationsTx: a reservation ends with its quote.
Lapsed(v) ==
    server[v].status = "RESERVED" /\ server[v].assigned = None /\ server[v].quote \in due
AfterRelease == [v \in Servers |-> IF Lapsed(v) THEN Freed(v) ELSE server[v]]

Sellable(row) ==
    /\ row.status = "AVAILABLE" /\ row.fresh
    /\ row.assigned = None /\ row.quote = None /\ row.order = None
ReservedFor(v, q, o) ==
    /\ v # None
    /\ server[v].status = "RESERVED" /\ server[v].fresh
    /\ server[v].quote = q /\ server[v].order = o /\ server[v].assigned = None
    /\ q \notin due

\* Time passes: the quotes of a session, and the session, reach expiresAt.
Lapse(s) ==
    /\ ~session[s].lapsed /\ \E q \in QuotesOf(s) : quote[q].status # "NONE"
    /\ session' = [session EXCEPT ![s].lapsed = TRUE]
    /\ due' = due \cup {q \in QuotesOf(s) : quote[q].status # "NONE"}
    /\ UNCHANGED <<quote, books, server, call, todo, crashes>>

\* Time passes: the last observation of a server is too old to rely on.
Age(v) ==
    /\ server[v].fresh
    /\ server' = [server EXCEPT ![v].fresh = FALSE]
    /\ UNCHANGED <<session, quote, books, due, call, todo, crashes>>

\* An administrator observes a server; a reserved or assigned one is refused.
ObserveRead(p, v) ==
    /\ call[p].pc = "idle"
    /\ server[v].status # "RESERVED" /\ server[v].assigned = None
    /\ call' = [call EXCEPT ![p] = [Idle("observing") EXCEPT !.server = v]]
    /\ UNCHANGED <<rows, due, todo, crashes>>

ObserveWrite(p, reachable) ==
    /\ call[p].pc = "observing"
    /\ server' = [server EXCEPT ![call[p].server] =
           [@ EXCEPT !.status = "AVAILABLE", !.fresh = reachable]]
    /\ call' = [call EXCEPT ![p] = Idle("idle")]
    /\ UNCHANGED <<session, quote, books, due, todo, crashes>>

(***************************************************************************)
(* Quotes                                                                  *)
(***************************************************************************)

\* createCatalogServerQuote: a session of its own; a stock quote first ends
\* the reservations that have lapsed and reserves a server.
Issue(q) ==
    /\ quote[q].status = "NONE" /\ SessionOf[q] \notin Conversations
    /\ SessionAt(SessionOf[q], "DRAFT")
    /\ Manual(q) => units > 0
    /\ session' = [session EXCEPT ![SessionOf[q]] = Moved(@, "QUOTED", Bootstrap)]
    /\ \/ ~Stock(q) /\ quote' = [quote EXCEPT ![q].status = "ACTIVE"] /\ server' = server
       \/ /\ Stock(q)
          /\ \E v \in Servers :
                /\ Sellable(AfterRelease[v])
                /\ quote' = [quote EXCEPT ![q] = [@ EXCEPT !.status = "ACTIVE", !.server = v]]
                /\ server' = [AfterRelease EXCEPT ![v] =
                       [@ EXCEPT !.status = "RESERVED", !.quote = q]]

Checkout(p, q) ==
    /\ call[p].pc = "idle"
    /\ Issue(q)
    /\ UNCHANGED <<books, due, call, todo, crashes>>

\* refreshRecommendationQuote of a catalogue quote: a new session with a new
\* quote, then the old quote is invalidated whatever has become of it.
Refresh(p, q, r) ==
    /\ call[p].pc = "idle"
    /\ quote[r].status # "NONE" /\ SessionOf[r] \notin Conversations
    /\ Offer[q] = Offer[r] /\ OwnerOf[SessionOf[q]] = OwnerOf[SessionOf[r]]
    /\ Issue(q)
    /\ call' = [call EXCEPT ![p] = [Idle("refreshing") EXCEPT !.quote = r]]
    /\ UNCHANGED <<books, due, todo, crashes>>

Invalidate(p) ==
    /\ call[p].pc = "refreshing"
    /\ quote' = [quote EXCEPT ![call[p].quote].status =
           IF @ \in Live THEN "INVALIDATED" ELSE @]
    /\ call' = [call EXCEPT ![p] = Idle("idle")]
    /\ UNCHANGED <<session, books, server, due, todo, crashes>>

\* createRecommendationQuotes reads the session outside its transaction ...
RequoteRead(p, s) ==
    /\ call[p].pc = "idle" /\ s \in Conversations
    /\ ~session[s].lapsed /\ session[s].flow \in Requotable
    /\ call' = [call EXCEPT ![p] = [Idle("requoting") EXCEPT
           !.session = s, !.flow = session[s].flow, !.rev = session[s].revision,
           !.seen = {q \in QuotesOf(s) : quote[q].status \in Live}]]
    /\ UNCHANGED <<rows, due, todo, crashes>>

\* ... whose transitions are keyed by the revision it read: with the key of an
\* equal transition taken the flow is not moved, and the quotes are new anyway.
\* The invalidation misses quotes that a call commits while it is running.
RequoteCommit(p, fresh, blind) ==
    LET s == call[p].session
        key == <<call[p].rev, call[p].flow>>
        replayed == key \in session[s].keys
        found == IF blind THEN call[p].seen ELSE QuotesOf(s)
        steps == IF call[p].flow = "DELIVERY_CONFIGURED" THEN 1 ELSE 2
        row == [session[s] EXCEPT !.lapsed = FALSE, !.revision = @ + 1,
                                  !.keys = @ \cup {key}]
    IN  /\ call[p].pc = "requoting"
        /\ fresh # {} /\ fresh \subseteq QuotesOf(s)
        /\ \A q \in fresh : quote[q].status = "NONE"
        /\ \A q \in QuotesOf(s) :
               quote[q].status = "NONE" /\ q \notin fresh => \A x \in fresh : x < q
        /\ \/ replayed /\ session' = [session EXCEPT ![s] = row]
           \/ /\ \A k \in session[s].keys : k[1] # call[p].rev
              /\ SessionAt(s, call[p].flow)
              /\ session' = [session EXCEPT ![s] = Moved(row, "QUOTED", steps)]
        /\ quote' = [q \in Quotes |->
               IF q \in fresh THEN [quote[q] EXCEPT !.status = "ACTIVE"]
               ELSE IF q \in found /\ quote[q].status \in Live
                    THEN [quote[q] EXCEPT !.status = "INVALIDATED"]
                    ELSE quote[q]]
        /\ call' = [call EXCEPT ![p] = Idle("idle")]
        /\ UNCHANGED <<books, server, due, todo, crashes>>

(***************************************************************************)
(* Orders                                                                  *)
(***************************************************************************)

\* createOrder: the quote and its session are read when the transaction starts ...
OrderRead(p, q) ==
    /\ call[p].pc = "idle"
    /\ quote[q].status \in Live /\ order[q].status = "NONE"
    /\ q \notin due /\ ~session[SessionOf[q]].lapsed
    /\ Manual(q) => units > 0
    /\ call' = [call EXCEPT ![p] =
           [Idle("ordering") EXCEPT !.quote = q, !.rev = session[SessionOf[q]].rev]]
    /\ UNCHANGED <<rows, due, todo, crashes>>

\* ... and the order has that revision; the quote is SELECTED whatever it is by now.
OrderCommit(p) ==
    LET q == call[p].quote
        s == SessionOf[q]
        v == quote[q].server
    IN  /\ call[p].pc = "ordering"
        /\ order[q].status = "NONE"
        /\ SessionAt(s, "QUOTED") /\ session[s].rev = call[p].rev
        /\ order' = [order EXCEPT ![q] = [status |-> "PENDING_PAYMENT",
               flow |-> "AWAITING_PAYMENT", rev |-> call[p].rev + 1]]
        /\ session' = [session EXCEPT ![s] = Moved(@, "AWAITING_PAYMENT", 1)]
        /\ quote' = [quote EXCEPT ![q].status = "SELECTED"]
        /\ \/ ~Stock(q) /\ server' = server
           \/ /\ Stock(q) /\ ReservedFor(v, q, None)
              /\ server' = [server EXCEPT ![v].order = q]
        /\ call' = [call EXCEPT ![p] = Idle("idle")]
        /\ UNCHANGED <<due, infra, units, balance, todo, crashes>>

\* Bug: the balance is not compared with the price.
MutantPayable(q) ==
    /\ order[q].status = "PENDING_PAYMENT" /\ quote[q].status \in Live
    /\ q \notin due /\ OrderAt(q, "AWAITING_PAYMENT")
    /\ Stock(q) => ReservedFor(quote[q].server, q, q)
    /\ Manual(q) => units > 0

\* Bug: no index keeps two orders from naming one server.
MutantPayableTwice(q) ==
    MutantPayable(q) /\ balance[OwnerOf[SessionOf[q]]] >= Price[q]

\* executePayOrderWithWalletTx, which holds the order's row.
Payable(q) ==
    LET v == quote[q].server
    IN  /\ order[q].status = "PENDING_PAYMENT"
        /\ quote[q].status \in Live
        /\ q \notin due /\ ~session[SessionOf[q]].lapsed
        /\ OrderAt(q, "AWAITING_PAYMENT")
        /\ Stock(q) =>
               ReservedFor(v, q, q) /\ \A r \in Quotes : infra[r].server # v
        /\ Manual(q) => units > 0
        /\ balance[OwnerOf[SessionOf[q]]] >= Price[q]

Pay(p, q) ==
    LET to == Moved(order[q], "PAID", 1)
    IN  /\ call[p].pc = "idle"
        /\ Payable(q)
        /\ balance' = [balance EXCEPT ![OwnerOf[SessionOf[q]]] = @ - Price[q]]
        /\ units' = IF Manual(q) THEN units - 1 ELSE units
        /\ order' = [order EXCEPT ![q] = [to EXCEPT !.status = "PAID"]]
        /\ infra' = [infra EXCEPT ![q] = [@ EXCEPT
               !.status = "WAITING_ADMIN_FUNDING", !.flow = to.flow, !.rev = to.rev,
               !.server = quote[q].server]]
        /\ session' = [session EXCEPT ![SessionOf[q]] = Moved(@, "PAID", 1)]
        /\ quote' = [quote EXCEPT ![q].status = "CONVERTED"]
        /\ UNCHANGED <<server, due, call, todo, crashes>>

\* A payment fails, for want of something or in the database: the order is
\* read again, and its reservation is released unless it is PAID after all.
PayFails(p, q) ==
    /\ call[p].pc = "idle"
    /\ order[q].status # "NONE" /\ q \notin due
    /\ call' = [call EXCEPT ![p] = [Idle("failed") EXCEPT !.quote = q]]
    /\ UNCHANGED <<rows, due, todo, crashes>>

PayCaught(p) ==
    /\ call[p].pc = "failed"
    /\ call' = [call EXCEPT ![p] =
           IF order[@.quote].status = "PAID" THEN Idle("idle")
           ELSE [@ EXCEPT !.pc = "releasing"]]
    /\ UNCHANGED <<rows, due, todo, crashes>>

PayRelease(p) ==
    LET held == {v \in Servers : /\ server[v].order = call[p].quote
                                 /\ server[v].status = "RESERVED"
                                 /\ server[v].assigned = None}
    IN  /\ call[p].pc = "releasing"
        /\ server' = [v \in Servers |-> IF v \in held THEN Freed(v) ELSE server[v]]
        /\ call' = [call EXCEPT ![p] = Idle("idle")]
        /\ UNCHANGED <<session, quote, books, due, todo, crashes>>

(***************************************************************************)
(* Expiry of quotes                                                        *)
(***************************************************************************)

\* expireLockedQuoteContractTx reads the quote, its order and its server ...
ExpireRead(p, q) ==
    LET held == {v \in Servers : /\ server[v].quote = q /\ server[v].status = "RESERVED"
                                 /\ server[v].assigned = None}
        ordered == order[q].status # "NONE"
    IN  /\ \/ p \in Requests /\ call[p].pc = "idle"
           \/ p = Worker /\ call[p].pc = "sweeping" /\ q \in todo
        /\ quote[q].status \in Live /\ q \in due
        /\ \E v \in IF held = {} THEN {None} ELSE held :
              call' = [call EXCEPT ![p] = [Idle("expiring") EXCEPT
                  !.quote = q, !.server = v, !.ordered = ordered,
                  !.flow = IF ordered THEN order[q].flow ELSE session[SessionOf[q]].flow]]
        /\ UNCHANGED <<rows, due, todo, crashes>>

\* ... moves the flow from what it has read, unless the same call has been
\* recorded before, and clears by id the server it has read.
ExpiryOf(p) == [by |-> IF p = Worker THEN "sweep" ELSE "request",
                from |-> call[p].flow, ordered |-> call[p].ordered]
ExpiryMoves(p) ==
    call[p].flow \in Expireable /\ quote[call[p].quote].expiry = NotExpired
ExpiryAllowed(p) ==
    LET c == call[p]
    IN  IF ExpiryMoves(p)
        THEN IF c.ordered THEN OrderAt(c.quote, c.flow)
             ELSE SessionAt(SessionOf[c.quote], c.flow)
        ELSE c.flow \in Expireable => quote[c.quote].expiry = ExpiryOf(p)
AfterExpiry(p) == Idle(IF p = Worker THEN "sweeping" ELSE "idle")

ExpireCommit(p) ==
    LET c == call[p]
        q == c.quote
        s == SessionOf[q]
    IN  /\ c.pc = "expiring" /\ ExpiryAllowed(p)
        /\ session' = IF ExpiryMoves(p)
                      THEN [session EXCEPT ![s] = Moved(@, "QUOTE_EXPIRED", 1)]
                      ELSE session
        /\ order' = IF ExpiryMoves(p) /\ c.ordered
                    THEN [order EXCEPT ![q] = Moved(@, "QUOTE_EXPIRED", 1)]
                    ELSE order
        /\ quote' = [quote EXCEPT ![q] = [@ EXCEPT !.status = "EXPIRED",
               !.expiry = IF ExpiryMoves(p) THEN ExpiryOf(p) ELSE quote[q].expiry]]
        /\ server' = IF c.server = None THEN server
                     ELSE [server EXCEPT ![c.server] = Freed(c.server)]
        /\ call' = [call EXCEPT ![p] = AfterExpiry(p)]
        /\ todo' = IF p = Worker THEN todo \ {q} ELSE todo
        /\ UNCHANGED <<infra, units, balance, due, crashes>>

\* The owners have moved, or disagree: nobody catches it, so the worker's whole
\* cycle ends here and the next one starts with the sweep again.
ExpireThrows(p) ==
    /\ call[p].pc = "expiring" /\ ~ExpiryAllowed(p)
    /\ call' = [call EXCEPT ![p] = Idle(IF p = Worker THEN "sweep" ELSE "idle")]
    /\ todo' = IF p = Worker THEN {} ELSE todo
    /\ UNCHANGED <<rows, due, crashes>>

\* A request may fail, or its caller go away, at any point.
Fails(p) ==
    /\ p \in Requests /\ call[p].pc # "idle"
    /\ call' = [call EXCEPT ![p] = Idle("idle")]
    /\ UNCHANGED <<rows, due, todo, crashes>>

(***************************************************************************)
(* Administrators                                                          *)
(***************************************************************************)

Approvable(q) ==
    /\ infra[q].status \in {"WAITING_ADMIN_FUNDING", "MANUAL_REVIEW"}
    /\ infra[q].flow = "PAID" /\ order[q].status = "PAID"
Approved == {q \in Quotes : infra[q].status = "FUNDING_CONFIRMED"}

\* approveProvision, after a review that finds the reserved server still there.
Approve(q) ==
    LET v == infra[q].server
    IN  /\ Approvable(q)
        /\ Stock(q) => server[v].status = "RESERVED" /\ server[v].order = q
        /\ InfraAt(q, "PAID") /\ OrderAt(q, "PAID")
        /\ session' = [session EXCEPT ![SessionOf[q]] = Moved(@, "PROVISION_APPROVED", 1)]
        /\ order' = [order EXCEPT ![q] = Moved(@, "PROVISION_APPROVED", 1)]
        /\ infra' = [infra EXCEPT ![q] = Moved(
               [@ EXCEPT !.status = "FUNDING_CONFIRMED", !.ahead = Approved],
               "PROVISION_APPROVED", 1)]
        /\ UNCHANGED <<quote, due, server, units, balance, call, todo, crashes>>

\* holdProvisionApproval, and an approval that the review blocks.
Hold(q) ==
    /\ Approvable(q)
    /\ infra' = [infra EXCEPT ![q].status = "MANUAL_REVIEW"]
    /\ UNCHANGED <<session, quote, due, order, server, units, balance, call, todo, crashes>>

\* completeManualReadyDelivery: four transitions in one transaction.
ManualProvision(q) ==
    /\ ~Stock(q) /\ infra[q].status = "FUNDING_CONFIRMED" /\ order[q].status = "PAID"
    /\ InfraAt(q, "PROVISION_APPROVED")
    /\ AllMove(q, "PROVISION_APPROVED", "WAITING_ADMIN_DELIVERY_APPROVAL", 4, "PROVISIONING")
    /\ UNCHANGED <<quote, due, server, units, balance, call, todo, crashes>>

\* refundOrder of an order nothing was created for.  An order of the same
\* session that is not refunded keeps the session's flow where it is.
Refund(q) ==
    LET s == SessionOf[q]
        sibling == \E r \in QuotesOf(s) \ {q} :
                       order[r].status \in {"PENDING_PAYMENT", "PAID"}
    IN  /\ order[q].status = "PAID"
        /\ infra[q].status = "WAITING_ADMIN_FUNDING" /\ order[q].flow = "PAID"
        /\ InfraAt(q, "PAID")
        /\ sibling \/ OrderAt(q, "PAID")
        /\ balance' = [balance EXCEPT ![OwnerOf[s]] = @ + Price[q]]
        /\ units' = IF Manual(q) THEN units + 1 ELSE units
        /\ session' = IF sibling THEN session
                      ELSE [session EXCEPT ![s] = Moved(@, "CANCELLED", 1)]
        /\ order' = [order EXCEPT ![q] =
               Moved([@ EXCEPT !.status = "REFUNDED"], "CANCELLED", 1)]
        /\ infra' = [infra EXCEPT ![q] =
               Moved([@ EXCEPT !.status = "REFUNDED"], "CANCELLED", 1)]
        /\ UNCHANGED <<quote, due, server, call, todo, crashes>>

(***************************************************************************)
(* The worker's cycle                                                      *)
(***************************************************************************)

WorkerAt(pc) == call[Worker].pc = pc
Goes(pc) == call' = [call EXCEPT ![Worker] = Idle(pc)]

\* expireDueLockedQuotes: the quotes that are due are listed, then expired one by one.
DueQuotes == {q \in due : quote[q].status \in Live}
SweepBegin ==
    /\ WorkerAt("sweep") /\ Goes("sweeping")
    /\ todo' = DueQuotes
    /\ UNCHANGED <<rows, due, crashes>>

\* Bug: a quote that is not due any more is kept on the sweep's list.
MutantSweepSkips(q) == WorkerAt("sweeping") /\ q \in todo \ DueQuotes /\ UNCHANGED vars
SweepSkips(q) ==
    /\ WorkerAt("sweeping") /\ q \in todo \ DueQuotes
    /\ todo' = todo \ {q}
    /\ UNCHANGED <<rows, due, call, crashes>>

\* releaseExpiredInventoryReservations
Release ==
    /\ WorkerAt("sweeping") /\ todo = {} /\ Goes("dispatch")
    /\ server' = AfterRelease
    /\ UNCHANGED <<session, quote, books, due, todo, crashes>>

\* dispatchApprovedProvisionCommands(1): the order approved longest ago.
Oldest(q) == q \in Approved /\ infra[q].ahead \cap Approved = {}
Deliverable(q) == LET v == infra[q].server IN ReservedFor(v, q, q)

DispatchesNothing ==
    /\ WorkerAt("dispatch") /\ Goes("claim")
    /\ \A q \in Quotes : Oldest(q) => Manual(q)
    /\ UNCHANGED <<rows, due, todo, crashes>>

Dispatch(q) ==
    /\ WorkerAt("dispatch") /\ Goes("claim")
    /\ Oldest(q) /\ ~Manual(q)
    /\ Stock(q) => Deliverable(q)
    /\ AllMove(q, "PROVISION_APPROVED", "PROVISIONING_SUBMITTED", 1, "QUEUED")
    /\ server' = IF Stock(q)
                 THEN [server EXCEPT ![infra[q].server] =
                          [@ EXCEPT !.status = "ASSIGNED", !.assigned = q]]
                 ELSE server
    /\ UNCHANGED <<quote, due, units, balance, todo, crashes>>

\* Its server is not reserved for it any more, or was observed too long ago.
DispatchThrows(q) ==
    /\ WorkerAt("dispatch") /\ Goes("sweep")
    /\ Oldest(q) /\ Stock(q) /\ ~Deliverable(q)
    /\ UNCHANGED <<rows, due, todo, crashes>>

\* The rest of the cycle: claimNextProvisioningJob and what ProvisioningWorker models.
Claim ==
    /\ WorkerAt("claim") /\ Goes("sweep")
    /\ UNCHANGED <<rows, due, todo, crashes>>

Crash ==
    /\ crashes < MaxCrashes /\ call[Worker].pc # "sweep"
    /\ crashes' = crashes + 1 /\ todo' = {} /\ Goes("sweep")
    /\ UNCHANGED <<rows, due>>

(***************************************************************************)
(* The specification                                                       *)
(***************************************************************************)

Request(p) ==
    \/ \E q \in Quotes : \/ Checkout(p, q) \/ OrderRead(p, q) \/ Pay(p, q)
                         \/ PayFails(p, q) \/ ExpireRead(p, q)
                         \/ \E r \in Quotes : Refresh(p, q, r)
    \/ Invalidate(p) \/ OrderCommit(p) \/ PayCaught(p) \/ PayRelease(p)
    \/ \E s \in Sessions : RequoteRead(p, s)
    \/ \E fresh \in SUBSET Quotes, blind \in BOOLEAN : RequoteCommit(p, fresh, blind)
    \/ \E v \in Servers : ObserveRead(p, v)
    \/ \E reachable \in BOOLEAN : ObserveWrite(p, reachable)
    \/ ExpireCommit(p) \/ ExpireThrows(p) \/ Fails(p)

Administrator ==
    \E q \in Quotes : Approve(q) \/ Hold(q) \/ ManualProvision(q) \/ Refund(q)

Cycle ==
    \/ SweepBegin \/ Release \/ DispatchesNothing \/ Claim
    \/ \E q \in Quotes : ExpireRead(Worker, q) \/ SweepSkips(q) \/ Dispatch(q)
                        \/ DispatchThrows(q)
    \/ ExpireCommit(Worker) \/ ExpireThrows(Worker)

Next ==
    \/ \E p \in Requests : Request(p)
    \/ Administrator
    \/ Cycle
    \/ Crash
    \/ \E s \in Sessions : Lapse(s)
    \/ \E v \in Servers : Age(v)

Spec == Init /\ [][Next]_vars

\* The worker is restarted by its supervisor and keeps cycling.  Nothing is
\* assumed of customers, administrators, the provider or time.
FairSpec == Spec /\ WF_vars(Cycle)

(***************************************************************************)
(* Properties                                                              *)
(***************************************************************************)

\* Types of all variables.
TypeOK ==
    /\ session \in [Sessions -> [flow : Flows, rev : Nat, lapsed : BOOLEAN,
                                 revision : Nat, keys : SUBSET (Nat \X Flows)]]
    /\ quote \in [Quotes -> [status : QuoteStatuses, server : Servers \cup {None},
           expiry : [by : {"none", "sweep", "request"}, from : Flows, ordered : BOOLEAN]]]
    /\ due \subseteq Quotes
    /\ order \in [Quotes -> [status : OrderStatuses, flow : Flows, rev : Nat]]
    /\ infra \in [Quotes -> [status : InfraStatuses, flow : Flows, rev : Nat,
                             server : Servers \cup {None}, ahead : SUBSET Quotes]]
    /\ server \in [Servers -> [status : {"AVAILABLE", "RESERVED", "ASSIGNED"},
           quote : Quotes \cup {None}, order : Quotes \cup {None},
           assigned : Quotes \cup {None}, fresh : BOOLEAN]]
    /\ units \in Nat
    /\ balance \in [Customers -> Nat]
    /\ call \in [Callers -> [pc : {"idle", "observing", "refreshing", "requoting", "ordering",
                                  "failed", "releasing", "expiring", "sweep", "sweeping",
                                  "dispatch", "claim"},
           quote : Quotes \cup {None}, session : Sessions \cup {None}, flow : Flows,
           rev : Nat, ordered : BOOLEAN, server : Servers \cup {None}, seen : SUBSET Quotes]]
    /\ todo \subseteq Quotes
    /\ crashes \in 0..MaxCrashes

\* The states an infrastructure order of a paid order can be in.
FlowOf(status) ==
    CASE status \in {"WAITING_ADMIN_FUNDING", "MANUAL_REVIEW"} -> "PAID"
      [] status = "FUNDING_CONFIRMED" -> "PROVISION_APPROVED"
      [] status = "QUEUED" -> "PROVISIONING_SUBMITTED"
      [] status = "PROVISIONING" -> "WAITING_ADMIN_DELIVERY_APPROVAL"
      [] OTHER -> "CANCELLED"

\* However quotings, sibling quotes, expiries and payments interleave, a paid
\* order has an infrastructure order, and session, order and infrastructure order
\* are in one flow state and revision: no later transition of it can be refused.
PaidFlowAgrees ==
    \A q \in Quotes : order[q].status = "PAID" =>
        /\ infra[q].status \notin {"NONE", "REFUNDED"}
        /\ InfraAt(q, FlowOf(infra[q].status)) /\ OrderAt(q, FlowOf(infra[q].status))

\* A quote is CONVERTED exactly when its order was paid, and no order awaits payment
\* in step with its session once its quote has expired: the unconditional writes of
\* checkout and expiry never put a quote at odds with an order that could go on.
\* (An expiry that read no order and commits after one was made, and the session was
\* quoted again, leaves that order AWAITING_PAYMENT, behind its session for good.)
Bought == {q \in Quotes : order[q].status \in {"PAID", "REFUNDED"}}
QuoteMatchesOrder ==
    \A q \in Quotes :
        /\ quote[q].status = "CONVERTED" <=> q \in Bought
        /\ quote[q].status = "EXPIRED" => ~OrderAt(q, "AWAITING_PAYMENT")

\* A ready server is assigned exactly to the queued order that was paid for it, and
\* no two orders were ever paid with one server, whoever's reservation was released,
\* cleared by a late expiry or observed away in between.
ServersSoldOnce ==
    /\ \A v \in Servers, q \in Quotes : server[v].assigned = q <=>
           Stock(q) /\ infra[q].status = "QUEUED" /\ infra[q].server = v
    /\ \A q, r \in Quotes :
           infra[q].server = infra[r].server => q = r \/ infra[q].server = None

\* Purchases keep the promise of PurchaseContract: paid once at the price, one offer
\* of a session, refunded once and in full, manual units taken and given back.
Refunded == {q \in Quotes : order[q].status = "REFUNDED"}
Contract == INSTANCE PurchaseContract WITH
    Limited <- {q \in Quotes : Manual(q)}, bought <- Bought, refunded <- Refunded
ImplementsContract == Contract!Spec

\* A quote whose order awaits payment in a session that has moved on: its expiry
\* is refused, and with it the rest of every cycle.
SweepStuck ==
    \E q \in DueQuotes :
        order[q].flow = "AWAITING_PAYMENT" /\ ~OrderAt(q, "AWAITING_PAYMENT")

\* The oldest approved order's server is not reserved for it any more, or stale.
ServerGone(r) == Oldest(r) /\ Stock(r) /\ ~Deliverable(r)

\* The worker reaches the job queue again and again, unless the sweep is stuck or
\* the oldest approved order's server is gone.
JobsAreReached ==
    []<>(WorkerAt("claim") \/ SweepStuck \/ \E r \in Quotes : ServerGone(r))

\* What the documentation promises: a successful debit assigns the reserved server
\* to the order, so until it is refunded a paid stock order has its server.
PaidKeepsItsServer ==
    \A q \in Quotes : Stock(q) /\ order[q].status = "PAID" =>
        server[infra[q].server].order = q
=============================================================================
