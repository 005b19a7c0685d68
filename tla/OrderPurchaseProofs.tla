-------------------------- MODULE OrderPurchaseProofs --------------------------
(***************************************************************************)
(* Types of purchases, that the rows of a paid order agree, that a server  *)
(* is sold once, that a quote agrees with its order, and that purchases    *)
(* implement PurchaseContract, for any number of sessions, quotes,         *)
(* customers, servers and requests.                                        *)
(*                                                                         *)
(* The argument is the session.  A payment starts where the session awaits *)
(* payment and leaves it in a state that only the paid order's own steps   *)
(* leave again: no quoting, order or expiry starts from such a state.  So  *)
(* of a session's orders at most one is ever paid, and what a request read *)
(* before the payment cannot be written after it.                          *)
(***************************************************************************)
EXTENDS OrderPurchase, TLAPS

\* The rows of TypeOK.
SessionRows == [flow : Flows, rev : Nat, lapsed : BOOLEAN, revision : Nat,
                keys : SUBSET (Nat \X Flows)]
QuoteRows == [status : QuoteStatuses, server : Servers \cup {None},
    expiry : [by : {"none", "sweep", "request"}, from : Flows, ordered : BOOLEAN]]
OrderRows == [status : OrderStatuses, flow : Flows, rev : Nat]
InfraRows == [status : InfraStatuses, flow : Flows, rev : Nat,
              server : Servers \cup {None}, ahead : SUBSET Quotes]
ServerRows == [status : {"AVAILABLE", "RESERVED", "ASSIGNED"},
    quote : Quotes \cup {None}, order : Quotes \cup {None},
    assigned : Quotes \cup {None}, fresh : BOOLEAN]
Places == {"idle", "observing", "refreshing", "requoting", "ordering", "failed", "releasing",
           "expiring", "sweep", "sweeping", "dispatch", "claim"}
CallRows == [pc : Places, quote : Quotes \cup {None}, session : Sessions \cup {None},
    flow : Flows, rev : Nat, ordered : BOOLEAN, server : Servers \cup {None},
    seen : SUBSET Quotes]

\* What a request carries from its read to its write.
Calls ==
    \A p \in Callers :
        /\ call[p].pc \in {"ordering", "expiring"} => call[p].quote \in Quotes
        /\ call[p].pc = "requoting" => call[p].flow \in Requotable

\* The states a session is in once one of its orders was paid.
After == {"PAID", "PROVISION_APPROVED", "PROVISIONING_SUBMITTED",
          "WAITING_ADMIN_DELIVERY_APPROVAL", "CANCELLED"}

\* The session of an order that was paid is in such a state, and of no other one.
Paid ==
    /\ PaidFlowAgrees
    /\ \A q \in Bought : session[SessionOf[q]].flow \in After
    /\ \A q, r \in Bought : SessionOf[q] = SessionOf[r] => q = r
    /\ \A q \in Quotes : infra[q].status \notin {"NONE", "REFUNDED"} => order[q].status = "PAID"

IInv == TypeOK /\ Calls /\ Paid

(***************************************************************************)
(* Rows                                                                    *)
(***************************************************************************)

LEMMA Updated ==
    ASSUME NEW S, NEW T, NEW f \in [S -> T], NEW x, NEW y, x \in S => y \in T
    PROVE  [f EXCEPT ![x] = y] \in [S -> T]
OBVIOUS

LEMMA MovedSession ==
    ASSUME NEW row \in SessionRows, NEW to \in Flows, NEW n \in Nat
    PROVE  /\ Moved(row, to, n) \in SessionRows
           /\ Moved(row, to, n).flow = to
           /\ Moved(row, to, n).rev = row.rev + n
<1> DEFINE one == [row EXCEPT !.flow = to]
           m == row.rev + n
<1>1. one \in SessionRows /\ one.flow = to
  BY DEF SessionRows
<1>2. m \in Nat
  BY DEF SessionRows
<1>3. Moved(row, to, n) = [one EXCEPT !.rev = m]
  BY DEF Moved
<1> HIDE DEF one, m
<1>4. [one EXCEPT !.rev = m] \in SessionRows
  BY <1>1, <1>2 DEF SessionRows
<1>5. /\ [one EXCEPT !.rev = m].rev = m
      /\ [one EXCEPT !.rev = m].flow = one.flow
  BY <1>1 DEF SessionRows
<1> QED BY <1>1, <1>3, <1>4, <1>5 DEF m

LEMMA MovedOrder ==
    ASSUME NEW row \in OrderRows, NEW to \in Flows, NEW n \in Nat
    PROVE  /\ Moved(row, to, n) \in OrderRows
           /\ Moved(row, to, n).flow = to
           /\ Moved(row, to, n).rev = row.rev + n
           /\ Moved(row, to, n).status = row.status
<1> DEFINE one == [row EXCEPT !.flow = to]
           m == row.rev + n
<1>1. one \in OrderRows /\ one.flow = to /\ one.status = row.status
  BY DEF OrderRows
<1>2. m \in Nat
  BY DEF OrderRows
<1>3. Moved(row, to, n) = [one EXCEPT !.rev = m]
  BY DEF Moved
<1> HIDE DEF one, m
<1>4. [one EXCEPT !.rev = m] \in OrderRows
  BY <1>1, <1>2 DEF OrderRows
<1>5. /\ [one EXCEPT !.rev = m].rev = m
      /\ [one EXCEPT !.rev = m].flow = one.flow
      /\ [one EXCEPT !.rev = m].status = one.status
  BY <1>1 DEF OrderRows
<1> QED BY <1>1, <1>3, <1>4, <1>5 DEF m

LEMMA MovedInfra ==
    ASSUME NEW row \in InfraRows, NEW to \in Flows, NEW n \in Nat
    PROVE  /\ Moved(row, to, n) \in InfraRows
           /\ Moved(row, to, n).flow = to
           /\ Moved(row, to, n).rev = row.rev + n
           /\ Moved(row, to, n).status = row.status
<1> DEFINE one == [row EXCEPT !.flow = to]
           m == row.rev + n
<1>1. one \in InfraRows /\ one.flow = to /\ one.status = row.status
  BY DEF InfraRows
<1>2. m \in Nat
  BY DEF InfraRows
<1>3. Moved(row, to, n) = [one EXCEPT !.rev = m]
  BY DEF Moved
<1> HIDE DEF one, m
<1>4. [one EXCEPT !.rev = m] \in InfraRows
  BY <1>1, <1>2 DEF InfraRows
<1>5. /\ [one EXCEPT !.rev = m].rev = m
      /\ [one EXCEPT !.rev = m].flow = one.flow
      /\ [one EXCEPT !.rev = m].status = one.status
  BY <1>1 DEF InfraRows
<1> QED BY <1>1, <1>3, <1>4, <1>5 DEF m

LEMMA IdleType == ASSUME NEW pc \in Places PROVE Idle(pc) \in CallRows
BY DEF Idle, CallRows, Flows

LEMMA FreedType ==
    ASSUME NEW v \in Servers, server[v] \in ServerRows PROVE Freed(v) \in ServerRows
BY DEF Freed, ServerRows

LEMMA AfterReleaseType ==
    ASSUME server \in [Servers -> ServerRows] PROVE AfterRelease \in [Servers -> ServerRows]
BY FreedType DEF AfterRelease

LEMMA Typed ==
    TypeOK <=> /\ session \in [Sessions -> SessionRows]
               /\ quote \in [Quotes -> QuoteRows]
               /\ due \subseteq Quotes
               /\ order \in [Quotes -> OrderRows]
               /\ infra \in [Quotes -> InfraRows]
               /\ server \in [Servers -> ServerRows]
               /\ units \in Nat
               /\ balance \in [Customers -> Nat]
               /\ call \in [Callers -> CallRows]
               /\ todo \subseteq Quotes
               /\ crashes \in 0..MaxCrashes
BY DEF TypeOK, SessionRows, QuoteRows, OrderRows, InfraRows, ServerRows, CallRows, Places

LEMMA MarkedInfra ==
    ASSUME NEW row \in InfraRows, NEW status \in InfraStatuses
    PROVE  /\ [row EXCEPT !.status = status] \in InfraRows
           /\ [row EXCEPT !.status = status].status = status
           /\ [row EXCEPT !.status = status].flow = row.flow
           /\ [row EXCEPT !.status = status].rev = row.rev
BY DEF InfraRows

LEMMA MarkedOrder ==
    ASSUME NEW row \in OrderRows, NEW status \in OrderStatuses
    PROVE  /\ [row EXCEPT !.status = status] \in OrderRows
           /\ [row EXCEPT !.status = status].status = status
           /\ [row EXCEPT !.status = status].flow = row.flow
           /\ [row EXCEPT !.status = status].rev = row.rev
BY DEF OrderRows

LEMMA MarkedQuote ==
    ASSUME NEW row \in QuoteRows, NEW status \in QuoteStatuses
    PROVE  [row EXCEPT !.status = status] \in QuoteRows
BY DEF QuoteRows

LEMMA QuotingCall ==
    ASSUME NEW s \in Sessions, NEW f \in Flows, NEW n \in Nat, NEW q \in SUBSET Quotes
    PROVE  [Idle("requoting") EXCEPT !.session = s, !.flow = f, !.rev = n, !.seen = q]
             \in CallRows
BY DEF Idle, CallRows, Places

LEMMA OrderingCall ==
    ASSUME NEW q \in Quotes, NEW n \in Nat
    PROVE  [Idle("ordering") EXCEPT !.quote = q, !.rev = n] \in CallRows
BY DEF Idle, CallRows, Places, Flows

LEMMA ExpiringCall ==
    ASSUME NEW q \in Quotes, NEW v \in Servers \cup {None}, NEW o \in BOOLEAN, NEW f \in Flows
    PROVE  [Idle("expiring") EXCEPT !.quote = q, !.server = v, !.ordered = o, !.flow = f]
             \in CallRows
BY DEF Idle, CallRows, Places

LEMMA TypedNext ==
    ASSUME /\ session' \in [Sessions -> SessionRows]
           /\ quote' \in [Quotes -> QuoteRows]
           /\ due' \subseteq Quotes
           /\ order' \in [Quotes -> OrderRows]
           /\ infra' \in [Quotes -> InfraRows]
           /\ server' \in [Servers -> ServerRows]
           /\ units' \in Nat
           /\ balance' \in [Customers -> Nat]
           /\ call' \in [Callers -> CallRows]
           /\ todo' \subseteq Quotes
           /\ crashes' \in 0..MaxCrashes
    PROVE  TypeOK'
BY DEF TypeOK, SessionRows, QuoteRows, OrderRows, InfraRows, ServerRows, CallRows, Places

\* A step that changes no row.
LEMMA CallTypes ==
    ASSUME TypeOK, UNCHANGED <<rows, due>>, call' \in [Callers -> CallRows],
           todo' \subseteq Quotes, crashes' \in 0..MaxCrashes
    PROVE  TypeOK'
BY Typed, TypedNext DEF rows, books

\* A step that changes a server and a call at most.
LEMMA ServerTypes ==
    ASSUME TypeOK, UNCHANGED <<session, quote, books, due, todo, crashes>>,
           server' \in [Servers -> ServerRows], call' \in [Callers -> CallRows]
    PROVE  TypeOK'
BY Typed, TypedNext DEF books

LEMMA IdleCalls ==
    ASSUME TypeOK, NEW p, NEW pc \in Places, call' = [call EXCEPT ![p] = Idle(pc)]
    PROVE  call' \in [Callers -> CallRows]
BY Typed, IdleType

LEMMA GoesTypes ==
    ASSUME TypeOK, NEW pc \in Places, Goes(pc) PROVE call' \in [Callers -> CallRows]
BY IdleCalls DEF Goes

(***************************************************************************)
(* Types                                                                   *)
(***************************************************************************)

LEMMA ReadTypes ==
    ASSUME TypeOK, NEW p \in Callers,
           \/ \E v \in Servers : ObserveRead(p, v)
           \/ \E s \in Sessions : RequoteRead(p, s)
           \/ \E q \in Quotes : OrderRead(p, q) \/ PayFails(p, q) \/ ExpireRead(p, q)
           \/ PayCaught(p) \/ ExpireThrows(p) \/ Fails(p)
    PROVE  TypeOK'
<1>1. ASSUME NEW v \in Servers, ObserveRead(p, v) PROVE TypeOK'
  <2>1. [Idle("observing") EXCEPT !.server = v] \in CallRows
    BY DEF Idle, CallRows, Places, Flows
  <2> QED BY <1>1, <2>1, CallTypes, Typed DEF ObserveRead
<1>2. ASSUME NEW s \in Sessions, RequoteRead(p, s) PROVE TypeOK'
  <2>1. session[s].flow \in Flows /\ session[s].revision \in Nat
    BY Typed DEF SessionRows
  <2>2. {x \in QuotesOf(s) : quote[x].status \in Live} \in SUBSET Quotes
    BY DEF QuotesOf
  <2> QED BY <1>2, <2>1, <2>2, QuotingCall, CallTypes, Typed DEF RequoteRead
<1>3. ASSUME NEW q \in Quotes, OrderRead(p, q) PROVE TypeOK'
  <2>1. session[SessionOf[q]].rev \in Nat
    BY Typed, ConstantsAssumption DEF SessionRows
  <2> QED BY <1>3, <2>1, OrderingCall, CallTypes, Typed DEF OrderRead
<1>4. ASSUME NEW q \in Quotes, PayFails(p, q) PROVE TypeOK'
  <2>1. [Idle("failed") EXCEPT !.quote = q] \in CallRows
    BY DEF Idle, CallRows, Places, Flows
  <2> QED BY <1>4, <2>1, CallTypes, Typed DEF PayFails
<1>5. CASE PayCaught(p)
  <2>1. [call[p] EXCEPT !.pc = "releasing"] \in CallRows
    BY Typed DEF CallRows, Places
  <2>2. Idle("idle") \in CallRows
    BY IdleType DEF Places
  <2> QED BY <1>5, <2>1, <2>2, CallTypes, Typed DEF PayCaught
<1>6. ASSUME NEW q \in Quotes, ExpireRead(p, q) PROVE TypeOK'
  <2>1. order[q].flow \in Flows /\ session[SessionOf[q]].flow \in Flows
    BY Typed, ConstantsAssumption DEF SessionRows, OrderRows
  <2>2. PICK v1 \in Servers \cup {None}, o \in BOOLEAN, f \in Flows :
            call' = [call EXCEPT ![p] = [Idle("expiring") EXCEPT
                !.quote = q, !.server = v1, !.ordered = o, !.flow = f]]
    BY <1>6, <2>1 DEF ExpireRead
  <2> QED BY <1>6, <2>2, ExpiringCall, CallTypes, Typed DEF ExpireRead
<1>7. CASE ExpireThrows(p)
  BY <1>7, IdleCalls, CallTypes, Typed DEF ExpireThrows, Places
<1>8. CASE Fails(p)
  BY <1>8, IdleCalls, CallTypes, Typed DEF Fails, Places
<1> QED BY <1>1, <1>2, <1>3, <1>4, <1>5, <1>6, <1>7, <1>8

LEMMA CycleTypes ==
    ASSUME TypeOK,
           \/ SweepBegin \/ Release \/ DispatchesNothing \/ Claim \/ Crash
           \/ \E q \in Quotes : SweepSkips(q) \/ DispatchThrows(q)
    PROVE  TypeOK'
<1>1. CASE SweepBegin
  BY <1>1, GoesTypes, CallTypes, Typed DEF SweepBegin, DueQuotes, Places
<1>2. ASSUME NEW q \in Quotes, SweepSkips(q) PROVE TypeOK'
  BY <1>2, CallTypes, Typed DEF SweepSkips
<1>3. CASE DispatchesNothing
  BY <1>3, GoesTypes, CallTypes, Typed DEF DispatchesNothing, Places
<1>4. ASSUME NEW q \in Quotes, DispatchThrows(q) PROVE TypeOK'
  BY <1>4, GoesTypes, CallTypes, Typed DEF DispatchThrows, Places
<1>5. CASE Claim
  BY <1>5, GoesTypes, CallTypes, Typed DEF Claim, Places
<1>6. CASE Crash
  <2>1. crashes' \in 0..MaxCrashes
    BY <1>6, Typed, ConstantsAssumption DEF Crash
  <2> QED BY <1>6, <2>1, GoesTypes, CallTypes, Typed DEF Crash, Places
<1>7. CASE Release
  BY <1>7, GoesTypes, ServerTypes, AfterReleaseType, Typed DEF Release, Places
<1> QED BY <1>1, <1>2, <1>3, <1>4, <1>5, <1>6, <1>7

LEMMA ServerStepTypes ==
    ASSUME TypeOK, NEW p \in Callers,
           \/ \E v \in Servers : Age(v)
           \/ \E reachable \in BOOLEAN : ObserveWrite(p, reachable)
           \/ \E s \in Sessions : Lapse(s)
           \/ PayRelease(p) \/ Invalidate(p)
    PROVE  TypeOK'
<1>1. ASSUME NEW v \in Servers, Age(v) PROVE TypeOK'
  <2>1. [server[v] EXCEPT !.fresh = FALSE] \in ServerRows
    BY Typed DEF ServerRows
  <2> QED BY <1>1, <2>1, ServerTypes, Typed DEF Age
<1>2. CASE \E reachable \in BOOLEAN : ObserveWrite(p, reachable)
  <2>1. PICK reachable \in BOOLEAN : ObserveWrite(p, reachable)
    BY <1>2
  <2>2. ASSUME NEW x \in Servers
        PROVE  [server[x] EXCEPT !.status = "AVAILABLE", !.fresh = reachable] \in ServerRows
    <3>1. [server[x] EXCEPT !.status = "AVAILABLE"] \in ServerRows
      BY Typed DEF ServerRows
    <3>2. [[server[x] EXCEPT !.status = "AVAILABLE"] EXCEPT !.fresh = reachable] \in ServerRows
      BY <3>1 DEF ServerRows
    <3> QED BY <3>2
  <2>3. server' \in [Servers -> ServerRows]
    BY <2>1, <2>2, Updated, Typed DEF ObserveWrite
  <2> QED BY <2>1, <2>3, IdleCalls, ServerTypes DEF ObserveWrite, Places
<1>3. CASE PayRelease(p)
  <2>1. server' \in [Servers -> ServerRows]
    BY <1>3, FreedType, Typed DEF PayRelease
  <2> QED BY <1>3, <2>1, IdleCalls, ServerTypes DEF PayRelease, Places
<1>4. ASSUME NEW s \in Sessions, Lapse(s) PROVE TypeOK'
  <2>1. [session[s] EXCEPT !.lapsed = TRUE] \in SessionRows
    BY Typed DEF SessionRows
  <2>2. session' \in [Sessions -> SessionRows]
    BY <1>4, <2>1, Typed DEF Lapse
  <2> QED BY <1>4, <2>2, Typed, TypedNext DEF Lapse, QuotesOf, books
<1>5. CASE Invalidate(p)
  <2>1. ASSUME NEW x \in Quotes
        PROVE  [quote[x] EXCEPT !.status = IF @ \in Live THEN "INVALIDATED" ELSE @]
                 \in QuoteRows
    BY Typed DEF QuoteRows, QuoteStatuses
  <2>2. quote' \in [Quotes -> QuoteRows]
    BY <1>5, <2>1, Updated, Typed DEF Invalidate
  <2>3. call' \in [Callers -> CallRows]
    BY <1>5, IdleCalls DEF Invalidate, Places
  <2> QED BY <1>5, <2>2, <2>3, Typed, TypedNext DEF Invalidate, books
<1> QED BY <1>1, <1>2, <1>3, <1>4, <1>5

LEMMA IssueTypes ==
    ASSUME TypeOK, NEW q \in Quotes, Issue(q)
    PROVE  /\ session' \in [Sessions -> SessionRows]
           /\ quote' \in [Quotes -> QuoteRows]
           /\ server' \in [Servers -> ServerRows]
<1>1. session' \in [Sessions -> SessionRows]
  <2>1. Moved(session[SessionOf[q]], "QUOTED", Bootstrap) \in SessionRows
    BY MovedSession, Typed, ConstantsAssumption DEF Flows, Bootstrap
  <2> QED BY <2>1, Updated, Typed DEF Issue
<1>2. ASSUME NEW v \in Servers \cup {None}
      PROVE  [quote[q] EXCEPT !.status = "ACTIVE", !.server = v] \in QuoteRows
  <2>1. [quote[q] EXCEPT !.status = "ACTIVE"] \in QuoteRows
    BY MarkedQuote, Typed DEF QuoteStatuses
  <2>2. [[quote[q] EXCEPT !.status = "ACTIVE"] EXCEPT !.server = v] \in QuoteRows
    BY <2>1 DEF QuoteRows
  <2> QED BY <2>2
<1>3. ASSUME NEW v \in Servers
      PROVE  [AfterRelease[v] EXCEPT !.status = "RESERVED", !.quote = q] \in ServerRows
  <2>1. AfterRelease[v] \in ServerRows
    BY AfterReleaseType, Typed
  <2>2. [AfterRelease[v] EXCEPT !.status = "RESERVED"] \in ServerRows
    BY <2>1 DEF ServerRows
  <2>3. [[AfterRelease[v] EXCEPT !.status = "RESERVED"] EXCEPT !.quote = q] \in ServerRows
    BY <2>2 DEF ServerRows
  <2> QED BY <2>3
<1>4. CASE ~Stock(q)
  <2>1. [quote[q] EXCEPT !.status = "ACTIVE"] \in QuoteRows
    BY MarkedQuote, Typed DEF QuoteStatuses
  <2>2. quote' = [quote EXCEPT ![q].status = "ACTIVE"] /\ server' = server
    BY <1>4 DEF Issue
  <2> QED BY <1>1, <2>1, <2>2, Updated, Typed
<1>5. CASE Stock(q)
  <2>1. PICK v \in Servers :
          /\ quote' = [quote EXCEPT ![q] = [@ EXCEPT !.status = "ACTIVE", !.server = v]]
          /\ server' = [AfterRelease EXCEPT ![v] = [@ EXCEPT !.status = "RESERVED", !.quote = q]]
    BY <1>5 DEF Issue
  <2>2. quote' \in [Quotes -> QuoteRows]
    BY <2>1, <1>2, Updated, Typed
  <2>3. AfterRelease \in [Servers -> ServerRows]
    BY AfterReleaseType, Typed
  <2>4. server' \in [Servers -> ServerRows]
    BY <2>1, <1>3, <2>3, Updated
  <2> QED BY <1>1, <2>2, <2>4
<1> QED BY <1>4, <1>5

LEMMA IssuingTypes ==
    ASSUME TypeOK, NEW p \in Callers, NEW q \in Quotes, NEW r \in Quotes,
           Checkout(p, q) \/ Refresh(p, q, r)
    PROVE  TypeOK'
<1>1. CASE Checkout(p, q)
  BY <1>1, IssueTypes, Typed, TypedNext DEF Checkout, books
<1>2. CASE Refresh(p, q, r)
  <2>1. [Idle("refreshing") EXCEPT !.quote = r] \in CallRows
    BY DEF Idle, CallRows, Places, Flows
  <2>2. call' \in [Callers -> CallRows]
    BY <1>2, <2>1, Updated, Typed DEF Refresh
  <2> QED BY <1>2, <2>2, IssueTypes, Typed, TypedNext DEF Refresh, books
<1> QED BY <1>1, <1>2

LEMMA RequoteTypes ==
    ASSUME TypeOK, NEW p \in Callers, NEW fresh \in SUBSET Quotes, NEW blind \in BOOLEAN,
           RequoteCommit(p, fresh, blind)
    PROVE  TypeOK'
<1> DEFINE s == call[p].session
           key == <<call[p].rev, call[p].flow>>
           row == [session[s] EXCEPT !.lapsed = FALSE, !.revision = @ + 1, !.keys = @ \cup {key}]
           steps == IF call[p].flow = "DELIVERY_CONFIGURED" THEN 1 ELSE 2
<1>1. ASSUME s \in Sessions PROVE row \in SessionRows
  <2>1. session[s] \in SessionRows /\ key \in Nat \X Flows
    BY <1>1, Typed DEF CallRows
  <2> DEFINE one == [session[s] EXCEPT !.lapsed = FALSE]
             n == session[s].revision + 1
             two == [one EXCEPT !.revision = n]
             k == session[s].keys \cup {key}
  <2>2. one \in SessionRows
    BY <2>1 DEF SessionRows
  <2>3. n \in Nat /\ k \in SUBSET (Nat \X Flows)
    BY <2>1 DEF SessionRows
  <2>4. row = [two EXCEPT !.keys = k]
    BY <2>1 DEF SessionRows
  <2> HIDE DEF one, n, k
  <2>5. two \in SessionRows
    BY <2>2, <2>3 DEF SessionRows
  <2> HIDE DEF two
  <2>6. [two EXCEPT !.keys = k] \in SessionRows
    BY <2>3, <2>5 DEF SessionRows
  <2> HIDE DEF row
  <2> QED BY <2>4, <2>6
<1>2. \/ session' = [session EXCEPT ![s] = row]
      \/ session' = [session EXCEPT ![s] = Moved(row, "QUOTED", steps)]
  BY DEF RequoteCommit
<1> HIDE DEF row
<1>3. ASSUME s \in Sessions PROVE Moved(row, "QUOTED", steps) \in SessionRows
  BY <1>1, <1>3, MovedSession DEF Flows
<1>4. session' \in [Sessions -> SessionRows]
  <2>1. CASE session' = [session EXCEPT ![s] = row]
    BY <2>1, <1>1, Updated, Typed
  <2>2. CASE session' = [session EXCEPT ![s] = Moved(row, "QUOTED", steps)]
    BY <2>2, <1>3, Updated, Typed
  <2> QED BY <1>2, <2>1, <2>2
<1>5. ASSUME NEW q \in Quotes
      PROVE  /\ [quote[q] EXCEPT !.status = "ACTIVE"] \in QuoteRows
             /\ [quote[q] EXCEPT !.status = "INVALIDATED"] \in QuoteRows
             /\ quote[q] \in QuoteRows
  BY MarkedQuote, Typed DEF QuoteStatuses
<1>6. quote' \in [Quotes -> QuoteRows]
  BY <1>5 DEF RequoteCommit
<1>7. call' \in [Callers -> CallRows]
  BY IdleCalls DEF RequoteCommit, Places
<1>8. UNCHANGED <<books, server, due, todo, crashes>>
  BY DEF RequoteCommit
<1> QED BY <1>4, <1>6, <1>7, <1>8, Typed, TypedNext DEF books

LEMMA OrderCommitTypes ==
    ASSUME TypeOK, NEW p \in Callers, OrderCommit(p)
    PROVE  TypeOK'
<1> DEFINE q == call[p].quote
           s == SessionOf[q]
           v == quote[q].server
<1>1. call[p].rev + 1 \in Nat
  BY Typed DEF CallRows
<1>2. [status |-> "PENDING_PAYMENT", flow |-> "AWAITING_PAYMENT", rev |-> call[p].rev + 1]
        \in OrderRows
  BY <1>1 DEF OrderRows, OrderStatuses, Flows
<1>3. order' \in [Quotes -> OrderRows]
  BY <1>2, Updated, Typed DEF OrderCommit
<1>4. ASSUME NEW t \in Sessions PROVE Moved(session[t], "AWAITING_PAYMENT", 1) \in SessionRows
  <2>1. session[t] \in SessionRows /\ "AWAITING_PAYMENT" \in Flows /\ 1 \in Nat
    BY Typed DEF Flows
  <2> QED BY <2>1, MovedSession
<1>5. session' \in [Sessions -> SessionRows]
  <2>1. session' = [session EXCEPT ![s] = Moved(session[s], "AWAITING_PAYMENT", 1)]
    BY DEF OrderCommit
  <2> HIDE DEF s
  <2> QED BY <1>4, <2>1, Updated, Typed
<1>6. ASSUME q \in Quotes PROVE [quote[q] EXCEPT !.status = "SELECTED"] \in QuoteRows
  BY <1>6, MarkedQuote, Typed DEF QuoteStatuses
<1>7. quote' \in [Quotes -> QuoteRows]
  BY <1>6, Updated, Typed DEF OrderCommit
<1>8. server' \in [Servers -> ServerRows]
  <2>1. CASE ~Stock(q)
    BY <2>1, Typed DEF OrderCommit
  <2>2. CASE Stock(q)
    <3>1. server' = [server EXCEPT ![v] = [server[v] EXCEPT !.order = q]]
      BY <2>2 DEF OrderCommit
    <3>2. q \in Quotes \cup {None}
      BY Typed DEF CallRows
    <3>3. v \in Servers => [server[v] EXCEPT !.order = q] \in ServerRows
      BY <3>2, Typed DEF ServerRows
    <3> HIDE DEF v
    <3> QED BY <3>1, <3>3, Updated, Typed
  <2> QED BY <2>1, <2>2
<1>9. call' \in [Callers -> CallRows]
  BY IdleCalls DEF OrderCommit, Places
<1>10. UNCHANGED <<due, infra, units, balance, todo, crashes>>
  BY DEF OrderCommit
<1> QED BY <1>3, <1>5, <1>7, <1>8, <1>9, <1>10, Typed, TypedNext

LEMMA PaidInfra ==
    ASSUME NEW row \in InfraRows, NEW flow \in Flows, NEW rev \in Nat,
           NEW v \in Servers \cup {None}
    PROVE  [row EXCEPT !.status = "WAITING_ADMIN_FUNDING", !.flow = flow,
                       !.rev = rev, !.server = v] \in InfraRows
BY DEF InfraRows, InfraStatuses

LEMMA PayTypes ==
    ASSUME TypeOK, NEW p \in Callers, NEW q \in Quotes, Pay(p, q)
    PROVE  TypeOK'
<1> DEFINE s == SessionOf[q]
           to == Moved(order[q], "PAID", 1)
           cost == balance[OwnerOf[s]] - Price[q]
<1>1. s \in Sessions /\ OwnerOf[s] \in Customers /\ Price[q] \in Nat
  BY ConstantsAssumption
<1>2. to \in OrderRows
  <2>1. order[q] \in OrderRows /\ "PAID" \in Flows /\ 1 \in Nat
    BY Typed DEF Flows
  <2> QED BY <2>1, MovedOrder
<1>3. to.flow \in Flows /\ to.rev \in Nat
  <2> HIDE DEF to
  <2> QED BY <1>2 DEF OrderRows
<1>4. order' = [order EXCEPT ![q] = [to EXCEPT !.status = "PAID"]]
  BY DEF Pay
<1>5. order' \in [Quotes -> OrderRows]
  <2> HIDE DEF to
  <2>1. [to EXCEPT !.status = "PAID"] \in OrderRows
    BY <1>2, MarkedOrder DEF OrderStatuses
  <2> QED BY <1>4, <2>1, Updated, Typed
<1>6. infra' = [infra EXCEPT ![q] = [infra[q] EXCEPT !.status = "WAITING_ADMIN_FUNDING",
          !.flow = to.flow, !.rev = to.rev, !.server = quote[q].server]]
  BY DEF Pay
<1>7. infra' \in [Quotes -> InfraRows]
  <2>1. quote[q].server \in Servers \cup {None} /\ infra[q] \in InfraRows
    BY Typed DEF QuoteRows
  <2> DEFINE row == [infra[q] EXCEPT !.status = "WAITING_ADMIN_FUNDING",
                 !.flow = to.flow, !.rev = to.rev, !.server = quote[q].server]
  <2> HIDE DEF to
  <2>2. row \in InfraRows
    BY <1>3, <2>1, PaidInfra
  <2> HIDE DEF row
  <2>3. infra' = [infra EXCEPT ![q] = row]
    BY <1>6 DEF row
  <2> QED BY <2>2, <2>3, Updated, Typed
<1>8. session' \in [Sessions -> SessionRows]
  <2>1. session[s] \in SessionRows /\ "PAID" \in Flows /\ 1 \in Nat
    BY <1>1, Typed DEF Flows
  <2>2. session' = [session EXCEPT ![s] = Moved(session[s], "PAID", 1)]
    BY DEF Pay
  <2> HIDE DEF s
  <2> QED BY <2>1, <2>2, MovedSession, Updated, Typed
<1>9. quote' \in [Quotes -> QuoteRows]
  <2>1. [quote[q] EXCEPT !.status = "CONVERTED"] \in QuoteRows
    BY MarkedQuote, Typed DEF QuoteStatuses
  <2>2. quote' = [quote EXCEPT ![q] = [quote[q] EXCEPT !.status = "CONVERTED"]]
    BY DEF Pay
  <2> QED BY <2>1, <2>2, Updated, Typed
<1>10. balance' \in [Customers -> Nat]
  <2>1. balance[OwnerOf[s]] \in Nat /\ balance[OwnerOf[s]] >= Price[q]
    BY <1>1, Typed DEF Pay, Payable
  <2>2. cost \in Nat
    BY <1>1, <2>1
  <2>3. balance' = [balance EXCEPT ![OwnerOf[s]] = cost]
    BY DEF Pay
  <2> HIDE DEF cost, s
  <2> QED BY <2>2, <2>3, Updated, Typed
<1>11. units' \in Nat
  BY Typed DEF Pay, Payable
<1>12. UNCHANGED <<server, due, call, todo, crashes>>
  BY DEF Pay
<1> QED BY <1>5, <1>7, <1>8, <1>9, <1>10, <1>11, <1>12, Typed, TypedNext

LEMMA ExpireCommitTypes ==
    ASSUME TypeOK, Calls, NEW p \in Callers, ExpireCommit(p)
    PROVE  TypeOK'
<1> DEFINE q == call[p].quote
           s == SessionOf[q]
<1>1. q \in Quotes
  BY DEF ExpireCommit, Calls
<1>2. s \in Sessions /\ "QUOTE_EXPIRED" \in Flows /\ 1 \in Nat
  BY <1>1, ConstantsAssumption DEF Flows
<1>3. session' \in [Sessions -> SessionRows]
  <2>1. Moved(session[s], "QUOTE_EXPIRED", 1) \in SessionRows
    BY <1>2, MovedSession, Typed
  <2>2. session' = session
        \/ session' = [session EXCEPT ![s] = Moved(session[s], "QUOTE_EXPIRED", 1)]
    BY DEF ExpireCommit
  <2> HIDE DEF s
  <2> QED BY <2>1, <2>2, Updated, Typed
<1>4. order' \in [Quotes -> OrderRows]
  <2>1. Moved(order[q], "QUOTE_EXPIRED", 1) \in OrderRows
    BY <1>1, <1>2, MovedOrder, Typed
  <2>2. order' = order \/ order' = [order EXCEPT ![q] = Moved(order[q], "QUOTE_EXPIRED", 1)]
    BY DEF ExpireCommit
  <2> HIDE DEF q
  <2> QED BY <2>1, <2>2, Updated, Typed
<1>5. ExpiryOf(p) \in [by : {"none", "sweep", "request"}, from : Flows, ordered : BOOLEAN]
  BY Typed DEF ExpiryOf, CallRows
<1>6. quote' \in [Quotes -> QuoteRows]
  <2> DEFINE e == IF ExpiryMoves(p) THEN ExpiryOf(p)
                  ELSE quote[q].expiry
  <2>1. e \in [by : {"none", "sweep", "request"}, from : Flows, ordered : BOOLEAN]
    BY <1>1, <1>5, Typed DEF QuoteRows
  <2>2. quote' = [quote EXCEPT ![q] = [quote[q] EXCEPT !.status = "EXPIRED", !.expiry = e]]
    BY DEF ExpireCommit
  <2> HIDE DEF e, q
  <2>3. quote[q] \in QuoteRows
    BY <1>1, Typed
  <2>4. [quote[q] EXCEPT !.status = "EXPIRED", !.expiry = e] \in QuoteRows
    BY <2>1, <2>3 DEF QuoteRows, QuoteStatuses
  <2> QED BY <2>2, <2>4, Updated, Typed
<1>7. server' \in [Servers -> ServerRows]
  BY FreedType, Typed DEF ExpireCommit
<1>8. call' \in [Callers -> CallRows]
  BY IdleCalls DEF ExpireCommit, AfterExpiry, Places
<1>9. UNCHANGED <<infra, units, balance, due, crashes>> /\ todo' \subseteq Quotes
  BY Typed DEF ExpireCommit
<1> QED BY <1>3, <1>4, <1>6, <1>7, <1>8, <1>9, Typed, TypedNext

\* The rows of a move of session, order and infrastructure order.
LEMMA MoveTypes ==
    ASSUME TypeOK, NEW q \in Quotes, NEW to \in Flows, NEW n \in Nat, NEW s \in Sessions,
           NEW o \in OrderStatuses, NEW i \in InfraStatuses, NEW a \in SUBSET Quotes
    PROVE  /\ [session EXCEPT ![s] = Moved(session[s], to, n)] \in [Sessions -> SessionRows]
           /\ [order EXCEPT ![q] = Moved(order[q], to, n)] \in [Quotes -> OrderRows]
           /\ [order EXCEPT ![q] = Moved([order[q] EXCEPT !.status = o], to, n)]
                \in [Quotes -> OrderRows]
           /\ [infra EXCEPT ![q] = Moved([infra[q] EXCEPT !.status = i], to, n)]
                \in [Quotes -> InfraRows]
           /\ [infra EXCEPT ![q] = Moved([infra[q] EXCEPT !.status = i, !.ahead = a], to, n)]
                \in [Quotes -> InfraRows]
<1>1. session[s] \in SessionRows /\ order[q] \in OrderRows /\ infra[q] \in InfraRows
  BY Typed
<1>2. [order[q] EXCEPT !.status = o] \in OrderRows
  BY <1>1, MarkedOrder
<1>3. [infra[q] EXCEPT !.status = i] \in InfraRows
  BY <1>1, MarkedInfra
<1>4. [infra[q] EXCEPT !.status = i, !.ahead = a] \in InfraRows
  BY <1>1 DEF InfraRows
<1>5. Moved(session[s], to, n) \in SessionRows
  BY <1>1, MovedSession
<1>6. Moved(order[q], to, n) \in OrderRows
  BY <1>1, MovedOrder
<1>7. Moved([order[q] EXCEPT !.status = o], to, n) \in OrderRows
  BY <1>2, MovedOrder
<1>8. Moved([infra[q] EXCEPT !.status = i], to, n) \in InfraRows
  BY <1>3, MovedInfra
<1>9. Moved([infra[q] EXCEPT !.status = i, !.ahead = a], to, n) \in InfraRows
  BY <1>4, MovedInfra
<1>10. QED BY <1>5, <1>6, <1>7, <1>8, <1>9, Updated, Typed

LEMMA AdministratorTypes ==
    ASSUME TypeOK, NEW q \in Quotes,
           Approve(q) \/ Hold(q) \/ ManualProvision(q) \/ Refund(q)
    PROVE  TypeOK'
<1> DEFINE s == SessionOf[q]
<1>1. s \in Sessions /\ OwnerOf[s] \in Customers /\ Price[q] \in Nat
  BY ConstantsAssumption
<1>2. CASE Approve(q)
  <2>1. Approved \in SUBSET Quotes /\ "PROVISION_APPROVED" \in Flows /\ 1 \in Nat
        /\ "FUNDING_CONFIRMED" \in InfraStatuses /\ "PAID" \in OrderStatuses
    BY DEF Approved, Flows, InfraStatuses, OrderStatuses
  <2>2. /\ session' = [session EXCEPT ![s] = Moved(session[s], "PROVISION_APPROVED", 1)]
        /\ order' = [order EXCEPT ![q] = Moved(order[q], "PROVISION_APPROVED", 1)]
        /\ infra' = [infra EXCEPT ![q] = Moved([infra[q] EXCEPT
               !.status = "FUNDING_CONFIRMED", !.ahead = Approved], "PROVISION_APPROVED", 1)]
        /\ UNCHANGED <<quote, due, server, units, balance, call, todo, crashes>>
    BY <1>2 DEF Approve
  <2> HIDE DEF s
  <2>3. session' \in [Sessions -> SessionRows] /\ order' \in [Quotes -> OrderRows]
    BY <1>1, <2>1, <2>2, MoveTypes
  <2>4. infra' \in [Quotes -> InfraRows]
    BY <1>1, <2>1, <2>2, MoveTypes
  <2> QED BY <2>2, <2>3, <2>4, Typed, TypedNext
<1>3. CASE Hold(q)
  <2>1. [infra[q] EXCEPT !.status = "MANUAL_REVIEW"] \in InfraRows
    BY MarkedInfra, Typed DEF InfraStatuses
  <2>2. infra' = [infra EXCEPT ![q] = [infra[q] EXCEPT !.status = "MANUAL_REVIEW"]]
    BY <1>3 DEF Hold
  <2>3. infra' \in [Quotes -> InfraRows]
    BY <2>1, <2>2, Updated, Typed
  <2> QED BY <1>3, <2>3, Typed, TypedNext DEF Hold
<1>4. CASE ManualProvision(q)
  <2> DEFINE to == "WAITING_ADMIN_DELIVERY_APPROVAL"
  <2>1. to \in Flows /\ 4 \in Nat /\ "PROVISIONING" \in InfraStatuses
        /\ "PAID" \in OrderStatuses /\ {} \in SUBSET Quotes
    BY DEF Flows, InfraStatuses, OrderStatuses
  <2>2. /\ session' = [session EXCEPT ![s] = Moved(session[s], to, 4)]
        /\ order' = [order EXCEPT ![q] = Moved(order[q], to, 4)]
        /\ infra' = [infra EXCEPT ![q] = Moved([infra[q] EXCEPT !.status = "PROVISIONING"], to, 4)]
        /\ UNCHANGED <<quote, due, server, units, balance, call, todo, crashes>>
    BY <1>4 DEF ManualProvision, AllMove
  <2> HIDE DEF s, to
  <2>3. session' \in [Sessions -> SessionRows] /\ order' \in [Quotes -> OrderRows]
    BY <1>1, <2>1, <2>2, MoveTypes
  <2>4. infra' \in [Quotes -> InfraRows]
    BY <1>1, <2>1, <2>2, MoveTypes
  <2> QED BY <2>2, <2>3, <2>4, Typed, TypedNext
<1>5. CASE Refund(q)
  <2>1. "CANCELLED" \in Flows /\ 1 \in Nat /\ "REFUNDED" \in InfraStatuses
        /\ "REFUNDED" \in OrderStatuses /\ {} \in SUBSET Quotes
    BY DEF Flows, InfraStatuses, OrderStatuses
  <2>2. /\ \/ session' = session
           \/ session' = [session EXCEPT ![s] = Moved(session[s], "CANCELLED", 1)]
        /\ order' = [order EXCEPT ![q] = Moved([order[q] EXCEPT !.status = "REFUNDED"],
                                               "CANCELLED", 1)]
        /\ infra' = [infra EXCEPT ![q] = Moved([infra[q] EXCEPT !.status = "REFUNDED"],
                                               "CANCELLED", 1)]
        /\ UNCHANGED <<quote, due, server, call, todo, crashes>>
    BY <1>5 DEF Refund
  <2>3. /\ session' \in [Sessions -> SessionRows]
        /\ order' \in [Quotes -> OrderRows]
        /\ infra' \in [Quotes -> InfraRows]
    <3> HIDE DEF s
    <3>0. [session EXCEPT ![s] = Moved(session[s], "CANCELLED", 1)]
            \in [Sessions -> SessionRows]
      BY <1>1, <2>1, MoveTypes
    <3>1. session' \in [Sessions -> SessionRows]
      BY <2>2, <3>0, Typed
    <3>2. order' \in [Quotes -> OrderRows] /\ infra' \in [Quotes -> InfraRows]
      BY <1>1, <2>1, <2>2, MoveTypes
    <3> QED BY <3>1, <3>2
  <2>4. balance[OwnerOf[s]] + Price[q] \in Nat
    BY <1>1, Typed
  <2>5. balance' = [balance EXCEPT ![OwnerOf[s]] = balance[OwnerOf[s]] + Price[q]]
    BY <1>5 DEF Refund
  <2>6. balance' \in [Customers -> Nat]
    BY <2>4, <2>5, Updated, Typed
  <2>7. units' \in Nat
    BY <1>5, Typed DEF Refund
  <2> QED BY <2>2, <2>3, <2>6, <2>7, Typed, TypedNext
<1> QED BY <1>2, <1>3, <1>4, <1>5

LEMMA DispatchTypes ==
    ASSUME TypeOK, NEW q \in Quotes, Dispatch(q)
    PROVE  TypeOK'
<1> DEFINE s == SessionOf[q]
           to == "PROVISIONING_SUBMITTED"
           v == infra[q].server
<1>1. s \in Sessions
  BY ConstantsAssumption
<1>2. to \in Flows /\ 1 \in Nat /\ "QUEUED" \in InfraStatuses
      /\ "PAID" \in OrderStatuses /\ {} \in SUBSET Quotes
  BY DEF Flows, InfraStatuses, OrderStatuses
<1>3. /\ session' = [session EXCEPT ![s] = Moved(session[s], to, 1)]
      /\ order' = [order EXCEPT ![q] = Moved(order[q], to, 1)]
      /\ infra' = [infra EXCEPT ![q] = Moved([infra[q] EXCEPT !.status = "QUEUED"], to, 1)]
      /\ UNCHANGED <<quote, due, units, balance, todo, crashes>>
  BY DEF Dispatch, AllMove
<1>4. /\ session' \in [Sessions -> SessionRows]
      /\ order' \in [Quotes -> OrderRows]
      /\ infra' \in [Quotes -> InfraRows]
  <2> HIDE DEF s, to
  <2>1. session' \in [Sessions -> SessionRows]
    BY <1>1, <1>2, <1>3, MoveTypes
  <2>2. order' \in [Quotes -> OrderRows]
    BY <1>1, <1>2, <1>3, MoveTypes
  <2>3. infra' \in [Quotes -> InfraRows]
    BY <1>1, <1>2, <1>3, MoveTypes
  <2> QED BY <2>1, <2>2, <2>3
<1>5. ASSUME NEW x \in Servers
      PROVE  [server[x] EXCEPT !.status = "ASSIGNED", !.assigned = q] \in ServerRows
  <2>1. server[x] \in ServerRows
    BY Typed
  <2> QED BY <2>1 DEF ServerRows
<1>6. server' = server
      \/ server' = [server EXCEPT ![v] = [server[v] EXCEPT !.status = "ASSIGNED", !.assigned = q]]
  BY DEF Dispatch
<1>7. server' \in [Servers -> ServerRows]
  <2> DEFINE row == [server[v] EXCEPT !.status = "ASSIGNED", !.assigned = q]
  <2>1. v \in Servers => row \in ServerRows
    BY <1>5
  <2>2. server' = server \/ server' = [server EXCEPT ![v] = row]
    BY <1>6
  <2> HIDE DEF v, row
  <2> QED BY <2>1, <2>2, Updated, Typed
<1>8. call' \in [Callers -> CallRows]
  BY GoesTypes DEF Dispatch, Places
<1> QED BY <1>3, <1>4, <1>7, <1>8, Typed, TypedNext

LEMMA TypeStep == TypeOK /\ Calls /\ [Next]_vars => TypeOK'
<1> SUFFICES ASSUME TypeOK, Calls, [Next]_vars PROVE TypeOK'
  OBVIOUS
<1>0. Worker \in Callers /\ Requests \subseteq Callers
  BY DEF Callers
<1>1. ASSUME NEW p \in Requests, Request(p) PROVE TypeOK'
  <2>1. CASE \E q \in Quotes : Checkout(p, q) \/ \E r \in Quotes : Refresh(p, q, r)
    BY <1>0, <2>1, IssuingTypes
  <2>2. CASE \E q \in Quotes : OrderRead(p, q) \/ PayFails(p, q) \/ ExpireRead(p, q)
    BY <1>0, <2>2, ReadTypes
  <2>3. CASE \/ \E s \in Sessions : RequoteRead(p, s)
             \/ \E v \in Servers : ObserveRead(p, v)
             \/ PayCaught(p) \/ ExpireThrows(p) \/ Fails(p)
    BY <1>0, <2>3, ReadTypes
  <2>4. CASE \E q \in Quotes : Pay(p, q)
    BY <1>0, <2>4, PayTypes
  <2>5. CASE \E fresh \in SUBSET Quotes, blind \in BOOLEAN : RequoteCommit(p, fresh, blind)
    BY <1>0, <2>5, RequoteTypes
  <2>6. CASE OrderCommit(p)
    BY <1>0, <2>6, OrderCommitTypes
  <2>7. CASE ExpireCommit(p)
    BY <1>0, <2>7, ExpireCommitTypes
  <2>8. CASE Invalidate(p) \/ PayRelease(p) \/ \E reachable \in BOOLEAN : ObserveWrite(p, reachable)
    BY <1>0, <2>8, ServerStepTypes
  <2> QED BY <1>1, <2>1, <2>2, <2>3, <2>4, <2>5, <2>6, <2>7, <2>8 DEF Request
<1>2. CASE \E q \in Quotes : SweepSkips(q) \/ DispatchThrows(q)
  BY <1>2, CycleTypes
<1>3. CASE SweepBegin \/ DispatchesNothing \/ Claim \/ Crash \/ Release
  BY <1>3, CycleTypes
<1>4. CASE \/ \E q \in Quotes : ExpireRead(Worker, q)
           \/ ExpireThrows(Worker)
  BY <1>0, <1>4, ReadTypes
<1>5. CASE ExpireCommit(Worker)
  BY <1>0, <1>5, ExpireCommitTypes
<1>6. CASE \E q \in Quotes : Dispatch(q)
  BY <1>6, DispatchTypes
<1>7. CASE Administrator
  BY <1>7, AdministratorTypes DEF Administrator
<1>8. CASE (\E s \in Sessions : Lapse(s)) \/ \E v \in Servers : Age(v)
  BY <1>0, <1>8, ServerStepTypes
<1>9. CASE UNCHANGED vars
  BY <1>9, Typed, TypedNext DEF vars, rows, books
<1> QED BY <1>1, <1>2, <1>3, <1>4, <1>5, <1>6, <1>7, <1>8, <1>9 DEF Next, Cycle

(***************************************************************************)
(* What calls carry                                                        *)
(***************************************************************************)

\* The next call of a step that changes one.
LEMMA CallKept ==
    ASSUME TypeOK, Calls, NEW p, NEW row,
           row.pc \in {"ordering", "expiring"} => row.quote \in Quotes,
           row.pc = "requoting" => row.flow \in Requotable,
           call' = call \/ call' = [call EXCEPT ![p] = row]
    PROVE  Calls'
<1>1. call \in [Callers -> CallRows]
  BY Typed
<1>2. ASSUME NEW x \in Callers PROVE call'[x] = call[x] \/ call'[x] = row
  BY <1>1
<1>3. ASSUME NEW x \in Callers
      PROVE  /\ call'[x].pc \in {"ordering", "expiring"} => call'[x].quote \in Quotes
             /\ call'[x].pc = "requoting" => call'[x].flow \in Requotable
  BY <1>2 DEF Calls
<1> QED BY <1>3 DEF Calls

\* A call that waits for nothing.
LEMMA IdleKept ==
    ASSUME TypeOK, Calls, NEW p,
           NEW pc \in {"idle", "sweep", "sweeping", "dispatch", "claim"},
           call' = [call EXCEPT ![p] = Idle(pc)]
    PROVE  Calls'
<1>1. Idle(pc).pc = pc
  BY DEF Idle
<1> QED BY <1>1, CallKept

LEMMA ReadCalls ==
    ASSUME TypeOK, Calls, NEW p \in Callers,
           \/ \E v \in Servers : ObserveRead(p, v)
           \/ \E s \in Sessions : RequoteRead(p, s)
           \/ \E q \in Quotes : \/ OrderRead(p, q) \/ PayFails(p, q) \/ ExpireRead(p, q)
                                \/ \E r \in Quotes : Refresh(p, q, r)
           \/ PayCaught(p)
    PROVE  Calls'
<1>1. ASSUME NEW v \in Servers, ObserveRead(p, v) PROVE Calls'
  <2> DEFINE row == [Idle("observing") EXCEPT !.server = v]
  <2>1. row.pc = "observing" /\ call' = [call EXCEPT ![p] = row]
    BY <1>1 DEF ObserveRead, Idle
  <2> HIDE DEF row
  <2> QED BY <2>1, CallKept
<1>2. ASSUME NEW s \in Sessions, RequoteRead(p, s) PROVE Calls'
  <2> DEFINE row == [Idle("requoting") EXCEPT
                 !.session = s, !.flow = session[s].flow, !.rev = session[s].revision,
                 !.seen = {q \in QuotesOf(s) : quote[q].status \in Live}]
  <2>1. row.pc = "requoting" /\ row.flow = session[s].flow
    BY DEF Idle
  <2>2. session[s].flow \in Requotable /\ call' = [call EXCEPT ![p] = row]
    BY <1>2 DEF RequoteRead
  <2> HIDE DEF row
  <2> QED BY <2>1, <2>2, CallKept
<1>3. ASSUME NEW q \in Quotes, OrderRead(p, q) PROVE Calls'
  <2> DEFINE row == [Idle("ordering") EXCEPT !.quote = q, !.rev = session[SessionOf[q]].rev]
  <2>1. row.pc = "ordering" /\ row.quote = q
    BY DEF Idle
  <2>2. call' = [call EXCEPT ![p] = row]
    BY <1>3 DEF OrderRead
  <2> HIDE DEF row
  <2> QED BY <2>1, <2>2, CallKept
<1>4. ASSUME NEW q \in Quotes, PayFails(p, q) PROVE Calls'
  <2> DEFINE row == [Idle("failed") EXCEPT !.quote = q]
  <2>1. row.pc = "failed" /\ call' = [call EXCEPT ![p] = row]
    BY <1>4 DEF PayFails, Idle
  <2> HIDE DEF row
  <2> QED BY <2>1, CallKept
<1>5. ASSUME NEW q \in Quotes, ExpireRead(p, q) PROVE Calls'
  <2> DEFINE o == order[q].status # "NONE"
             f == IF o THEN order[q].flow ELSE session[SessionOf[q]].flow
  <2>1. PICK v : call' = [call EXCEPT ![p] = [Idle("expiring") EXCEPT
            !.quote = q, !.server = v, !.ordered = o, !.flow = f]]
    BY <1>5 DEF ExpireRead
  <2> DEFINE row == [Idle("expiring") EXCEPT
                 !.quote = q, !.server = v, !.ordered = o, !.flow = f]
  <2>2. row.pc = "expiring" /\ row.quote = q
    BY DEF Idle
  <2>3. call' = [call EXCEPT ![p] = row]
    BY <2>1
  <2> HIDE DEF row
  <2> QED BY <2>2, <2>3, CallKept
<1>6. ASSUME NEW q \in Quotes, NEW r \in Quotes, Refresh(p, q, r) PROVE Calls'
  <2> DEFINE row == [Idle("refreshing") EXCEPT !.quote = r]
  <2>1. row.pc = "refreshing" /\ call' = [call EXCEPT ![p] = row]
    BY <1>6 DEF Refresh, Idle
  <2> HIDE DEF row
  <2> QED BY <2>1, CallKept
<1>7. CASE PayCaught(p)
  <2> DEFINE row == [call[p] EXCEPT !.pc = "releasing"]
  <2>1. \/ call' = [call EXCEPT ![p] = Idle("idle")]
        \/ call' = [call EXCEPT ![p] = row]
    BY <1>7 DEF PayCaught
  <2>2. row.pc = "releasing"
    BY Typed DEF CallRows
  <2> HIDE DEF row
  <2> QED BY <2>1, <2>2, CallKept, IdleKept
<1> QED BY <1>1, <1>2, <1>3, <1>4, <1>5, <1>6, <1>7

LEMMA CallsStep == TypeOK /\ Calls /\ [Next]_vars => Calls'
<1> SUFFICES ASSUME TypeOK, Calls, [Next]_vars PROVE Calls'
  OBVIOUS
<1>0. Worker \in Callers /\ Requests \subseteq Callers
  BY DEF Callers
<1>1. CASE call' = call
  BY <1>1 DEF Calls
<1>2. ASSUME NEW p \in Requests, Request(p) PROVE Calls'
  <2>1. CASE \E q \in Quotes : Checkout(p, q) \/ Pay(p, q)
    BY <2>1, <1>1 DEF Checkout, Pay
  <2>2. CASE \/ Invalidate(p) \/ OrderCommit(p) \/ PayRelease(p) \/ ExpireCommit(p)
             \/ ExpireThrows(p) \/ Fails(p)
             \/ \E fresh \in SUBSET Quotes, blind \in BOOLEAN : RequoteCommit(p, fresh, blind)
             \/ \E reachable \in BOOLEAN : ObserveWrite(p, reachable)
    <3>1. \/ call' = [call EXCEPT ![p] = Idle("idle")]
          \/ call' = [call EXCEPT ![p] = Idle("sweeping")]
          \/ call' = [call EXCEPT ![p] = Idle("sweep")]
      BY <2>2 DEF Invalidate, OrderCommit, PayRelease, ExpireCommit, ExpireThrows, Fails,
         RequoteCommit, ObserveWrite, AfterExpiry
    <3> QED BY <3>1, IdleKept
  <2>3. CASE \/ \E v \in Servers : ObserveRead(p, v)
             \/ \E s \in Sessions : RequoteRead(p, s)
             \/ \E q \in Quotes : \/ OrderRead(p, q) \/ PayFails(p, q) \/ ExpireRead(p, q)
                                  \/ \E r \in Quotes : Refresh(p, q, r)
             \/ PayCaught(p)
    BY <1>0, <2>3, ReadCalls
  <2> QED BY <1>2, <2>1, <2>2, <2>3 DEF Request
<1>3. CASE \/ SweepBegin \/ Release \/ DispatchesNothing \/ Claim \/ Crash
           \/ ExpireCommit(Worker) \/ ExpireThrows(Worker)
           \/ \E q \in Quotes : Dispatch(q) \/ DispatchThrows(q)
  <2>1. \/ call' = [call EXCEPT ![Worker] = Idle("sweep")]
        \/ call' = [call EXCEPT ![Worker] = Idle("sweeping")]
        \/ call' = [call EXCEPT ![Worker] = Idle("dispatch")]
        \/ call' = [call EXCEPT ![Worker] = Idle("claim")]
        \/ call' = [call EXCEPT ![Worker] = Idle("idle")]
    BY <1>3 DEF SweepBegin, Release, DispatchesNothing, Claim, Crash, ExpireCommit,
       ExpireThrows, Dispatch, DispatchThrows, AfterExpiry, Goes
  <2> QED BY <2>1, IdleKept
<1>4. CASE \E q \in Quotes : ExpireRead(Worker, q)
  BY <1>0, <1>4, ReadCalls
<1>5. CASE \/ Administrator \/ UNCHANGED vars
           \/ \E q \in Quotes : SweepSkips(q)
           \/ \E s \in Sessions : Lapse(s)
           \/ \E v \in Servers : Age(v)
  BY <1>1, <1>5 DEF Administrator, Approve, Hold, ManualProvision, Refund, SweepSkips, Lapse,
     Age, vars
<1> QED BY <1>2, <1>3, <1>4, <1>5 DEF Next, Cycle

(***************************************************************************)
(* Paid orders                                                             *)
(***************************************************************************)

\* A step that leaves the rows of paid orders and the place of their sessions.
LEMMA Kept ==
    ASSUME Paid, infra' = infra,
           \A q \in Quotes : order'[q] = order[q]
                             \/ (q \notin Bought /\ order'[q].status \notin {"PAID", "REFUNDED"}),
           \A s \in Sessions : session[s].flow \in After =>
               session'[s].flow = session[s].flow /\ session'[s].rev = session[s].rev
    PROVE  Paid' /\ Bought' = Bought /\ Refunded' = Refunded
<1>1. Bought' = Bought /\ Refunded' = Refunded
  BY DEF Bought, Refunded
<1>2. ASSUME NEW q \in Bought
      PROVE  /\ q \in Quotes /\ order'[q] = order[q]
             /\ SessionOf[q] \in Sessions /\ session[SessionOf[q]].flow \in After
             /\ session'[SessionOf[q]].flow = session[SessionOf[q]].flow
             /\ session'[SessionOf[q]].rev = session[SessionOf[q]].rev
  BY ConstantsAssumption DEF Bought, Paid
<1>3. PaidFlowAgrees'
  <2> SUFFICES ASSUME NEW q \in Quotes, order'[q].status = "PAID"
               PROVE  /\ infra'[q].status \notin {"NONE", "REFUNDED"}
                      /\ InfraAt(q, FlowOf(infra[q].status))'
                      /\ OrderAt(q, FlowOf(infra[q].status))'
    BY DEF PaidFlowAgrees
  <2>1. q \in Bought /\ order[q].status = "PAID"
    BY <1>1, <1>2 DEF Bought
  <2>2. /\ infra[q].status \notin {"NONE", "REFUNDED"}
        /\ InfraAt(q, FlowOf(infra[q].status)) /\ OrderAt(q, FlowOf(infra[q].status))
    BY <2>1 DEF Paid, PaidFlowAgrees
  <2> QED BY <1>2, <2>1, <2>2 DEF InfraAt, OrderAt, SessionAt
<1>4. \A q \in Bought' : session'[SessionOf[q]].flow \in After
  BY <1>1, <1>2
<1>5. ASSUME NEW q \in Quotes, infra'[q].status \notin {"NONE", "REFUNDED"}
      PROVE  order'[q].status = "PAID"
  <2>1. order[q].status = "PAID"
    BY <1>5 DEF Paid
  <2> QED BY <2>1 DEF Bought
<1> QED BY <1>1, <1>3, <1>4, <1>5 DEF Paid, After

\* A step of an order that is paid when it ends.
LEMMA PaidMove ==
    ASSUME Paid, NEW q \in Quotes,
           \A r \in Quotes \ {q} : order'[r] = order[r] /\ infra'[r] = infra[r],
           \A s \in Sessions \ {SessionOf[q]} : session'[s] = session[s],
           \A r \in Bought : SessionOf[r] = SessionOf[q] => r = q,
           session'[SessionOf[q]].flow \in After,
           order'[q].status \in {"PAID", "REFUNDED"},
           order'[q].status = "REFUNDED" => infra'[q].status = "REFUNDED",
           order'[q].status = "PAID" =>
               /\ infra'[q].status \notin {"NONE", "REFUNDED"}
               /\ infra'[q].flow = FlowOf(infra'[q].status)
               /\ order'[q].flow = infra'[q].flow /\ order'[q].rev = infra'[q].rev
               /\ session'[SessionOf[q]].flow = order'[q].flow
               /\ session'[SessionOf[q]].rev = order'[q].rev
    PROVE  /\ Paid' /\ Bought' = Bought \cup {q}
           /\ Refunded' = IF order'[q].status = "REFUNDED" THEN Refunded \cup {q}
                          ELSE Refunded \ {q}
<1>1. Bought' = Bought \cup {q}
  BY DEF Bought
<1>0. Refunded' = IF order'[q].status = "REFUNDED" THEN Refunded \cup {q} ELSE Refunded \ {q}
  BY DEF Refunded
<1>2. ASSUME NEW r \in Bought, r # q
      PROVE  /\ r \in Quotes /\ order'[r] = order[r] /\ infra'[r] = infra[r]
             /\ session'[SessionOf[r]] = session[SessionOf[r]]
             /\ session[SessionOf[r]].flow \in After
  BY <1>2, ConstantsAssumption DEF Bought, Paid
<1>3. PaidFlowAgrees'
  <2> SUFFICES ASSUME NEW r \in Quotes, order'[r].status = "PAID"
               PROVE  /\ infra'[r].status \notin {"NONE", "REFUNDED"}
                      /\ InfraAt(r, FlowOf(infra[r].status))'
                      /\ OrderAt(r, FlowOf(infra[r].status))'
    BY DEF PaidFlowAgrees
  <2>1. CASE r = q
    <3>1. FlowOf(infra[r].status)' = FlowOf(infra'[q].status)
      BY <2>1 DEF FlowOf
    <3> QED BY <2>1, <3>1 DEF InfraAt, OrderAt, SessionAt
  <2>2. CASE r # q
    <3>1. r \in Bought /\ order[r].status = "PAID"
      BY <1>1, <2>2 DEF Bought
    <3>2. /\ infra[r].status \notin {"NONE", "REFUNDED"}
          /\ InfraAt(r, FlowOf(infra[r].status)) /\ OrderAt(r, FlowOf(infra[r].status))
      BY <3>1 DEF Paid, PaidFlowAgrees
    <3>3. FlowOf(infra[r].status)' = FlowOf(infra[r].status)
      BY <1>2, <2>2, <3>1 DEF FlowOf
    <3> QED BY <1>2, <2>2, <3>1, <3>2, <3>3 DEF InfraAt, OrderAt, SessionAt
  <2> QED BY <2>1, <2>2
<1>4. \A r \in Bought' : session'[SessionOf[r]].flow \in After
  BY <1>1, <1>2
<1>5. \A r, x \in Bought' : SessionOf[r] = SessionOf[x] => r = x
  BY <1>1 DEF Paid
<1>6. \A r \in Quotes : infra'[r].status \notin {"NONE", "REFUNDED"} => order'[r].status = "PAID"
  BY DEF Paid
<1> QED BY <1>0, <1>1, <1>3, <1>4, <1>5, <1>6 DEF Paid, After

LEMMA Untouched ==
    ASSUME Paid, UNCHANGED <<order, infra, session>>
    PROVE  Paid' /\ Bought' = Bought /\ Refunded' = Refunded
<1>1. order' = order /\ infra' = infra /\ session' = session
  OBVIOUS
<1> QED BY <1>1, Kept

\* The actions that only move a session, or make an order of a quote.
LEMMA QuotingPaid ==
    ASSUME IInv, NEW p \in Callers,
           \/ \E q \in Quotes : Checkout(p, q) \/ \E r \in Quotes : Refresh(p, q, r)
           \/ \E s \in Sessions : Lapse(s)
           \/ \E fresh \in SUBSET Quotes, blind \in BOOLEAN : RequoteCommit(p, fresh, blind)
           \/ OrderCommit(p) \/ ExpireCommit(p)
    PROVE  Paid' /\ Bought' = Bought /\ Refunded' = Refunded
<1> USE DEF IInv
<1>1. ASSUME NEW q \in Quotes, Issue(q), UNCHANGED books PROVE Paid' /\ Bought' = Bought /\ Refunded' = Refunded
  <2>1. session[SessionOf[q]].flow = "DRAFT"
    BY <1>1 DEF Issue, SessionAt
  <2>2. session' = [session EXCEPT ![SessionOf[q]] = Moved(@, "QUOTED", Bootstrap)]
    BY <1>1 DEF Issue
  <2>3. ASSUME NEW s \in Sessions, session[s].flow \in After PROVE session'[s] = session[s]
    BY <2>1, <2>2, <2>3, Typed DEF After
  <2> QED BY <1>1, <2>3, Kept DEF books
<1>2. ASSUME NEW s \in Sessions, Lapse(s) PROVE Paid' /\ Bought' = Bought /\ Refunded' = Refunded
  <2>1. session' = [session EXCEPT ![s] = [session[s] EXCEPT !.lapsed = TRUE]]
    BY <1>2 DEF Lapse
  <2>2. session[s] \in SessionRows
    BY Typed
  <2>3. /\ [session[s] EXCEPT !.lapsed = TRUE].flow = session[s].flow
        /\ [session[s] EXCEPT !.lapsed = TRUE].rev = session[s].rev
    BY <2>2 DEF SessionRows
  <2>4. ASSUME NEW t \in Sessions
        PROVE  session'[t].flow = session[t].flow /\ session'[t].rev = session[t].rev
    BY <2>1, <2>3, Typed
  <2> QED BY <1>2, <2>4, Kept DEF Lapse, books
<1>3. ASSUME NEW fresh \in SUBSET Quotes, NEW blind \in BOOLEAN, RequoteCommit(p, fresh, blind)
      PROVE Paid' /\ Bought' = Bought /\ Refunded' = Refunded
  <2> DEFINE s == call[p].session
             key == <<call[p].rev, call[p].flow>>
             steps == IF call[p].flow = "DELIVERY_CONFIGURED" THEN 1 ELSE 2
             row == [session[s] EXCEPT !.lapsed = FALSE, !.revision = @ + 1,
                                       !.keys = @ \cup {key}]
  <2>1. \/ session' = [session EXCEPT ![s] = row]
        \/ /\ session[s].flow \in Requotable
           /\ session' = [session EXCEPT ![s] = Moved(row, "QUOTED", steps)]
    BY <1>3 DEF RequoteCommit, SessionAt, Calls
  <2>2. s \in Sessions => row.flow = session[s].flow /\ row.rev = session[s].rev
    <3>1. s \in Sessions => session[s] \in SessionRows
      BY Typed
    <3> HIDE DEF s, key
    <3> QED BY <3>1 DEF SessionRows
  <2> HIDE DEF row, s
  <2>3. ASSUME NEW t \in Sessions, session[t].flow \in After
        PROVE  session'[t].flow = session[t].flow /\ session'[t].rev = session[t].rev
    <3>1. CASE session' = [session EXCEPT ![s] = row]
      BY <2>2, <3>1, Typed
    <3>2. CASE /\ session[s].flow \in Requotable
               /\ session' = [session EXCEPT ![s] = Moved(row, "QUOTED", steps)]
      <4>1. t # s
        BY <2>3, <3>2 DEF After, Requotable
      <4> QED BY <3>2, <4>1, Typed
    <3> QED BY <2>1, <3>1, <3>2
  <2>4. UNCHANGED <<order, infra>>
    BY <1>3 DEF RequoteCommit, books
  <2> QED BY <2>3, <2>4, Kept
<1>4. CASE OrderCommit(p)
  <2> DEFINE q == call[p].quote
             s == SessionOf[q]
             row == [status |-> "PENDING_PAYMENT",
                     flow |-> "AWAITING_PAYMENT", rev |-> call[p].rev + 1]
  <2>1. session[s].flow = "QUOTED" /\ order[q].status = "NONE" /\ infra' = infra
    BY <1>4 DEF OrderCommit, SessionAt
  <2>2. /\ session' = [session EXCEPT ![s] = Moved(session[s], "AWAITING_PAYMENT", 1)]
        /\ order' = [order EXCEPT ![q] = row]
    BY <1>4 DEF OrderCommit
  <2>3. q \notin Bought /\ row.status \notin {"PAID", "REFUNDED"}
    BY <2>1 DEF Bought
  <2> HIDE DEF q, s, row
  <2>4. ASSUME NEW t \in Sessions, session[t].flow \in After PROVE session'[t] = session[t]
    BY <2>1, <2>2, <2>4, Typed DEF After
  <2>5. ASSUME NEW r \in Quotes
        PROVE  order'[r] = order[r]
               \/ (r \notin Bought /\ order'[r].status \notin {"PAID", "REFUNDED"})
    BY <2>2, <2>3, Typed
  <2> QED BY <2>1, <2>4, <2>5, Kept
<1>5. CASE ExpireCommit(p)
  <2> DEFINE q == call[p].quote
             s == SessionOf[q]
  <2>1. infra' = infra
    BY <1>5 DEF ExpireCommit
  <2>2. CASE ~ExpiryMoves(p)
    BY <1>5, <2>1, <2>2, Untouched DEF ExpireCommit
  <2>3. CASE ExpiryMoves(p)
    <3>1. q \in Quotes
      BY <1>5 DEF ExpireCommit, Calls
    <3>2. session[s].flow \in Expireable
      BY <1>5, <2>3 DEF ExpireCommit, ExpiryMoves, ExpiryAllowed, OrderAt, SessionAt
    <3>3. session' = [session EXCEPT ![s] = Moved(session[s], "QUOTE_EXPIRED", 1)]
      BY <1>5, <2>3 DEF ExpireCommit
    <3>4. \/ order' = order
          \/ order' = [order EXCEPT ![q] = Moved(order[q], "QUOTE_EXPIRED", 1)]
      BY <1>5, <2>3 DEF ExpireCommit
    <3>5. q \notin Bought
      BY <3>2 DEF Paid, After, Expireable
    <3>6. Moved(order[q], "QUOTE_EXPIRED", 1).status = order[q].status
      <4>1. order[q] \in OrderRows /\ "QUOTE_EXPIRED" \in Flows /\ 1 \in Nat
        BY <3>1, Typed DEF Flows
      <4> QED BY <4>1, MovedOrder
    <3> HIDE DEF s, q
    <3>7. ASSUME NEW t \in Sessions, session[t].flow \in After PROVE session'[t] = session[t]
      BY <3>2, <3>3, <3>7, Typed DEF After, Expireable
    <3>8. ASSUME NEW r \in Quotes
          PROVE  order'[r] = order[r]
                 \/ (r \notin Bought /\ order'[r].status \notin {"PAID", "REFUNDED"})
      <4>1. CASE r # q
        BY <3>4, <4>1, Typed
      <4>2. CASE r = q
        BY <3>1, <3>4, <3>5, <3>6, <4>2, Typed DEF Bought
      <4> QED BY <4>1, <4>2
    <3> QED BY <2>1, <3>7, <3>8, Kept
  <2> QED BY <2>2, <2>3
<1> QED BY <1>1, <1>2, <1>3, <1>4, <1>5 DEF Checkout, Refresh

\* An approved order, and its session, move on together.
LEMMA Advance ==
    ASSUME IInv, NEW q \in Quotes, NEW from \in Flows, NEW to \in After \cap Flows,
           NEW n \in Nat, NEW row \in InfraRows,
           InfraAt(q, from), OrderAt(q, from), order[q].status = "PAID",
           row.rev = infra[q].rev, row.status \notin {"NONE", "REFUNDED"},
           FlowOf(row.status) = to,
           session' = [session EXCEPT ![SessionOf[q]] = Moved(session[SessionOf[q]], to, n)],
           order' = [order EXCEPT ![q] = Moved(order[q], to, n)],
           infra' = [infra EXCEPT ![q] = Moved(row, to, n)]
    PROVE  Paid' /\ Bought' = Bought /\ Refunded' = Refunded
<1> DEFINE s == SessionOf[q]
<1>1. /\ s \in Sessions /\ session \in [Sessions -> SessionRows]
      /\ order \in [Quotes -> OrderRows] /\ infra \in [Quotes -> InfraRows]
  BY Typed, ConstantsAssumption DEF IInv
<1>2. /\ Moved(session[s], to, n).flow = to /\ Moved(session[s], to, n).rev = session[s].rev + n
      /\ Moved(order[q], to, n).flow = to /\ Moved(order[q], to, n).rev = order[q].rev + n
      /\ Moved(order[q], to, n).status = "PAID"
      /\ Moved(row, to, n).flow = to /\ Moved(row, to, n).rev = infra[q].rev + n
      /\ Moved(row, to, n).status = row.status
  BY <1>1, MovedSession, MovedOrder, MovedInfra
<1>3. infra[q].rev = order[q].rev /\ session[s].rev = order[q].rev
  BY DEF InfraAt, OrderAt
<1>4. q \in Bought /\ q \notin Refunded
  BY DEF Bought, Refunded
<1>5. \A r \in Bought : SessionOf[r] = SessionOf[q] => r = q
  BY <1>4 DEF IInv, Paid
<1>6. /\ session'[s] = Moved(session[s], to, n)
      /\ order'[q] = Moved(order[q], to, n) /\ infra'[q] = Moved(row, to, n)
  BY <1>1
<1>7. /\ \A r \in Quotes \ {q} : order'[r] = order[r] /\ infra'[r] = infra[r]
      /\ \A x \in Sessions \ {s} : session'[x] = session[x]
  BY <1>1
<1>8. Paid' /\ Bought' = Bought \cup {q} /\ Refunded' = Refunded \ {q}
  BY <1>2, <1>3, <1>5, <1>6, <1>7, PaidMove DEF IInv
<1> QED BY <1>4, <1>8

LEMMA ApprovingPaid ==
    ASSUME IInv, NEW q \in Quotes,
           Approve(q) \/ Hold(q) \/ ManualProvision(q) \/ Dispatch(q)
    PROVE  Paid' /\ Bought' = Bought /\ Refunded' = Refunded
<1>0. infra[q] \in InfraRows /\ order[q] \in OrderRows /\ 1 \in Nat /\ 4 \in Nat
  BY Typed DEF IInv
<1>1. CASE Approve(q)
  <2> DEFINE row == [infra[q] EXCEPT !.status = "FUNDING_CONFIRMED", !.ahead = Approved]
  <2>1. row \in InfraRows /\ row.rev = infra[q].rev /\ row.status = "FUNDING_CONFIRMED"
    BY <1>0 DEF InfraRows, InfraStatuses, Approved
  <2>2. /\ InfraAt(q, "PAID") /\ OrderAt(q, "PAID") /\ order[q].status = "PAID"
        /\ session' = [session EXCEPT
               ![SessionOf[q]] = Moved(session[SessionOf[q]], "PROVISION_APPROVED", 1)]
        /\ order' = [order EXCEPT ![q] = Moved(order[q], "PROVISION_APPROVED", 1)]
        /\ infra' = [infra EXCEPT ![q] = Moved(row, "PROVISION_APPROVED", 1)]
    BY <1>1 DEF Approve, Approvable
  <2>3. /\ "PAID" \in Flows /\ "PROVISION_APPROVED" \in After \cap Flows
        /\ FlowOf("FUNDING_CONFIRMED") = "PROVISION_APPROVED"
    BY DEF Flows, After, FlowOf
  <2> HIDE DEF row
  <2> QED BY <1>0, <2>1, <2>2, <2>3, Advance
<1>2. CASE Hold(q)
  <2> DEFINE row == [infra[q] EXCEPT !.status = "MANUAL_REVIEW"]
  <2>1. /\ row.rev = infra[q].rev /\ row.flow = infra[q].flow /\ row.status = "MANUAL_REVIEW"
    BY <1>0, MarkedInfra DEF InfraStatuses
  <2>2. /\ infra' = [infra EXCEPT ![q] = row] /\ order' = order /\ session' = session
        /\ infra[q].flow = "PAID" /\ order[q].status = "PAID"
        /\ infra[q].status \in {"WAITING_ADMIN_FUNDING", "MANUAL_REVIEW"}
    BY <1>2 DEF Hold, Approvable
  <2> HIDE DEF row
  <2>3. q \in Bought /\ q \notin Refunded
    BY <2>2 DEF Bought, Refunded
  <2>4. /\ InfraAt(q, "PAID") /\ OrderAt(q, "PAID") /\ FlowOf("MANUAL_REVIEW") = "PAID"
    BY <2>2 DEF IInv, Paid, PaidFlowAgrees, FlowOf
  <2>5. \A r \in Bought : SessionOf[r] = SessionOf[q] => r = q
    BY <2>3 DEF IInv, Paid
  <2>6. infra'[q] = row /\ \A r \in Quotes \ {q} : infra'[r] = infra[r]
    BY <2>2, Typed DEF IInv
  <2>7. Paid' /\ Bought' = Bought \cup {q} /\ Refunded' = Refunded \ {q}
    BY <2>1, <2>2, <2>4, <2>5, <2>6, PaidMove DEF IInv, InfraAt, OrderAt, SessionAt, After
  <2> QED BY <2>3, <2>7
<1>3. CASE ManualProvision(q)
  <2> DEFINE row == [infra[q] EXCEPT !.status = "PROVISIONING"]
             to == "WAITING_ADMIN_DELIVERY_APPROVAL"
             from == "PROVISION_APPROVED"
  <2>1. row \in InfraRows /\ row.rev = infra[q].rev /\ row.status = "PROVISIONING"
    BY <1>0, MarkedInfra DEF InfraStatuses
  <2>2. /\ InfraAt(q, from) /\ OrderAt(q, from) /\ order[q].status = "PAID"
        /\ session' = [session EXCEPT ![SessionOf[q]] = Moved(session[SessionOf[q]], to, 4)]
        /\ order' = [order EXCEPT ![q] = Moved(order[q], to, 4)]
        /\ infra' = [infra EXCEPT ![q] = Moved(row, to, 4)]
    BY <1>3 DEF ManualProvision, AllMove
  <2>3. from \in Flows /\ to \in After \cap Flows /\ FlowOf("PROVISIONING") = to
    BY DEF Flows, After, FlowOf
  <2> HIDE DEF row, to, from
  <2> QED BY <1>0, <2>1, <2>2, <2>3, Advance
<1>4. CASE Dispatch(q)
  <2> DEFINE row == [infra[q] EXCEPT !.status = "QUEUED"]
             to == "PROVISIONING_SUBMITTED"
             from == "PROVISION_APPROVED"
  <2>1. row \in InfraRows /\ row.rev = infra[q].rev /\ row.status = "QUEUED"
    BY <1>0, MarkedInfra DEF InfraStatuses
  <2>2. /\ InfraAt(q, from) /\ OrderAt(q, from) /\ infra[q].status = "FUNDING_CONFIRMED"
        /\ session' = [session EXCEPT ![SessionOf[q]] = Moved(session[SessionOf[q]], to, 1)]
        /\ order' = [order EXCEPT ![q] = Moved(order[q], to, 1)]
        /\ infra' = [infra EXCEPT ![q] = Moved(row, to, 1)]
    BY <1>4 DEF Dispatch, AllMove, Oldest, Approved
  <2>3. from \in Flows /\ to \in After \cap Flows /\ FlowOf("QUEUED") = to
    BY DEF Flows, After, FlowOf
  <2>4. order[q].status = "PAID"
    BY <2>2 DEF IInv, Paid
  <2> HIDE DEF row, to, from
  <2> QED BY <1>0, <2>1, <2>2, <2>3, <2>4, Advance
<1> QED BY <1>1, <1>2, <1>3, <1>4

LEMMA PayBuys ==
    ASSUME IInv, NEW p \in Callers, NEW q \in Quotes, Pay(p, q)
    PROVE  Paid' /\ Contract!Buy(q)
<1> DEFINE s == SessionOf[q]
           to == Moved(order[q], "PAID", 1)
           paid == [to EXCEPT !.status = "PAID"]
           bill == [infra[q] EXCEPT !.status = "WAITING_ADMIN_FUNDING",
                        !.flow = to.flow, !.rev = to.rev, !.server = quote[q].server]
<1>1. /\ s \in Sessions /\ session[s] \in SessionRows /\ order[q] \in OrderRows
      /\ infra[q] \in InfraRows /\ quote[q].server \in Servers \cup {None}
      /\ "PAID" \in Flows /\ 1 \in Nat /\ "PAID" \in OrderStatuses
  BY Typed, ConstantsAssumption DEF IInv, QuoteRows, Flows, OrderStatuses
<1>2. /\ order[q].status = "PENDING_PAYMENT" /\ session[s].flow = "AWAITING_PAYMENT"
      /\ session[s].rev = order[q].rev
      /\ Manual(q) => units > 0
      /\ balance[OwnerOf[s]] >= Price[q]
  BY DEF Pay, Payable, OrderAt, SessionAt
<1>3. to \in OrderRows /\ to.flow = "PAID" /\ to.rev = order[q].rev + 1
  BY <1>1, MovedOrder
<1>4. /\ Moved(session[s], "PAID", 1).flow = "PAID"
      /\ Moved(session[s], "PAID", 1).rev = session[s].rev + 1
  BY <1>1, MovedSession
<1>5. /\ session' = [session EXCEPT ![s] = Moved(session[s], "PAID", 1)]
      /\ order' = [order EXCEPT ![q] = paid]
      /\ infra' = [infra EXCEPT ![q] = bill]
      /\ balance' = [balance EXCEPT ![OwnerOf[s]] = balance[OwnerOf[s]] - Price[q]]
      /\ units' = IF Manual(q) THEN units - 1 ELSE units
  BY DEF Pay
<1> HIDE DEF to
<1>6. paid.status = "PAID" /\ paid.flow = to.flow /\ paid.rev = to.rev
  BY <1>1, <1>3, MarkedOrder
<1>7. to.flow \in Flows /\ to.rev \in Nat
  BY <1>3 DEF OrderRows
<1>8. bill.status = "WAITING_ADMIN_FUNDING" /\ bill.flow = to.flow /\ bill.rev = to.rev
  <2>1. bill.status = "WAITING_ADMIN_FUNDING"
    BY <1>1 DEF InfraRows
  <2>2. bill.flow = to.flow
    BY <1>1 DEF InfraRows
  <2>3. bill.rev = to.rev
    BY <1>1 DEF InfraRows
  <2> HIDE DEF bill
  <2> QED BY <2>1, <2>2, <2>3
<1> HIDE DEF paid, bill, s
<1>9. \A r \in Bought : SessionOf[r] # s
  BY <1>2 DEF IInv, Paid, After
<1>10. q \notin Bought /\ q \notin Refunded
  BY <1>2 DEF Bought, Refunded
<1>11. /\ \A r \in Quotes \ {q} : order'[r] = order[r] /\ infra'[r] = infra[r]
       /\ \A x \in Sessions \ {s} : session'[x] = session[x]
       /\ session'[s] = Moved(session[s], "PAID", 1) /\ order'[q] = paid /\ infra'[q] = bill
  BY <1>1, <1>5, Typed DEF IInv
<1>12. /\ session'[s].flow \in After /\ session'[s].flow = "PAID"
       /\ session'[s].rev = order'[q].rev /\ order'[q].status = "PAID" /\ order'[q].flow = "PAID"
       /\ infra'[q].status \notin {"NONE", "REFUNDED"}
       /\ infra'[q].flow = FlowOf(infra'[q].status)
       /\ order'[q].flow = infra'[q].flow /\ order'[q].rev = infra'[q].rev
  BY <1>2, <1>3, <1>4, <1>6, <1>8, <1>11 DEF After, FlowOf
<1>13. Paid' /\ Bought' = Bought \cup {q} /\ Refunded' = Refunded \ {q}
  BY <1>9, <1>11, <1>12, PaidMove DEF IInv, s
<1>14. Refunded' = Refunded
  BY <1>10, <1>13
<1> QED BY <1>2, <1>5, <1>9, <1>13, <1>14 DEF Contract!Buy, Contract!Payer, s

LEMMA RefundRefunds ==
    ASSUME IInv, NEW q \in Quotes, Refund(q)
    PROVE  Paid' /\ Contract!Refund(q)
<1> DEFINE s == SessionOf[q]
           paid == [order[q] EXCEPT !.status = "REFUNDED"]
           bill == [infra[q] EXCEPT !.status = "REFUNDED"]
<1>1. /\ s \in Sessions /\ session[s] \in SessionRows /\ order[q] \in OrderRows
      /\ infra[q] \in InfraRows /\ session \in [Sessions -> SessionRows]
      /\ order \in [Quotes -> OrderRows] /\ infra \in [Quotes -> InfraRows]
      /\ "CANCELLED" \in Flows /\ 1 \in Nat
      /\ "REFUNDED" \in OrderStatuses /\ "REFUNDED" \in InfraStatuses
  BY Typed, ConstantsAssumption DEF IInv, Flows, OrderStatuses, InfraStatuses
<1>2. /\ \/ session' = session
         \/ session' = [session EXCEPT ![s] = Moved(session[s], "CANCELLED", 1)]
      /\ order' = [order EXCEPT ![q] = Moved(paid, "CANCELLED", 1)]
      /\ infra' = [infra EXCEPT ![q] = Moved(bill, "CANCELLED", 1)]
      /\ balance' = [balance EXCEPT ![OwnerOf[s]] = balance[OwnerOf[s]] + Price[q]]
      /\ units' = IF Manual(q) THEN units + 1 ELSE units
      /\ order[q].status = "PAID"
  BY DEF Refund
<1>3. paid \in OrderRows /\ paid.status = "REFUNDED" /\ bill \in InfraRows
      /\ bill.status = "REFUNDED"
  BY <1>1, MarkedOrder, MarkedInfra
<1> HIDE DEF paid, bill
<1>4. /\ Moved(paid, "CANCELLED", 1).status = "REFUNDED"
      /\ Moved(bill, "CANCELLED", 1).status = "REFUNDED"
      /\ Moved(session[s], "CANCELLED", 1).flow = "CANCELLED"
  BY <1>1, <1>3, MovedOrder, MovedInfra, MovedSession
<1>5. q \in Bought /\ q \notin Refunded
  BY <1>2 DEF Bought, Refunded
<1>6. session[s].flow \in After
  BY <1>5 DEF IInv, Paid
<1> HIDE DEF s
<1>7. /\ \A r \in Quotes \ {q} : order'[r] = order[r] /\ infra'[r] = infra[r]
      /\ \A x \in Sessions \ {s} : session'[x] = session[x]
      /\ session'[s].flow \in After
      /\ order'[q].status = "REFUNDED" /\ infra'[q].status = "REFUNDED"
  BY <1>1, <1>2, <1>4, <1>6 DEF After
<1>8. \A r \in Bought : SessionOf[r] = SessionOf[q] => r = q
  BY <1>5 DEF IInv, Paid
<1>9. Paid' /\ Bought' = Bought \cup {q} /\ Refunded' = Refunded \cup {q}
  BY <1>7, <1>8, PaidMove DEF IInv, s
<1>10. Bought' = Bought
  BY <1>5, <1>9
<1> QED BY <1>2, <1>5, <1>9, <1>10 DEF Contract!Refund, Contract!Payer, s

(***************************************************************************)
(* Every step                                                              *)
(***************************************************************************)

\* What a step does to the contract's variables.
LEMMA PurchaseStep ==
    IInv /\ [Next]_vars => Paid' /\ [Contract!Next]_(Contract!vars)
<1> SUFFICES ASSUME IInv, [Next]_vars PROVE Paid' /\ [Contract!Next]_(Contract!vars)
  OBVIOUS
<1>0. Worker \in Callers /\ Requests \subseteq Callers /\ Paid
  BY DEF Callers, IInv
<1>1. ASSUME Paid' /\ Bought' = Bought /\ Refunded' = Refunded, UNCHANGED <<balance, units>>
      PROVE  Paid' /\ [Contract!Next]_(Contract!vars)
  BY <1>1 DEF Contract!vars
<1>2. ASSUME UNCHANGED <<order, infra, session, balance, units>>
      PROVE  Paid' /\ [Contract!Next]_(Contract!vars)
  <2>1. UNCHANGED <<order, infra, session>> /\ UNCHANGED <<balance, units>>
    BY <1>2
  <2>2. Paid' /\ Bought' = Bought /\ Refunded' = Refunded
    BY <1>0, <2>1, Untouched
  <2> QED BY <1>1, <2>1, <2>2
<1>3. ASSUME NEW p \in Callers,
             \/ \E q \in Quotes : Checkout(p, q) \/ \E r \in Quotes : Refresh(p, q, r)
             \/ \E s \in Sessions : Lapse(s)
             \/ \E fresh \in SUBSET Quotes, blind \in BOOLEAN : RequoteCommit(p, fresh, blind)
             \/ OrderCommit(p) \/ ExpireCommit(p)
      PROVE  Paid' /\ [Contract!Next]_(Contract!vars)
  <2>1. UNCHANGED <<balance, units>>
    BY <1>3 DEF Checkout, Refresh, Lapse, RequoteCommit, OrderCommit, ExpireCommit, books
  <2> QED BY <1>1, <1>3, <2>1, QuotingPaid
<1>4. ASSUME NEW p \in Requests, Request(p) PROVE Paid' /\ [Contract!Next]_(Contract!vars)
  <2>1. CASE \E q \in Quotes : Pay(p, q)
    BY <1>0, <2>1, PayBuys DEF Contract!Next
  <2>2. CASE \/ \E q \in Quotes : OrderRead(p, q) \/ PayFails(p, q) \/ ExpireRead(p, q)
             \/ \E s \in Sessions : RequoteRead(p, s)
             \/ \E v \in Servers : ObserveRead(p, v)
             \/ \E reachable \in BOOLEAN : ObserveWrite(p, reachable)
             \/ Invalidate(p) \/ PayCaught(p) \/ PayRelease(p) \/ ExpireThrows(p) \/ Fails(p)
    BY <1>2, <2>2 DEF OrderRead, PayFails, ExpireRead, RequoteRead, ObserveRead, ObserveWrite,
       Invalidate, PayCaught, PayRelease, ExpireThrows, Fails, rows, books
  <2> QED BY <1>0, <1>3, <1>4, <2>1, <2>2 DEF Request
<1>5. CASE Administrator \/ \E q \in Quotes : Dispatch(q)
  <2>1. ASSUME NEW q \in Quotes, Approve(q) \/ Hold(q) \/ ManualProvision(q) \/ Dispatch(q)
        PROVE  Paid' /\ [Contract!Next]_(Contract!vars)
    <3>1. UNCHANGED <<balance, units>>
      BY <2>1 DEF Approve, Hold, ManualProvision, Dispatch
    <3> QED BY <1>1, <2>1, <3>1, ApprovingPaid
  <2>2. ASSUME NEW q \in Quotes, Refund(q) PROVE Paid' /\ [Contract!Next]_(Contract!vars)
    BY <2>2, RefundRefunds DEF Contract!Next
  <2> QED BY <1>5, <2>1, <2>2 DEF Administrator
<1>6. CASE \/ SweepBegin \/ Release \/ DispatchesNothing \/ Claim \/ Crash
           \/ \E q \in Quotes : ExpireRead(Worker, q) \/ SweepSkips(q) \/ DispatchThrows(q)
           \/ ExpireThrows(Worker) \/ UNCHANGED vars
           \/ \E v \in Servers : Age(v)
  BY <1>2, <1>6 DEF SweepBegin, Release, DispatchesNothing, Claim, Crash, ExpireRead,
     SweepSkips, DispatchThrows, ExpireThrows, Age, vars, rows, books
<1>7. CASE ExpireCommit(Worker) \/ \E s \in Sessions : Lapse(s)
  BY <1>0, <1>3, <1>7
<1> QED BY <1>4, <1>5, <1>6, <1>7 DEF Next, Cycle

LEMMA InvInit == Init => IInv
<1> SUFFICES ASSUME Init PROVE IInv
  OBVIOUS
<1>1. TypeOK
  <2>1. session \in [Sessions -> SessionRows]
    BY DEF Init, SessionRows, Flows
  <2>2. quote \in [Quotes -> QuoteRows]
    BY DEF Init, QuoteRows, NotExpired, Flows, QuoteStatuses
  <2>3. order \in [Quotes -> OrderRows] /\ infra \in [Quotes -> InfraRows]
    BY DEF Init, OrderRows, InfraRows, Flows, OrderStatuses, InfraStatuses
  <2>4. server \in [Servers -> ServerRows]
    BY DEF Init, ServerRows
  <2>5. call \in [Callers -> CallRows]
    BY IdleType DEF Init, Places
  <2>6. /\ due \subseteq Quotes /\ units \in Nat /\ balance \in [Customers -> Nat]
        /\ todo \subseteq Quotes /\ crashes \in 0..MaxCrashes
    BY ConstantsAssumption DEF Init
  <2> QED BY <2>1, <2>2, <2>3, <2>4, <2>5, <2>6, Typed
<1>2. Calls
  BY DEF Init, Calls, Idle
<1>3. Paid
  BY DEF Init, Paid, PaidFlowAgrees, Bought
<1> QED BY <1>1, <1>2, <1>3 DEF IInv

LEMMA Invariance == Spec => []IInv
<1>1. IInv /\ [Next]_vars => IInv'
  BY TypeStep, CallsStep, PurchaseStep DEF IInv
<1> QED BY <1>1, InvInit, PTL DEF Spec

\* Every variable keeps its type: no balance or count of units falls below zero.
THEOREM PurchaseTypeCorrect == Spec => []TypeOK
<1>1. IInv => TypeOK
  BY DEF IInv
<1> QED BY <1>1, Invariance, PTL

\* Session, order and infrastructure order of a paid order are always in one flow
\* state and revision, however quotings, sibling orders and expiries interleave.
THEOREM PaidRowsAgree == Spec => []PaidFlowAgrees
<1>1. IInv => PaidFlowAgrees
  BY DEF IInv, Paid
<1> QED BY <1>1, Invariance, PTL

\* Purchases implement PurchaseContract: an offer is paid once at its price from the
\* money there is, one offer of a session at most, and refunded once and in full.
THEOREM PurchaseImplementsContract == Spec => ImplementsContract
<1>1. Init => Contract!Init
  BY DEF Init, Contract!Init, Bought, Refunded
<1>2. IInv /\ [Next]_vars => [Contract!Next]_(Contract!vars)
  BY PurchaseStep
<1> QED BY <1>1, <1>2, Invariance, PTL DEF Spec, ImplementsContract, Contract!Spec

(***************************************************************************)
(* Ready servers.  A server is paid for where no order names it yet, and   *)
(* assigned where nobody else has it: whatever a late expiry or release    *)
(* frees, it never touches an assignment.                                  *)
(***************************************************************************)

Sold ==
    /\ ServersSoldOnce
    /\ \A q \in Quotes : ~Stock(q) => quote[q].server = None

\* A step that assigns no server, and queues or pays no order.
LEMMA SoldKept ==
    ASSUME ServersSoldOnce,
           \A v \in Servers : server'[v].assigned = server[v].assigned,
           \A q \in Quotes : /\ infra'[q].server = infra[q].server
                             /\ infra'[q].status = "QUEUED" <=> infra[q].status = "QUEUED",
           \A q \in Quotes : ~Stock(q) => quote'[q].server = None
    PROVE  Sold'
<1>1. ASSUME NEW v \in Servers, NEW q \in Quotes
      PROVE  server'[v].assigned = q <=>
                 Stock(q) /\ infra'[q].status = "QUEUED" /\ infra'[q].server = v
  BY DEF ServersSoldOnce
<1>2. ASSUME NEW q \in Quotes, NEW r \in Quotes, infra'[q].server = infra'[r].server
      PROVE  q = r \/ infra'[q].server = None
  BY <1>2 DEF ServersSoldOnce
<1> QED BY <1>1, <1>2 DEF Sold, ServersSoldOnce, Stock

LEMMA FreedAssigned ==
    ASSUME TypeOK, NEW v \in Servers
    PROVE  Freed(v).assigned = server[v].assigned /\ AfterRelease[v].assigned = server[v].assigned
<1>1. server[v] \in ServerRows
  BY Typed
<1>2. Freed(v).assigned = server[v].assigned
  BY <1>1 DEF Freed, ServerRows
<1> QED BY <1>2 DEF AfterRelease

LEMMA IssueSold ==
    ASSUME TypeOK, Sold, NEW q \in Quotes, Issue(q), UNCHANGED infra
    PROVE  Sold'
<1>1. quote[q] \in QuoteRows /\ quote \in [Quotes -> QuoteRows]
  BY Typed
<1>2. CASE ~Stock(q)
  <2>1. [quote[q] EXCEPT !.status = "ACTIVE"].server = quote[q].server
    BY <1>1 DEF QuoteRows
  <2>2. quote' = [quote EXCEPT ![q] = [quote[q] EXCEPT !.status = "ACTIVE"]] /\ server' = server
    BY <1>2 DEF Issue
  <2>3. ASSUME NEW r \in Quotes PROVE quote'[r].server = quote[r].server
    BY <1>1, <2>1, <2>2
  <2> QED BY <2>2, <2>3, SoldKept DEF Sold
<1>3. CASE Stock(q)
  <2>1. PICK v \in Servers :
          /\ quote' = [quote EXCEPT ![q] = [quote[q] EXCEPT !.status = "ACTIVE", !.server = v]]
          /\ server' = [AfterRelease EXCEPT ![v] =
                 [AfterRelease[v] EXCEPT !.status = "RESERVED", !.quote = q]]
    BY <1>3 DEF Issue
  <2>2. AfterRelease \in [Servers -> ServerRows]
    BY AfterReleaseType, Typed
  <2>3. [AfterRelease[v] EXCEPT !.status = "RESERVED", !.quote = q].assigned
          = AfterRelease[v].assigned
    <3>1. AfterRelease[v] \in ServerRows
      BY <2>2
    <3> QED BY <3>1 DEF ServerRows
  <2>4. ASSUME NEW x \in Servers PROVE server'[x].assigned = server[x].assigned
    BY <2>1, <2>2, <2>3, FreedAssigned
  <2>5. ASSUME NEW r \in Quotes, ~Stock(r) PROVE quote'[r].server = None
    BY <1>1, <1>3, <2>1, <2>5 DEF Sold
  <2> QED BY <2>4, <2>5, SoldKept DEF Sold
<1> QED BY <1>2, <1>3

\* Other steps on servers and quotes.
LEMMA ServersStepSold ==
    ASSUME TypeOK, Sold, NEW p \in Callers,
           \/ \E v \in Servers : Age(v)
           \/ \E reachable \in BOOLEAN : ObserveWrite(p, reachable)
           \/ PayRelease(p) \/ Release \/ Invalidate(p) \/ OrderCommit(p) \/ ExpireCommit(p)
           \/ \E fresh \in SUBSET Quotes, blind \in BOOLEAN : RequoteCommit(p, fresh, blind)
    PROVE  Sold'
<1>0. server \in [Servers -> ServerRows] /\ quote \in [Quotes -> QuoteRows]
  BY Typed
<1>1. ASSUME infra' = infra, quote' = quote,
             \A x \in Servers : server'[x].assigned = server[x].assigned
      PROVE  Sold'
  BY <1>1, SoldKept DEF Sold
<1>2. ASSUME infra' = infra,
             \A x \in Servers : server'[x].assigned = server[x].assigned,
             \A r \in Quotes : quote'[r].server = quote[r].server
      PROVE  Sold'
  BY <1>2, SoldKept DEF Sold
<1>3. ASSUME NEW v \in Servers, Age(v) PROVE Sold'
  <2>1. [server[v] EXCEPT !.fresh = FALSE].assigned = server[v].assigned
    BY <1>0 DEF ServerRows
  <2>2. server' = [server EXCEPT ![v] = [server[v] EXCEPT !.fresh = FALSE]]
    BY <1>3 DEF Age
  <2>3. \A x \in Servers : server'[x].assigned = server[x].assigned
    BY <1>0, <2>1, <2>2
  <2> QED BY <1>1, <1>3, <2>3 DEF Age, books
<1>4. ASSUME NEW reachable \in BOOLEAN, ObserveWrite(p, reachable) PROVE Sold'
  <2> DEFINE v == call[p].server
             row == [server[v] EXCEPT !.status = "AVAILABLE", !.fresh = reachable]
  <2>1. v \in Servers => row.assigned = server[v].assigned
    <3>1. v \in Servers => server[v] \in ServerRows
      BY <1>0
    <3> HIDE DEF v
    <3> QED BY <3>1 DEF ServerRows
  <2>2. server' = [server EXCEPT ![v] = row]
    BY <1>4 DEF ObserveWrite
  <2> HIDE DEF row, v
  <2>3. \A x \in Servers : server'[x].assigned = server[x].assigned
    BY <1>0, <2>1, <2>2
  <2> QED BY <1>1, <1>4, <2>3 DEF ObserveWrite, books
<1>5. CASE PayRelease(p) \/ Release
  <2>1. \A x \in Servers : server'[x].assigned = server[x].assigned
    BY <1>5, FreedAssigned DEF PayRelease, Release
  <2> QED BY <1>1, <1>5, <2>1 DEF PayRelease, Release, books
<1>6. CASE Invalidate(p)
  <2> DEFINE q == call[p].quote
             row == [quote[q] EXCEPT !.status = IF @ \in Live THEN "INVALIDATED" ELSE @]
  <2>1. q \in Quotes => row.server = quote[q].server
    BY <1>0 DEF QuoteRows
  <2>2. quote' = [quote EXCEPT ![q] = row]
    BY <1>6 DEF Invalidate
  <2> HIDE DEF row, q
  <2>3. \A r \in Quotes : quote'[r].server = quote[r].server
    BY <1>0, <2>1, <2>2
  <2> QED BY <1>2, <1>6, <2>3 DEF Invalidate, books
<1>7. CASE OrderCommit(p)
  <2> DEFINE q == call[p].quote
             v == quote[q].server
             chosen == [quote[q] EXCEPT !.status = "SELECTED"]
             row == [server[v] EXCEPT !.order = q]
  <2>1. q \in Quotes => chosen.server = quote[q].server
    BY <1>0 DEF QuoteRows
  <2>2. v \in Servers => row.assigned = server[v].assigned
    <3> HIDE DEF v
    <3> QED BY <1>0 DEF ServerRows
  <2>3. /\ quote' = [quote EXCEPT ![q] = chosen] /\ infra' = infra
        /\ server' = server \/ server' = [server EXCEPT ![v] = row]
    BY <1>7 DEF OrderCommit
  <2> HIDE DEF row, chosen, v, q
  <2>4. \A r \in Quotes : quote'[r].server = quote[r].server
    BY <1>0, <2>1, <2>3
  <2>5. \A x \in Servers : server'[x].assigned = server[x].assigned
    BY <1>0, <2>2, <2>3
  <2> QED BY <1>2, <2>3, <2>4, <2>5
<1>8. CASE ExpireCommit(p)
  <2> DEFINE q == call[p].quote
             v == call[p].server
             e == IF ExpiryMoves(p) THEN ExpiryOf(p) ELSE quote[q].expiry
             row == [quote[q] EXCEPT !.status = "EXPIRED", !.expiry = e]
  <2>1. q \in Quotes => row.server = quote[q].server
    <3> HIDE DEF e
    <3> QED BY <1>0 DEF QuoteRows
  <2>2. v \in Servers => Freed(v).assigned = server[v].assigned
    BY FreedAssigned
  <2>3. /\ quote' = [quote EXCEPT ![q] = row] /\ infra' = infra
        /\ server' = server \/ server' = [server EXCEPT ![v] = Freed(v)]
    BY <1>8 DEF ExpireCommit
  <2> HIDE DEF row, v, q
  <2>4. \A r \in Quotes : quote'[r].server = quote[r].server
    BY <1>0, <2>1, <2>3
  <2>5. \A x \in Servers : server'[x].assigned = server[x].assigned
    BY <1>0, <2>2, <2>3
  <2> QED BY <1>2, <2>3, <2>4, <2>5
<1>9. ASSUME NEW fresh \in SUBSET Quotes, NEW blind \in BOOLEAN, RequoteCommit(p, fresh, blind)
      PROVE  Sold'
  <2>1. ASSUME NEW r \in Quotes, NEW status
        PROVE  [quote[r] EXCEPT !.status = status].server = quote[r].server
    BY <1>0 DEF QuoteRows
  <2>2. \A r \in Quotes : quote'[r].server = quote[r].server
    BY <1>9, <2>1 DEF RequoteCommit
  <2> QED BY <1>2, <1>9, <2>2 DEF RequoteCommit, books
<1> QED BY <1>3, <1>4, <1>5, <1>6, <1>7, <1>8, <1>9

\* An order is paid: no other names the server, and this one was not queued.
LEMMA PaySold ==
    ASSUME IInv, Sold, NEW p \in Callers, NEW q \in Quotes, Pay(p, q)
    PROVE  Sold'
<1> DEFINE to == Moved(order[q], "PAID", 1)
           bill == [infra[q] EXCEPT !.status = "WAITING_ADMIN_FUNDING",
                        !.flow = to.flow, !.rev = to.rev, !.server = quote[q].server]
           done == [quote[q] EXCEPT !.status = "CONVERTED"]
<1>1. /\ quote \in [Quotes -> QuoteRows] /\ infra \in [Quotes -> InfraRows]
      /\ order[q].status = "PENDING_PAYMENT"
  BY Typed DEF IInv, Pay, Payable
<1>2. infra[q].status # "QUEUED"
  BY <1>1 DEF IInv, Paid
<1>3. bill.server = quote[q].server /\ bill.status = "WAITING_ADMIN_FUNDING"
  <2> HIDE DEF to
  <2>1. bill.server = quote[q].server
    BY <1>1 DEF InfraRows
  <2>2. bill.status = "WAITING_ADMIN_FUNDING"
    BY <1>1 DEF InfraRows
  <2> HIDE DEF bill
  <2> QED BY <2>1, <2>2
<1>4. done.server = quote[q].server
  BY <1>1 DEF QuoteRows
<1>5. /\ infra' = [infra EXCEPT ![q] = bill] /\ quote' = [quote EXCEPT ![q] = done]
      /\ server' = server
      /\ Stock(q) => \A r \in Quotes : infra[r].server # quote[q].server
  BY DEF Pay, Payable
<1> HIDE DEF bill, done
<1>6. \A r \in Quotes : quote'[r].server = quote[r].server
  BY <1>1, <1>4, <1>5
<1>7. /\ infra'[q].status = "WAITING_ADMIN_FUNDING" /\ infra'[q].server = quote[q].server
      /\ \A r \in Quotes \ {q} : infra'[r] = infra[r]
  BY <1>1, <1>3, <1>5
<1>8. ASSUME NEW v \in Servers, NEW r \in Quotes
      PROVE  server'[v].assigned = r <=>
                 Stock(r) /\ infra'[r].status = "QUEUED" /\ infra'[r].server = v
  <2>1. server[v].assigned = r <=>
            Stock(r) /\ infra[r].status = "QUEUED" /\ infra[r].server = v
    BY DEF Sold, ServersSoldOnce
  <2> QED BY <1>2, <1>5, <1>7, <2>1
<1>9. ASSUME NEW r \in Quotes, NEW x \in Quotes, infra'[r].server = infra'[x].server
      PROVE  r = x \/ infra'[r].server = None
  <2>1. ~Stock(q) => quote[q].server = None
    BY DEF Sold
  <2>2. CASE r # q /\ x # q
    BY <1>7, <1>9, <2>2 DEF Sold, ServersSoldOnce
  <2>3. CASE r = q \/ x = q
    BY <1>5, <1>7, <1>9, <2>1, <2>3
  <2> QED BY <2>2, <2>3
<1>10. \A r \in Quotes : ~Stock(r) => quote'[r].server = None
  BY <1>6 DEF Sold
<1> QED BY <1>8, <1>9, <1>10 DEF Sold, ServersSoldOnce, Stock

\* An administrator's step: nothing was queued, and nothing is.
LEMMA AdministratorSold ==
    ASSUME IInv, Sold, NEW q \in Quotes,
           Approve(q) \/ Hold(q) \/ ManualProvision(q) \/ Refund(q)
    PROVE  Sold'
<1>1. infra[q] \in InfraRows /\ infra \in [Quotes -> InfraRows]
  BY Typed DEF IInv
<1>2. infra[q].status # "QUEUED" /\ UNCHANGED <<quote, server>>
  BY DEF Approve, Hold, ManualProvision, Refund, Approvable
<1>3. ASSUME NEW row, row.server = infra[q].server, row.status # "QUEUED",
             infra' = [infra EXCEPT ![q] = row]
      PROVE  Sold'
  <2>1. \A r \in Quotes : /\ infra'[r].server = infra[r].server
                          /\ infra'[r].status = "QUEUED" <=> infra[r].status = "QUEUED"
    BY <1>1, <1>2, <1>3
  <2> QED BY <1>2, <2>1, SoldKept DEF Sold
<1>4. ASSUME NEW row \in InfraRows, NEW to \in Flows, NEW n \in Nat
      PROVE  Moved(row, to, n).server = row.server /\ Moved(row, to, n).status = row.status
  BY DEF Moved, InfraRows
<1>5. ASSUME NEW status \in InfraStatuses
      PROVE  /\ [infra[q] EXCEPT !.status = status] \in InfraRows
             /\ [infra[q] EXCEPT !.status = status].server = infra[q].server
             /\ [infra[q] EXCEPT !.status = status].status = status
  BY <1>1 DEF InfraRows
<1>6. /\ {"MANUAL_REVIEW", "PROVISIONING", "REFUNDED", "FUNDING_CONFIRMED"} \subseteq InfraStatuses
      /\ {"PROVISION_APPROVED", "CANCELLED", "WAITING_ADMIN_DELIVERY_APPROVAL"} \subseteq Flows
      /\ 1 \in Nat /\ 4 \in Nat
  BY DEF InfraStatuses, Flows
<1>7. CASE Approve(q)
  <2> DEFINE row == [infra[q] EXCEPT !.status = "FUNDING_CONFIRMED", !.ahead = Approved]
             moved == Moved(row, "PROVISION_APPROVED", 1)
  <2>1. row \in InfraRows /\ row.server = infra[q].server /\ row.status = "FUNDING_CONFIRMED"
    BY <1>1 DEF InfraRows, InfraStatuses, Approved
  <2>2. infra' = [infra EXCEPT ![q] = moved]
    BY <1>7 DEF Approve
  <2> HIDE DEF row
  <2>3. moved.server = infra[q].server /\ moved.status # "QUEUED"
    BY <1>4, <1>6, <2>1
  <2> HIDE DEF moved
  <2> QED BY <1>3, <2>2, <2>3
<1>8. CASE Hold(q)
  <2> DEFINE row == [infra[q] EXCEPT !.status = "MANUAL_REVIEW"]
  <2>1. row.server = infra[q].server /\ row.status # "QUEUED"
    BY <1>5, <1>6
  <2>2. infra' = [infra EXCEPT ![q] = row]
    BY <1>8 DEF Hold
  <2> HIDE DEF row
  <2> QED BY <1>3, <2>1, <2>2
<1>9. CASE ManualProvision(q) \/ Refund(q)
  <2>1. PICK status \in {"PROVISIONING", "REFUNDED"},
             to \in {"CANCELLED", "WAITING_ADMIN_DELIVERY_APPROVAL"}, n \in {1, 4} :
            infra' = [infra EXCEPT ![q] = Moved([infra[q] EXCEPT !.status = status], to, n)]
    BY <1>9 DEF ManualProvision, Refund, AllMove
  <2> DEFINE row == [infra[q] EXCEPT !.status = status]
             moved == Moved(row, to, n)
  <2>2. row \in InfraRows /\ row.server = infra[q].server /\ row.status = status
    BY <1>5, <1>6
  <2> HIDE DEF row
  <2>3. moved.server = infra[q].server /\ moved.status # "QUEUED"
    BY <1>4, <1>6, <2>2
  <2>4. infra' = [infra EXCEPT ![q] = moved]
    BY <2>1 DEF row
  <2> HIDE DEF moved
  <2> QED BY <1>3, <2>3, <2>4
<1> QED BY <1>7, <1>8, <1>9

\* The worker queues an order: its server is assigned to it, and was to nobody.
LEMMA DispatchSold ==
    ASSUME IInv, Sold, NEW q \in Quotes, Dispatch(q)
    PROVE  Sold'
<1> DEFINE v == infra[q].server
           row == [infra[q] EXCEPT !.status = "QUEUED"]
           moved == Moved(row, "PROVISIONING_SUBMITTED", 1)
           taken == [server[v] EXCEPT !.status = "ASSIGNED", !.assigned = q]
<1>1. /\ infra \in [Quotes -> InfraRows] /\ server \in [Servers -> ServerRows]
      /\ infra[q] \in InfraRows /\ v \in Servers \cup {None}
      /\ None \notin Servers \cup Quotes
  BY Typed, ConstantsAssumption DEF IInv, InfraRows
<1>2. /\ infra' = [infra EXCEPT ![q] = moved] /\ quote' = quote
      /\ server' = IF Stock(q) THEN [server EXCEPT ![v] = taken] ELSE server
      /\ Stock(q) => ReservedFor(v, q, q)
      /\ infra[q].status = "FUNDING_CONFIRMED"
  BY DEF Dispatch, AllMove, Deliverable, Oldest, Approved
<1>3. row \in InfraRows /\ row.server = v /\ row.status = "QUEUED"
  BY <1>1 DEF InfraRows, InfraStatuses
<1> HIDE DEF row, v
<1>4. moved.server = v /\ moved.status = "QUEUED"
  BY <1>3 DEF Moved, InfraRows
<1> HIDE DEF moved
<1>5. infra'[q].server = v /\ infra'[q].status = "QUEUED"
      /\ \A r \in Quotes \ {q} : infra'[r] = infra[r]
  BY <1>1, <1>2, <1>4
<1>6. ASSUME Stock(q)
      PROVE  /\ v \in Servers /\ server[v].assigned = None
             /\ server'[v].assigned = q
             /\ \A w \in Servers \ {v} : server'[w] = server[w]
  <2>1. v \in Servers /\ server[v].assigned = None
    BY <1>1, <1>2, <1>6 DEF ReservedFor
  <2>2. taken.assigned = q
    BY <1>1, <2>1 DEF ServerRows
  <2> HIDE DEF taken
  <2> QED BY <1>1, <1>2, <1>6, <2>1, <2>2
<1>7. ASSUME NEW w \in Servers, NEW r \in Quotes
      PROVE  server'[w].assigned = r <=>
                 Stock(r) /\ infra'[r].status = "QUEUED" /\ infra'[r].server = w
  <2>1. /\ server[w].assigned = r <=>
               Stock(r) /\ infra[r].status = "QUEUED" /\ infra[r].server = w
        /\ r # None
    BY <1>1 DEF Sold, ServersSoldOnce
  <2>2. CASE Stock(q) /\ w = v
    <3>1. r # q => ~(Stock(r) /\ infra[r].status = "QUEUED" /\ infra[r].server = w)
      BY <1>6, <2>1, <2>2
    <3> QED BY <1>5, <1>6, <2>2, <3>1
  <2>3. CASE Stock(q) /\ w # v
    <3>1. server'[w].assigned = server[w].assigned
      BY <1>6, <2>3
    <3>2. CASE r = q
      BY <1>2, <1>5, <2>1, <2>3, <3>1, <3>2
    <3>3. CASE r # q
      BY <1>5, <2>1, <3>1, <3>3
    <3> QED BY <3>2, <3>3
  <2>4. CASE ~Stock(q)
    BY <1>2, <1>5, <2>1, <2>4
  <2> QED BY <2>2, <2>3, <2>4
<1>8. \A r \in Quotes : infra'[r].server = infra[r].server
  BY <1>5 DEF v
<1>9. ASSUME NEW r \in Quotes, NEW x \in Quotes, infra'[r].server = infra'[x].server
      PROVE  r = x \/ infra'[r].server = None
  BY <1>8, <1>9 DEF Sold, ServersSoldOnce
<1>10. \A r \in Quotes : ~Stock(r) => quote'[r].server = None
  BY <1>2 DEF Sold
<1> QED BY <1>7, <1>9, <1>10 DEF Sold, ServersSoldOnce, Stock

LEMMA SoldStep == IInv /\ Sold /\ [Next]_vars => Sold'
<1> SUFFICES ASSUME IInv, Sold, [Next]_vars PROVE Sold'
  OBVIOUS
<1>0. Worker \in Callers /\ Requests \subseteq Callers /\ TypeOK
  BY DEF Callers, IInv
<1>1. ASSUME UNCHANGED <<infra, server, quote>> PROVE Sold'
  BY <1>1, SoldKept DEF Sold
<1>2. ASSUME NEW p \in Requests, Request(p) PROVE Sold'
  <2>1. CASE \E q \in Quotes : Checkout(p, q) \/ \E r \in Quotes : Refresh(p, q, r)
    BY <1>0, <2>1, IssueSold DEF Checkout, Refresh, books
  <2>2. CASE \E q \in Quotes : Pay(p, q)
    BY <1>0, <2>2, PaySold
  <2>3. CASE \/ \E reachable \in BOOLEAN : ObserveWrite(p, reachable)
             \/ PayRelease(p) \/ Invalidate(p) \/ OrderCommit(p) \/ ExpireCommit(p)
             \/ \E fresh \in SUBSET Quotes, blind \in BOOLEAN : RequoteCommit(p, fresh, blind)
    BY <1>0, <2>3, ServersStepSold
  <2>4. CASE \/ \E q \in Quotes : OrderRead(p, q) \/ PayFails(p, q) \/ ExpireRead(p, q)
             \/ \E s \in Sessions : RequoteRead(p, s)
             \/ \E v \in Servers : ObserveRead(p, v)
             \/ PayCaught(p) \/ ExpireThrows(p) \/ Fails(p)
    BY <1>1, <2>4 DEF OrderRead, PayFails, ExpireRead, RequoteRead, ObserveRead,
       PayCaught, ExpireThrows, Fails, rows, books
  <2> QED BY <1>2, <2>1, <2>2, <2>3, <2>4 DEF Request
<1>3. CASE Administrator
  BY <1>3, AdministratorSold DEF Administrator
<1>4. CASE \E q \in Quotes : Dispatch(q)
  BY <1>4, DispatchSold
<1>5. CASE Release \/ ExpireCommit(Worker) \/ \E v \in Servers : Age(v)
  BY <1>0, <1>5, ServersStepSold
<1>6. CASE \/ SweepBegin \/ DispatchesNothing \/ Claim \/ Crash
           \/ \E q \in Quotes : ExpireRead(Worker, q) \/ SweepSkips(q) \/ DispatchThrows(q)
           \/ ExpireThrows(Worker) \/ UNCHANGED vars
           \/ \E s \in Sessions : Lapse(s)
  BY <1>1, <1>6 DEF SweepBegin, DispatchesNothing, Claim, Crash, ExpireRead,
     SweepSkips, DispatchThrows, ExpireThrows, Lapse, vars, rows, books
<1> QED BY <1>2, <1>3, <1>4, <1>5, <1>6 DEF Next, Cycle

\* A ready server is assigned exactly to the queued order that was paid for it, and
\* no two orders were ever paid with one server, whatever is freed in between.
THEOREM ServersAreSoldOnce == Spec => []ServersSoldOnce
<1>1. Init => Sold
  <2> SUFFICES ASSUME Init PROVE Sold
    OBVIOUS
  <2>1. \A q \in Quotes : /\ infra[q].status = "NONE" /\ infra[q].server = None
                          /\ quote[q].server = None
    BY DEF Init
  <2>2. \A v \in Servers, q \in Quotes : server[v].assigned # q
    BY ConstantsAssumption DEF Init
  <2> QED BY <2>1, <2>2 DEF Sold, ServersSoldOnce
<1>2. Sold => ServersSoldOnce
  BY DEF Sold
<1>3. IInv /\ Sold /\ [Next]_vars => Sold'
  BY SoldStep
<1> QED BY <1>1, <1>2, <1>3, Invariance, PTL DEF Spec
(***************************************************************************)
(* Quotes and their orders.  Only a call that began before a quote was due *)
(* can still make its order, and only while the session has not moved: so  *)
(* an expiry that read no order, and finds one, has read the flow QUOTED,  *)
(* and its move leaves that order behind the session for good.             *)
(***************************************************************************)

Ordering(p) == call[p].pc = "ordering"
Expiring(p) == call[p].pc = "expiring"
SessionRev(q) == session[SessionOf[q]].rev

\* An order that awaits payment is never ahead of its session.
Pending(q) ==
    q \notin Bought =>
        /\ order[q].status = "NONE" => order[q].flow = "DRAFT"
        /\ order[q].status = "PENDING_PAYMENT" =>
               order[q].flow \in {"AWAITING_PAYMENT", "QUOTE_EXPIRED"}
        /\ order[q].rev <= SessionRev(q)

\* Once an expiry has moved a session, no order of its quote keeps up with it.
Left(q) ==
    quote[q].expiry # NotExpired =>
        /\ q \in due
        /\ \A p \in Callers : Ordering(p) /\ call[p].quote = q => call[p].rev < SessionRev(q)
        /\ q \notin Bought /\ order[q].flow = "AWAITING_PAYMENT" => order[q].rev < SessionRev(q)

\* What an order's call has read is no newer than the session.
OrderCalls(q) ==
    \A p \in Callers : Ordering(p) /\ call[p].quote = q => call[p].rev <= SessionRev(q)

\* What an expiry has read is still true, or an order has been made since.
ExpiryCall(p, q) ==
    /\ q \in due /\ q \notin Bought
    /\ call[p].ordered =>
           order[q].status # "NONE"
           /\ (call[p].flow \notin Expireable => order[q].flow = "QUOTE_EXPIRED")
    /\ ~call[p].ordered /\ call[p].flow # "QUOTED" =>
           /\ order[q].status = "NONE"
           /\ \A o \in Callers : Ordering(o) /\ call[o].quote = q =>
                  call[o].rev < SessionRev(q) \/ ~SessionAt(SessionOf[q], "QUOTED")
ExpiryCalls(q) ==
    \A p \in Callers : Expiring(p) /\ call[p].quote = q => ExpiryCall(p, q)

Fits(q) ==
    /\ quote[q].status = "CONVERTED" <=> q \in Bought
    /\ quote[q].status = "EXPIRED" => ~OrderAt(q, "AWAITING_PAYMENT")
MatchedAt(q) == Fits(q) /\ Pending(q) /\ Left(q) /\ OrderCalls(q) /\ ExpiryCalls(q)
Matched == \A q \in Quotes : MatchedAt(q)

\* What a step does to sessions, quotes, orders and calls that OrderCommit and
\* ExpireCommit do not.  A session that moves gets a new revision.
Forward ==
    \A s \in Sessions :
        \/ session'[s].rev > session[s].rev
        \/ session'[s].rev = session[s].rev /\ session'[s].flow = session[s].flow
QuoteKeeps(q) ==
    /\ quote'[q].expiry = quote[q].expiry
    /\ quote'[q].status = "EXPIRED" => quote[q].status = "EXPIRED"
    /\ quote'[q].status = "CONVERTED" <=>
           quote[q].status = "CONVERTED" \/ q \in Bought' \ Bought
OrderKeeps(q) ==
    /\ q \in Bought => q \in Bought'
    /\ q \in Bought' \ Bought => q \notin due
    /\ order'[q] = order[q] \/ q \in Bought'
QuotesKeep == \A q \in Quotes : QuoteKeeps(q)
OrdersKeep == \A q \in Quotes : OrderKeeps(q)
ReadsOrder(p) ==
    /\ call'[p].pc = "ordering" /\ UNCHANGED <<session, due>>
    /\ call'[p].quote \notin due /\ call'[p].rev = SessionRev(call'[p].quote)
ReadsExpiry(p) ==
    LET q == call'[p].quote
    IN  /\ call'[p].pc = "expiring" /\ UNCHANGED <<session, due, order>>
        /\ q \in due \ Bought
        /\ call'[p].ordered = (order[q].status # "NONE")
        /\ call'[p].flow = IF order[q].status # "NONE" THEN order[q].flow
                           ELSE session[SessionOf[q]].flow
Waits(p) == call'[p].pc \notin {"ordering", "expiring"}
CallsKeep ==
    \A p \in Callers : call'[p] = call[p] \/ Waits(p) \/ ReadsOrder(p) \/ ReadsExpiry(p)

LEMMA Revisions ==
    ASSUME TypeOK, NEW q \in Quotes
    PROVE  SessionRev(q) \in Nat /\ order[q].rev \in Nat /\ SessionOf[q] \in Sessions
BY Typed, ConstantsAssumption DEF SessionRows, OrderRows, SessionRev

LEMMA TypedLater ==
    ASSUME TypeOK'
    PROVE  /\ session' \in [Sessions -> SessionRows] /\ order' \in [Quotes -> OrderRows]
           /\ quote' \in [Quotes -> QuoteRows] /\ call' \in [Callers -> CallRows]
BY DEF TypeOK, SessionRows, QuoteRows, OrderRows, CallRows, Places

LEMMA Behind ==
    ASSUME IInv, IInv', Forward, NEW q \in Quotes
    PROVE  /\ SessionRev(q) \in Nat /\ SessionRev(q)' \in Nat /\ SessionRev(q)' >= SessionRev(q)
           /\ order[q].rev \in Nat /\ order'[q].rev \in Nat
           /\ SessionRev(q)' = SessionRev(q) =>
                  session'[SessionOf[q]].flow = session[SessionOf[q]].flow
<1>1. SessionOf[q] \in Sessions
  BY ConstantsAssumption
<1>2. /\ session[SessionOf[q]].rev \in Nat /\ session'[SessionOf[q]].rev \in Nat
      /\ order[q].rev \in Nat /\ order'[q].rev \in Nat
  <2>1. session \in [Sessions -> SessionRows] /\ order \in [Quotes -> OrderRows]
    BY Typed DEF IInv
  <2>2. session' \in [Sessions -> SessionRows] /\ order' \in [Quotes -> OrderRows]
    BY TypedLater DEF IInv
  <2> QED BY <1>1, <2>1, <2>2 DEF SessionRows, OrderRows
<1> QED BY <1>1, <1>2 DEF Forward, SessionRev


\* A quote whose row and order a step leaves alone, or whose order it pays.
LEMMA OneQuote ==
    ASSUME IInv, IInv', NEW q \in Quotes, MatchedAt(q), Forward, due \subseteq due',
           QuoteKeeps(q), OrderKeeps(q), CallsKeep
    PROVE  MatchedAt(q)'
<1>0. Fits(q) /\ Pending(q) /\ Left(q) /\ OrderCalls(q) /\ ExpiryCalls(q)
  BY DEF MatchedAt
<1>1. Fits(q)'
  <2>1. quote'[q].status = "CONVERTED" <=> q \in Bought'
    BY <1>0 DEF QuoteKeeps, OrderKeeps, Fits
  <2>2. ASSUME quote'[q].status = "EXPIRED", OrderAt(q, "AWAITING_PAYMENT")' PROVE FALSE
    <3>1. q \notin Bought' /\ q \notin Bought /\ order'[q] = order[q]
      BY <2>1, <2>2 DEF OrderKeeps
    <3>2. quote[q].status = "EXPIRED" /\ ~OrderAt(q, "AWAITING_PAYMENT")
      BY <1>0, <2>2 DEF QuoteKeeps, Fits
    <3>3. /\ order[q].flow = "AWAITING_PAYMENT"
          /\ session'[SessionOf[q]].flow = "AWAITING_PAYMENT" /\ SessionRev(q)' = order[q].rev
      BY <2>2, <3>1 DEF OrderAt, SessionAt, SessionRev
    <3>4. order[q].rev <= SessionRev(q)
      BY <1>0, <3>1 DEF Pending
    <3>5. SessionRev(q)' = SessionRev(q)
      BY <3>3, <3>4, Behind
    <3>6. session[SessionOf[q]].flow = "AWAITING_PAYMENT"
      BY <3>3, <3>5, Behind
    <3> QED BY <3>2, <3>3, <3>5, <3>6 DEF OrderAt, SessionAt, SessionRev
  <2> QED BY <2>1, <2>2 DEF Fits
<1>2. Pending(q)'
  <2>1. ASSUME q \notin Bought' PROVE q \notin Bought /\ order'[q] = order[q]
    BY <2>1 DEF OrderKeeps
  <2> QED BY <1>0, <2>1, Behind DEF Pending
<1>3. ASSUME NEW p \in Callers, Ordering(p)'
      PROVE  \/ call'[p] = call[p] /\ Ordering(p) /\ call[p].rev \in Nat
             \/ ReadsOrder(p)
  BY <1>3, Typed DEF CallsKeep, Ordering, Waits, ReadsExpiry, IInv, CallRows
<1>4. Left(q)'
  <2> SUFFICES ASSUME quote'[q].expiry # NotExpired
               PROVE  /\ q \in due'
                      /\ \A p \in Callers : Ordering(p)' /\ call'[p].quote = q =>
                             call'[p].rev < SessionRev(q)'
                      /\ q \notin Bought' /\ order'[q].flow = "AWAITING_PAYMENT" =>
                             order'[q].rev < SessionRev(q)'
    BY DEF Left
  <2>1. quote[q].expiry # NotExpired /\ q \in due
    BY <1>0 DEF QuoteKeeps, Left
  <2>2. ASSUME NEW p \in Callers, Ordering(p)', call'[p].quote = q
        PROVE  call'[p].rev < SessionRev(q)'
    <3>1. call'[p] = call[p] /\ Ordering(p) /\ call[p].rev \in Nat
      BY <1>3, <2>1, <2>2 DEF ReadsOrder
    <3>2. call[p].rev < SessionRev(q)
      BY <1>0, <2>1, <2>2, <3>1 DEF Left
    <3> QED BY <3>1, <3>2, Behind
  <2>3. ASSUME q \notin Bought', order'[q].flow = "AWAITING_PAYMENT"
        PROVE  order'[q].rev < SessionRev(q)'
    <3>1. q \notin Bought /\ order'[q] = order[q]
      BY <2>3 DEF OrderKeeps
    <3> QED BY <1>0, <2>1, <2>3, <3>1, Behind DEF Left
  <2> QED BY <2>1, <2>2, <2>3
<1>5. OrderCalls(q)'
  <2> SUFFICES ASSUME NEW p \in Callers, Ordering(p)', call'[p].quote = q
               PROVE  call'[p].rev <= SessionRev(q)'
    BY DEF OrderCalls
  <2>1. CASE call'[p] = call[p] /\ Ordering(p) /\ call[p].rev \in Nat
    BY <1>0, <2>1, Behind DEF OrderCalls
  <2>2. CASE ReadsOrder(p)
    BY <2>2, Behind DEF ReadsOrder, SessionRev
  <2> QED BY <1>3, <2>1, <2>2
<1>6. ASSUME NEW p \in Callers, Expiring(p)', call'[p].quote = q
      PROVE  ExpiryCall(p, q)'
  <2>1. CASE call'[p] = call[p]
    <3>1. Expiring(p) /\ call[p].quote = q
      BY <1>6, <2>1 DEF Expiring
    <3>2. q \in due /\ q \notin Bought
      BY <1>0, <3>1 DEF ExpiryCalls, ExpiryCall
    <3>3. q \in due' /\ q \notin Bought' /\ order'[q] = order[q]
      BY <3>2 DEF OrderKeeps
    <3>4. /\ call'[p].ordered =>
                 order'[q].status # "NONE"
                 /\ (call'[p].flow \notin Expireable => order'[q].flow = "QUOTE_EXPIRED")
          /\ ~call'[p].ordered /\ call'[p].flow # "QUOTED" => order'[q].status = "NONE"
      BY <1>0, <2>1, <3>1, <3>3 DEF ExpiryCalls, ExpiryCall
    <3>5. ASSUME ~call'[p].ordered, call'[p].flow # "QUOTED",
                 NEW o \in Callers, Ordering(o)', call'[o].quote = q,
                 SessionAt(SessionOf[q], "QUOTED")'
          PROVE  call'[o].rev < SessionRev(q)'
      <4>1. call'[o] = call[o] /\ Ordering(o) /\ call[o].rev \in Nat
        BY <1>3, <3>2, <3>5 DEF ReadsOrder
      <4>2. call[o].rev < SessionRev(q) \/ ~SessionAt(SessionOf[q], "QUOTED")
        BY <1>0, <2>1, <3>1, <3>5, <4>1 DEF ExpiryCalls, ExpiryCall
      <4>3. call[o].rev <= SessionRev(q)
        BY <1>0, <3>5, <4>1 DEF OrderCalls
      <4>4. CASE call[o].rev < SessionRev(q)
        BY <4>1, <4>4, Behind
      <4>5. CASE ~SessionAt(SessionOf[q], "QUOTED")
        <5>1. SessionRev(q)' # SessionRev(q)
          BY <3>5, <4>5, Behind DEF SessionAt
        <5> QED BY <4>1, <4>3, <5>1, Behind
      <4> QED BY <4>2, <4>4, <4>5
    <3> QED BY <3>3, <3>4, <3>5 DEF ExpiryCall
  <2>2. CASE ReadsExpiry(p)
    <3>1. /\ q \in due' /\ q \in due /\ q \notin Bought /\ order' = order /\ session' = session
          /\ call'[p].ordered = (order[q].status # "NONE")
          /\ call'[p].flow = IF order[q].status # "NONE" THEN order[q].flow
                             ELSE session[SessionOf[q]].flow
      BY <1>6, <2>2 DEF ReadsExpiry
    <3>2. q \notin Bought'
      BY <3>1 DEF Bought
    <3>3. ASSUME call'[p].ordered, call'[p].flow \notin Expireable
          PROVE  order'[q].flow = "QUOTE_EXPIRED"
      <4>1. order[q].status = "PENDING_PAYMENT"
        <5>1. order[q].status \in OrderStatuses
          BY Typed DEF IInv, OrderRows
        <5> QED BY <3>1, <3>3, <5>1 DEF OrderStatuses, Bought
      <4>2. order[q].flow \in {"AWAITING_PAYMENT", "QUOTE_EXPIRED"}
        BY <1>0, <3>1, <4>1 DEF Pending
      <4> QED BY <3>1, <3>3, <4>1, <4>2 DEF Expireable
    <3>4. ~call'[p].ordered /\ call'[p].flow # "QUOTED" => ~SessionAt(SessionOf[q], "QUOTED")'
      BY <3>1 DEF SessionAt
    <3> QED BY <3>1, <3>2, <3>3, <3>4 DEF ExpiryCall
  <2> QED BY <1>6, <2>1, <2>2 DEF CallsKeep, Waits, Expiring, ReadsOrder
<1>7. ExpiryCalls(q)'
  BY <1>6 DEF ExpiryCalls
<1> QED BY <1>1, <1>2, <1>4, <1>5, <1>7 DEF MatchedAt

LEMMA KeptMatched ==
    ASSUME IInv, IInv', Matched, Forward, due \subseteq due',
           QuotesKeep, OrdersKeep, CallsKeep
    PROVE  Matched'
BY OneQuote DEF Matched, QuotesKeep, OrdersKeep

LEMMA ForwardMove ==
    ASSUME TypeOK, NEW s, NEW to \in Flows, NEW n \in Nat \ {0},
           \/ session' = session
           \/ session' = [session EXCEPT ![s] = Moved(session[s], to, n)]
    PROVE  Forward
<1>1. session \in [Sessions -> SessionRows]
  BY Typed
<1>2. ASSUME NEW t \in Sessions, session' = [session EXCEPT ![s] = Moved(session[s], to, n)]
      PROVE  session'[t].rev > session[t].rev \/ session'[t] = session[t]
  <2>1. CASE t = s
    <3>1. session[t] \in SessionRows /\ session'[t] = Moved(session[t], to, n)
      BY <1>1, <1>2, <2>1
    <3>2. session'[t].rev = session[t].rev + n
      BY <3>1, MovedSession
    <3>3. session[t].rev \in Nat
      BY <3>1 DEF SessionRows
    <3> QED BY <3>2, <3>3
  <2>2. CASE t # s
    BY <1>1, <1>2, <2>2
  <2> QED BY <2>1, <2>2
<1>3. ASSUME NEW t \in Sessions, session' = session PROVE session'[t] = session[t]
  BY <1>3
<1> QED BY <1>2, <1>3 DEF Forward

\* The marks a step leaves on quotes that are neither due nor bought by it.
LEMMA QuoteMark ==
    ASSUME NEW row \in QuoteRows, NEW status \in QuoteStatuses
    PROVE  /\ [row EXCEPT !.status = status].expiry = row.expiry
           /\ [row EXCEPT !.status = status].status = status
BY DEF QuoteRows

\* A step that leaves every order, and the calls of the others, alone.
LEMMA SameOrders ==
    ASSUME order' = order PROVE OrdersKeep /\ Bought' = Bought
BY DEF OrdersKeep, OrderKeeps, Bought

LEMMA SameQuotes ==
    ASSUME quote' = quote, Bought' = Bought PROVE QuotesKeep
BY DEF QuotesKeep, QuoteKeeps

\* A step after which one call, at most, has left its place for one that reads nothing.
LEMMA OneCall ==
    ASSUME TypeOK, NEW p, NEW row, row.pc \notin {"ordering", "expiring"},
           call' = call \/ call' = [call EXCEPT ![p] = row]
    PROVE  CallsKeep
BY Typed DEF CallsKeep, Waits

LEMMA IdlePlace == ASSUME NEW pc PROVE Idle(pc).pc = pc
BY DEF Idle

\* Reads, and steps of the worker that write servers and its own place only.
LEMMA ReadMatched ==
    ASSUME IInv, IInv', Matched, NEW p \in Callers,
           \/ \E v \in Servers : ObserveRead(p, v)
           \/ \E s \in Sessions : RequoteRead(p, s)
           \/ \E q \in Quotes : OrderRead(p, q) \/ PayFails(p, q) \/ ExpireRead(p, q)
           \/ PayCaught(p)
    PROVE  Matched'
<1>0. /\ UNCHANGED <<session, quote, order, due>> /\ due \subseteq due'
      /\ TypeOK /\ call \in [Callers -> CallRows] /\ "DRAFT" \in Flows
  <2>1. UNCHANGED <<rows, due>>
    BY DEF ObserveRead, RequoteRead, OrderRead, PayFails, ExpireRead, PayCaught
  <2> QED BY <2>1, Typed DEF rows, books, IInv, Flows
<1>1. Forward /\ OrdersKeep /\ QuotesKeep
  BY <1>0, ForwardMove, SameOrders, SameQuotes
<1>2. ASSUME CallsKeep PROVE Matched'
  BY <1>0, <1>1, <1>2, KeptMatched
<1>3. ASSUME NEW v \in Servers, ObserveRead(p, v) PROVE CallsKeep
  <2> DEFINE row == [Idle("observing") EXCEPT !.server = v]
  <2>1. row.pc = "observing" /\ call' = [call EXCEPT ![p] = row]
    BY <1>3 DEF ObserveRead, Idle
  <2> HIDE DEF row
  <2> QED BY <1>0, <2>1, OneCall
<1>4. ASSUME NEW s \in Sessions, RequoteRead(p, s) PROVE CallsKeep
  <2> DEFINE row == [Idle("requoting") EXCEPT
                 !.session = s, !.flow = session[s].flow, !.rev = session[s].revision,
                 !.seen = {q \in QuotesOf(s) : quote[q].status \in Live}]
  <2>1. row.pc = "requoting" /\ call' = [call EXCEPT ![p] = row]
    BY <1>4 DEF RequoteRead, Idle
  <2> HIDE DEF row
  <2> QED BY <1>0, <2>1, OneCall
<1>5. ASSUME NEW q \in Quotes, OrderRead(p, q) PROVE CallsKeep
  <2> DEFINE row == [Idle("ordering") EXCEPT !.quote = q, !.rev = session[SessionOf[q]].rev]
  <2>1. /\ row.pc = "ordering" /\ row.quote = q /\ row.rev = SessionRev(q)
        /\ call' = [call EXCEPT ![p] = row] /\ q \notin due
    BY <1>5 DEF OrderRead, Idle, SessionRev
  <2> HIDE DEF row
  <2>2. ReadsOrder(p)
    BY <1>0, <2>1 DEF ReadsOrder
  <2> QED BY <1>0, <2>1, <2>2 DEF CallsKeep
<1>6. ASSUME NEW q \in Quotes, PayFails(p, q) PROVE CallsKeep
  <2> DEFINE row == [Idle("failed") EXCEPT !.quote = q]
  <2>1. row.pc = "failed" /\ call' = [call EXCEPT ![p] = row]
    BY <1>6 DEF PayFails, Idle
  <2> HIDE DEF row
  <2> QED BY <1>0, <2>1, OneCall
<1>7. ASSUME NEW q \in Quotes, ExpireRead(p, q) PROVE CallsKeep
  <2> DEFINE o == order[q].status # "NONE"
             f == IF o THEN order[q].flow ELSE session[SessionOf[q]].flow
  <2>1. PICK v : call' = [call EXCEPT ![p] = [Idle("expiring") EXCEPT
            !.quote = q, !.server = v, !.ordered = o, !.flow = f]]
    BY <1>7 DEF ExpireRead
  <2> DEFINE row == [Idle("expiring") EXCEPT
                 !.quote = q, !.server = v, !.ordered = o, !.flow = f]
  <2>2. row.pc = "expiring" /\ row.quote = q /\ row.ordered = o /\ row.flow = f
    BY DEF Idle
  <2>3. call' = [call EXCEPT ![p] = row] /\ q \in due /\ quote[q].status \in Live
    BY <1>7, <2>1 DEF ExpireRead
  <2>4. q \notin Bought
    BY <2>3 DEF Matched, MatchedAt, Fits, Live
  <2>5. o = (order[q].status # "NONE")
        /\ f = IF order[q].status # "NONE" THEN order[q].flow ELSE session[SessionOf[q]].flow
    OBVIOUS
  <2> HIDE DEF row, o, f
  <2>6. ReadsExpiry(p)
    BY <1>0, <2>2, <2>3, <2>4, <2>5 DEF ReadsExpiry
  <2> QED BY <1>0, <2>3, <2>6 DEF CallsKeep
<1>8. CASE PayCaught(p)
  <2> DEFINE row == [call[p] EXCEPT !.pc = "releasing"]
  <2>1. \/ call' = [call EXCEPT ![p] = Idle("idle")]
        \/ call' = [call EXCEPT ![p] = row]
    BY <1>8 DEF PayCaught
  <2>2. row.pc = "releasing" /\ Idle("idle").pc = "idle"
    BY <1>0 DEF CallRows, Idle
  <2> HIDE DEF row
  <2> QED BY <1>0, <1>2, <2>1, <2>2, OneCall
<1> QED BY <1>2, <1>3, <1>4, <1>5, <1>6, <1>7, <1>8

\* Steps that end a call, or the worker's phase, and leave quotes and orders alone.
LEMMA EndingMatched ==
    ASSUME IInv, IInv', Matched, NEW p \in Callers,
           \/ \E reachable \in BOOLEAN : ObserveWrite(p, reachable)
           \/ PayRelease(p) \/ ExpireThrows(p) \/ Fails(p)
           \/ SweepBegin \/ Release \/ DispatchesNothing \/ Claim \/ Crash
           \/ \E q \in Quotes : SweepSkips(q) \/ DispatchThrows(q)
           \/ \E v \in Servers : Age(v)
           \/ UNCHANGED vars
    PROVE  Matched'
<1>1. UNCHANGED <<session, quote, order, due>>
  BY DEF ObserveWrite, PayRelease, ExpireThrows, Fails, SweepBegin, Release, DispatchesNothing,
     Claim, Crash, SweepSkips, DispatchThrows, Age, vars, rows, books
<1>2. \/ call' = call
      \/ \E x, pc : pc \notin {"ordering", "expiring"} /\ call' = [call EXCEPT ![x] = Idle(pc)]
  BY DEF ObserveWrite, PayRelease, ExpireThrows, Fails, SweepBegin, Release, DispatchesNothing,
     Claim, Crash, SweepSkips, DispatchThrows, Age, vars, Goes
<1>3. CallsKeep
  <2>1. CASE call' = call
    BY <2>1 DEF CallsKeep
  <2>2. CASE call' # call
    <3>1. PICK x, pc : pc \notin {"ordering", "expiring"} /\ call' = [call EXCEPT ![x] = Idle(pc)]
      BY <1>2, <2>2
    <3>2. Idle(pc).pc \notin {"ordering", "expiring"}
      BY <3>1, IdlePlace
    <3> QED BY <3>1, <3>2, OneCall DEF IInv
  <2> QED BY <2>1, <2>2
<1>4. Forward /\ OrdersKeep /\ QuotesKeep
  BY <1>1, ForwardMove, SameOrders, SameQuotes DEF IInv, Flows
<1> QED BY <1>1, <1>3, <1>4, KeptMatched


LEMMA ForwardRow ==
    ASSUME TypeOK, NEW s, NEW row, session' = [session EXCEPT ![s] = row],
           s \in Sessions => \/ row.rev > session[s].rev
                             \/ row.rev = session[s].rev /\ row.flow = session[s].flow
    PROVE  Forward
<1>1. session \in [Sessions -> SessionRows]
  BY Typed
<1>2. ASSUME NEW t \in Sessions
      PROVE  \/ session'[t].rev > session[t].rev
             \/ session'[t].rev = session[t].rev /\ session'[t].flow = session[t].flow
  BY <1>1
<1> QED BY <1>2 DEF Forward

LEMMA QuoteWrite ==
    ASSUME TypeOK, NEW q, NEW row, quote' = [quote EXCEPT ![q] = row],
           q \in Quotes => /\ row.expiry = quote[q].expiry
                           /\ row.status \notin {"EXPIRED", "CONVERTED"}
                           /\ quote[q].status # "CONVERTED",
           Bought' = Bought
    PROVE  QuotesKeep
<1>1. quote \in [Quotes -> QuoteRows]
  BY Typed
<1> QED BY <1>1 DEF QuotesKeep, QuoteKeeps

\* The actions that quote a session, let time pass for it, or end a quote.
LEMMA QuotingMatched ==
    ASSUME IInv, IInv', Matched, NEW p \in Callers,
           \/ \E q \in Quotes : Checkout(p, q) \/ \E r \in Quotes : Refresh(p, q, r)
           \/ \E s \in Sessions : Lapse(s)
           \/ \E fresh \in SUBSET Quotes, blind \in BOOLEAN : RequoteCommit(p, fresh, blind)
           \/ Invalidate(p)
    PROVE  Matched'
<1>0. /\ TypeOK /\ quote \in [Quotes -> QuoteRows] /\ session \in [Sessions -> SessionRows]
      /\ order' = order /\ OrdersKeep /\ Bought' = Bought
  BY SameOrders, Typed DEF Checkout, Refresh, Lapse, RequoteCommit, Invalidate, books, IInv
<1>1. CallsKeep
  <2>1. \/ call' = call \/ call' = [call EXCEPT ![p] = Idle("idle")]
        \/ \E r : call' = [call EXCEPT ![p] = [Idle("refreshing") EXCEPT !.quote = r]]
    BY DEF Checkout, Refresh, Lapse, RequoteCommit, Invalidate
  <2>2. ASSUME NEW r, call' = [call EXCEPT ![p] = [Idle("refreshing") EXCEPT !.quote = r]]
        PROVE  CallsKeep
    <3> DEFINE row == [Idle("refreshing") EXCEPT !.quote = r]
    <3>1. row.pc = "refreshing" /\ call' = [call EXCEPT ![p] = row]
      BY <2>2 DEF Idle
    <3> HIDE DEF row
    <3> QED BY <1>0, <3>1, OneCall
  <2>3. Idle("idle").pc = "idle"
    BY DEF Idle
  <2> QED BY <1>0, <2>1, <2>2, <2>3, OneCall
<1>2. ASSUME NEW q \in Quotes, Issue(q), due' = due PROVE Matched'
  <2>0. "QUOTED" \in Flows /\ Bootstrap \in Nat \ {0}
    BY DEF Flows, Bootstrap
  <2>1. quote[q].status = "NONE" /\ quote[q] \in QuoteRows
    BY <1>0, <1>2 DEF Issue
  <2>2. Forward
    <3>1. session' = [session EXCEPT ![SessionOf[q]] =
                          Moved(session[SessionOf[q]], "QUOTED", Bootstrap)]
      BY <1>2 DEF Issue
    <3> QED BY <1>0, <2>0, <3>1, ForwardMove
  <2>3. \/ quote' = [quote EXCEPT ![q] = [quote[q] EXCEPT !.status = "ACTIVE"]]
        \/ \E v : quote' = [quote EXCEPT ![q] =
               [quote[q] EXCEPT !.status = "ACTIVE", !.server = v]]
    BY <1>2 DEF Issue
  <2>4. QuotesKeep
    <3>1. ASSUME quote' = [quote EXCEPT ![q] = [quote[q] EXCEPT !.status = "ACTIVE"]]
          PROVE  QuotesKeep
      <4> DEFINE row == [quote[q] EXCEPT !.status = "ACTIVE"]
      <4>1. row.expiry = quote[q].expiry /\ row.status = "ACTIVE"
        BY <2>1 DEF QuoteRows
      <4>2. quote' = [quote EXCEPT ![q] = row]
        BY <3>1
      <4> HIDE DEF row
      <4> QED BY <1>0, <2>1, <4>1, <4>2, QuoteWrite
    <3>2. ASSUME NEW v, quote' = [quote EXCEPT ![q] =
                     [quote[q] EXCEPT !.status = "ACTIVE", !.server = v]]
          PROVE  QuotesKeep
      <4> DEFINE row == [quote[q] EXCEPT !.status = "ACTIVE", !.server = v]
      <4>1. row.expiry = quote[q].expiry /\ row.status = "ACTIVE"
        BY <2>1 DEF QuoteRows
      <4>2. quote' = [quote EXCEPT ![q] = row]
        BY <3>2
      <4> HIDE DEF row
      <4> QED BY <1>0, <2>1, <4>1, <4>2, QuoteWrite
    <3> QED BY <2>3, <3>1, <3>2
  <2> QED BY <1>0, <1>1, <1>2, <2>2, <2>4, KeptMatched
<1>3. ASSUME NEW s \in Sessions, Lapse(s) PROVE Matched'
  <2> DEFINE row == [session[s] EXCEPT !.lapsed = TRUE]
  <2>1. /\ session' = [session EXCEPT ![s] = row] /\ quote' = quote /\ due \subseteq due'
    BY <1>3 DEF Lapse
  <2>2. row.rev = session[s].rev /\ row.flow = session[s].flow
    BY <1>0 DEF SessionRows
  <2> HIDE DEF row
  <2> QED BY <1>0, <1>1, <2>1, <2>2, ForwardRow, SameQuotes, KeptMatched
<1>4. ASSUME NEW fresh \in SUBSET Quotes, NEW blind \in BOOLEAN, RequoteCommit(p, fresh, blind)
      PROVE Matched'
  <2> DEFINE s == call[p].session
             key == <<call[p].rev, call[p].flow>>
             steps == IF call[p].flow = "DELIVERY_CONFIGURED" THEN 1 ELSE 2
             row == [session[s] EXCEPT !.lapsed = FALSE, !.revision = @ + 1,
                                       !.keys = @ \cup {key}]
             found == IF blind THEN call[p].seen ELSE QuotesOf(s)
  <2>1. /\ \/ session' = [session EXCEPT ![s] = row]
           \/ session' = [session EXCEPT ![s] = Moved(row, "QUOTED", steps)]
        /\ due' = due
        /\ \A q \in fresh : quote[q].status = "NONE"
        /\ quote' = [q \in Quotes |->
               IF q \in fresh THEN [quote[q] EXCEPT !.status = "ACTIVE"]
               ELSE IF q \in found /\ quote[q].status \in Live
                    THEN [quote[q] EXCEPT !.status = "INVALIDATED"]
                    ELSE quote[q]]
    BY <1>4 DEF RequoteCommit
  <2>2. s \in Sessions => /\ row.flow = session[s].flow /\ row.rev = session[s].rev
                          /\ session[s].rev \in Nat
    <3>1. s \in Sessions => session[s] \in SessionRows
      BY <1>0
    <3> HIDE DEF s, key
    <3> QED BY <3>1 DEF SessionRows
  <2>3. s \in Sessions => Moved(row, "QUOTED", steps).rev > session[s].rev
    <3>1. steps \in Nat \ {0}
      OBVIOUS
    <3>2. s \in Sessions => row.rev + steps > session[s].rev
      BY <2>2, <3>1
    <3>3. s \in Sessions => Moved(row, "QUOTED", steps).rev = row.rev + steps
      <4>0. s \in Sessions => session[s] \in SessionRows
        BY <1>0
      <4>1. s \in Sessions => DOMAIN row = {"flow", "rev", "lapsed", "revision", "keys"}
        <5> HIDE DEF s, key
        <5> QED BY <4>0 DEF SessionRows
      <4> HIDE DEF row, steps, s
      <4>2. s \in Sessions => [row EXCEPT !.flow = "QUOTED", !.rev = @ + steps].rev = row.rev + steps
        BY <4>1
      <4> QED BY <4>2 DEF Moved
    <3> QED BY <3>2, <3>3
  <2> HIDE DEF s, row, steps, found
  <2>4. Forward
    BY <1>0, <2>1, <2>2, <2>3, ForwardRow
  <2>5. ASSUME NEW q \in Quotes
        PROVE  /\ quote'[q].expiry = quote[q].expiry
               /\ \/ /\ quote'[q].status \in {"ACTIVE", "INVALIDATED"}
                     /\ quote[q].status # "CONVERTED"
                  \/ quote'[q].status = quote[q].status
    <3>1. quote[q] \in QuoteRows /\ "ACTIVE" \in QuoteStatuses /\ "INVALIDATED" \in QuoteStatuses
      BY <1>0 DEF QuoteStatuses
    <3>2. \/ quote'[q] = [quote[q] EXCEPT !.status = "ACTIVE"] /\ quote[q].status # "CONVERTED"
          \/ quote'[q] = [quote[q] EXCEPT !.status = "INVALIDATED"] /\ quote[q].status # "CONVERTED"
          \/ quote'[q] = quote[q]
      <4>1. CASE q \in fresh
        BY <2>1, <4>1
      <4>2. CASE q \notin fresh /\ q \in found /\ quote[q].status \in Live
        BY <2>1, <4>2 DEF Live
      <4>3. CASE q \notin fresh /\ ~(q \in found /\ quote[q].status \in Live)
        BY <2>1, <4>3
      <4> QED BY <4>1, <4>2, <4>3
    <3>3. [quote[q] EXCEPT !.status = "ACTIVE"].expiry = quote[q].expiry
          /\ [quote[q] EXCEPT !.status = "ACTIVE"].status = "ACTIVE"
      BY <3>1, QuoteMark
    <3>4. [quote[q] EXCEPT !.status = "INVALIDATED"].expiry = quote[q].expiry
          /\ [quote[q] EXCEPT !.status = "INVALIDATED"].status = "INVALIDATED"
      BY <3>1, QuoteMark
    <3> QED BY <3>2, <3>3, <3>4
  <2>6. QuotesKeep
    BY <1>0, <2>5 DEF QuotesKeep, QuoteKeeps
  <2> QED BY <1>0, <1>1, <2>1, <2>4, <2>6, KeptMatched
<1>5. CASE Invalidate(p)
  <2> DEFINE q == call[p].quote
             row == IF quote[q].status \in Live THEN [quote[q] EXCEPT !.status = "INVALIDATED"]
                    ELSE [quote[q] EXCEPT !.status = quote[q].status]
  <2>1. quote' = [quote EXCEPT ![q] = row] /\ session' = session /\ due' = due
    BY <1>5 DEF Invalidate
  <2>2. q \in Quotes => quote[q] \in QuoteRows
    BY <1>0
  <2>3. "INVALIDATED" \in QuoteStatuses
    BY DEF QuoteStatuses
  <2>4. q \in Quotes =>
            /\ row.expiry = quote[q].expiry
            /\ \/ row.status = "INVALIDATED" /\ quote[q].status # "CONVERTED"
               \/ row.status = quote[q].status
    <3>1. q \in Quotes => quote[q].status \in QuoteStatuses
      BY <2>2 DEF QuoteRows
    <3> QED BY <2>2, <2>3, <3>1, QuoteMark DEF Live
  <2> HIDE DEF row, q
  <2>5. QuotesKeep
    BY <1>0, <2>1, <2>4 DEF QuotesKeep, QuoteKeeps
  <2>6. Forward
    BY <1>0, <2>1, ForwardMove DEF Flows
  <2> QED BY <1>0, <1>1, <2>1, <2>5, <2>6, KeptMatched
<1> QED BY <1>2, <1>3, <1>4, <1>5 DEF Checkout, Refresh


LEMMA PayMatched ==
    ASSUME IInv, IInv', Matched, NEW p \in Callers, NEW q \in Quotes, Pay(p, q)
    PROVE  Matched'
<1> DEFINE row == [quote[q] EXCEPT !.status = "CONVERTED"]
<1>1. /\ q \notin due /\ due' = due /\ call' = call
      /\ session' = [session EXCEPT ![SessionOf[q]] = Moved(session[SessionOf[q]], "PAID", 1)]
      /\ order' = [order EXCEPT ![q] = [Moved(order[q], "PAID", 1) EXCEPT !.status = "PAID"]]
      /\ quote' = [quote EXCEPT ![q] = row]
  BY DEF Pay, Payable
<1>2. /\ TypeOK /\ quote \in [Quotes -> QuoteRows] /\ order \in [Quotes -> OrderRows]
      /\ "PAID" \in Flows /\ 1 \in Nat \ {0} /\ "CONVERTED" \in QuoteStatuses
  BY Typed DEF IInv, Flows, QuoteStatuses
<1>3. Bought' = Bought \cup {q}
  BY PayBuys DEF Contract!Buy
<1>4. row.expiry = quote[q].expiry /\ row.status = "CONVERTED"
  BY <1>2, QuoteMark
<1>5. q \notin Bought
  BY DEF Pay, Payable, Bought
<1> HIDE DEF row
<1>6. Forward
  BY <1>1, <1>2, ForwardMove
<1>7. OrdersKeep
  BY <1>1, <1>2, <1>3 DEF OrdersKeep, OrderKeeps
<1>8. QuotesKeep
  BY <1>1, <1>2, <1>3, <1>4, <1>5 DEF QuotesKeep, QuoteKeeps
<1>9. CallsKeep
  BY <1>1 DEF CallsKeep
<1> QED BY <1>1, <1>6, <1>7, <1>8, <1>9, KeptMatched

\* The steps of a paid order.
LEMMA PaidMatched ==
    ASSUME IInv, IInv', Matched, NEW q \in Quotes,
           Approve(q) \/ Hold(q) \/ ManualProvision(q) \/ Refund(q) \/ Dispatch(q)
    PROVE  Matched'
<1>1. TypeOK /\ order \in [Quotes -> OrderRows]
  BY Typed DEF IInv
<1>2. /\ quote' = quote /\ due' = due /\ order[q].status = "PAID"
      /\ \/ order' = order
         \/ \E row : order' = [order EXCEPT ![q] = row]
      /\ call' = call \/ call' = [call EXCEPT ![Worker] = Idle("claim")]
  <2>1. CASE Approve(q) \/ Hold(q) \/ Refund(q)
    BY <2>1 DEF Approve, Hold, Refund, Approvable
  <2>2. CASE ManualProvision(q)
    BY <2>2 DEF ManualProvision, AllMove
  <2>3. CASE Dispatch(q)
    <3>1. order[q].status = "PAID"
      BY <2>3 DEF IInv, Paid, Dispatch, Oldest, Approved
    <3> QED BY <2>3, <3>1 DEF Dispatch, AllMove, Goes
  <2> QED BY <2>1, <2>2, <2>3
<1>3. Forward
  <2> DEFINE s == SessionOf[q]
             moved(to, n) == session' = [session EXCEPT ![s] = Moved(session[s], to, n)]
  <2>1. \/ session' = session
        \/ moved("PROVISION_APPROVED", 1) \/ moved("WAITING_ADMIN_DELIVERY_APPROVAL", 4)
        \/ moved("CANCELLED", 1) \/ moved("PROVISIONING_SUBMITTED", 1)
    BY DEF Approve, Hold, ManualProvision, Refund, Dispatch, AllMove
  <2>2. /\ {"PROVISION_APPROVED", "WAITING_ADMIN_DELIVERY_APPROVAL", "CANCELLED",
            "PROVISIONING_SUBMITTED"} \subseteq Flows
        /\ 1 \in Nat \ {0} /\ 4 \in Nat \ {0}
    BY DEF Flows
  <2> HIDE DEF s
  <2> QED BY <1>1, <2>1, <2>2, ForwardMove
<1>4. Bought' = Bought
  BY ApprovingPaid, RefundRefunds DEF Contract!Refund
<1>5. q \in Bought
  BY <1>2 DEF Bought
<1>6. OrdersKeep
  BY <1>1, <1>2, <1>4, <1>5 DEF OrdersKeep, OrderKeeps
<1>7. CallsKeep
  <2>1. Idle("claim").pc = "claim"
    BY IdlePlace
  <2> QED BY <1>1, <1>2, <2>1, OneCall
<1>8. QuotesKeep
  BY <1>2, <1>4, SameQuotes
<1> QED BY <1>2, <1>3, <1>6, <1>7, <1>8, KeptMatched


\* The other quotes, when one quote is ordered or expired.
LEMMA OthersMatched ==
    ASSUME IInv, IInv', Matched, NEW q \in Quotes, Forward, due' = due, CallsKeep,
           Bought' = Bought, NEW f, NEW g,
           order' = order \/ order' = [order EXCEPT ![q] = f],
           quote' = [quote EXCEPT ![q] = g]
    PROVE  \A r \in Quotes \ {q} : MatchedAt(r)'
<1> SUFFICES ASSUME NEW r \in Quotes, r # q PROVE MatchedAt(r)'
  OBVIOUS
<1>1. order'[r] = order[r] /\ quote'[r] = quote[r]
  BY Typed DEF IInv
<1>2. QuoteKeeps(r) /\ OrderKeeps(r)
  BY <1>1 DEF QuoteKeeps, OrderKeeps
<1> QED BY <1>2, OneQuote DEF Matched

LEMMA OrderingMatched ==
    ASSUME IInv, IInv', Matched, NEW p \in Callers, OrderCommit(p), NEW q, q = call[p].quote
    PROVE  Matched'
<1> DEFINE s == SessionOf[q]
           row == [status |-> "PENDING_PAYMENT", flow |-> "AWAITING_PAYMENT",
                   rev |-> call[p].rev + 1]
           mark == [quote[q] EXCEPT !.status = "SELECTED"]
<1>0. /\ TypeOK /\ quote \in [Quotes -> QuoteRows] /\ order \in [Quotes -> OrderRows]
      /\ session \in [Sessions -> SessionRows] /\ call \in [Callers -> CallRows] /\ Calls
      /\ "AWAITING_PAYMENT" \in Flows /\ 1 \in Nat \ {0} /\ "SELECTED" \in QuoteStatuses
  BY Typed DEF IInv, Flows, QuoteStatuses
<1>1. q \in Quotes /\ s \in Sessions /\ Ordering(p)
  <2>1. q \in Quotes
    BY <1>0 DEF OrderCommit, Calls
  <2> QED BY <2>1, ConstantsAssumption DEF OrderCommit, Ordering
<1>2. /\ due' = due /\ order[q].status = "NONE"
      /\ SessionAt(s, "QUOTED") /\ SessionRev(q) = call[p].rev
      /\ session' = [session EXCEPT ![s] = Moved(session[s], "AWAITING_PAYMENT", 1)]
      /\ order' = [order EXCEPT ![q] = row]
      /\ quote' = [quote EXCEPT ![q] = mark]
      /\ call' = [call EXCEPT ![p] = Idle("idle")]
  BY DEF OrderCommit, SessionRev
<1>3. q \notin Bought /\ Bought' = Bought
  BY <1>0, <1>1, <1>2 DEF Bought
<1>4. SessionRev(q)' = SessionRev(q) + 1 /\ SessionRev(q) \in Nat
  <2>1. session'[s] = Moved(session[s], "AWAITING_PAYMENT", 1)
    BY <1>0, <1>1, <1>2
  <2>2. session[s] \in SessionRows
    BY <1>0, <1>1
  <2>3. Moved(session[s], "AWAITING_PAYMENT", 1).rev = session[s].rev + 1
    BY <1>0, <2>2, MovedSession
  <2> QED BY <2>1, <2>2, <2>3 DEF SessionRev, SessionRows
<1>5. mark.expiry = quote[q].expiry /\ mark.status = "SELECTED"
  BY <1>0, <1>1, QuoteMark
<1>6. row.status = "PENDING_PAYMENT" /\ row.flow = "AWAITING_PAYMENT"
      /\ row.rev = SessionRev(q) + 1
  BY <1>2
<1>7. MatchedAt(q)
  BY <1>1 DEF Matched
<1>8. quote[q].expiry = NotExpired
  <2> SUFFICES ASSUME quote[q].expiry # NotExpired PROVE FALSE
    OBVIOUS
  <2>1. call[p].rev < SessionRev(q)
    BY <1>1, <1>7 DEF MatchedAt, Left
  <2> QED BY <1>2, <1>4, <2>1
<1>9. Forward
  BY <1>0, <1>2, ForwardMove
<1>10. CallsKeep
  <2>1. Idle("idle").pc = "idle"
    BY IdlePlace
  <2> QED BY <1>0, <1>2, <2>1, OneCall
<1>11. /\ \A x \in Callers : call'[x] = call[x] \/ call'[x].pc = "idle"
  <2>1. Idle("idle").pc = "idle"
    BY IdlePlace
  <2> QED BY <1>0, <1>2, <2>1
<1> HIDE DEF row, mark
<1>12. \A r \in Quotes \ {q} : MatchedAt(r)'
  BY <1>1, <1>2, <1>3, <1>9, <1>10, OthersMatched
<1>13. order'[q] = row /\ quote'[q] = mark
  BY <1>0, <1>1, <1>2
<1>14. Fits(q)' /\ Pending(q)' /\ Left(q)'
  BY <1>3, <1>4, <1>5, <1>6, <1>7, <1>8, <1>13 DEF Fits, Pending, Left, MatchedAt
<1>15. OrderCalls(q)'
  <2> SUFFICES ASSUME NEW x \in Callers, Ordering(x)', call'[x].quote = q
               PROVE  call'[x].rev <= SessionRev(q)'
    BY DEF OrderCalls
  <2>1. call'[x] = call[x] /\ Ordering(x) /\ call[x].rev \in Nat
    BY <1>0, <1>11 DEF Ordering, CallRows
  <2> QED BY <1>4, <1>7, <2>1 DEF OrderCalls, MatchedAt
<1>16. ExpiryCalls(q)'
  <2> SUFFICES ASSUME NEW x \in Callers, Expiring(x)', call'[x].quote = q
               PROVE  ExpiryCall(x, q)'
    BY DEF ExpiryCalls
  <2>1. call'[x] = call[x] /\ Expiring(x)
    BY <1>11 DEF Expiring
  <2>2. ExpiryCall(x, q)
    BY <1>7, <2>1 DEF ExpiryCalls, MatchedAt
  <2>3. ~call[x].ordered
    BY <1>2, <2>2 DEF ExpiryCall
  <2>4. ~(call[p].rev < SessionRev(q) \/ ~SessionAt(SessionOf[q], "QUOTED"))
    BY <1>2, <1>4
  <2>5. call[x].flow = "QUOTED"
    BY <1>1, <2>2, <2>3, <2>4 DEF ExpiryCall
  <2> QED BY <1>2, <1>3, <2>1, <2>2, <2>3, <2>5 DEF ExpiryCall
<1>17. MatchedAt(q)'
  BY <1>14, <1>15, <1>16 DEF MatchedAt
<1> QED BY <1>12, <1>17 DEF Matched

LEMMA ExpiringMatched ==
    ASSUME IInv, IInv', Matched, NEW p \in Callers, ExpireCommit(p), NEW q, q = call[p].quote
    PROVE  Matched'
<1> DEFINE s == SessionOf[q]
           mark == [quote[q] EXCEPT !.status = "EXPIRED",
                        !.expiry = IF ExpiryMoves(p) THEN ExpiryOf(p) ELSE quote[q].expiry]
           row == Moved(order[q], "QUOTE_EXPIRED", 1)
<1>0. /\ TypeOK /\ quote \in [Quotes -> QuoteRows] /\ order \in [Quotes -> OrderRows]
      /\ session \in [Sessions -> SessionRows] /\ call \in [Callers -> CallRows] /\ Calls
      /\ "QUOTE_EXPIRED" \in Flows /\ 1 \in Nat /\ 1 \in Nat \ {0}
  BY Typed DEF IInv, Flows
<1>1. q \in Quotes /\ s \in Sessions /\ Expiring(p)
  <2>1. q \in Quotes
    BY <1>0 DEF ExpireCommit, Calls
  <2> QED BY <2>1, ConstantsAssumption DEF ExpireCommit, Expiring
<1>2. /\ due' = due /\ ExpiryAllowed(p)
      /\ IF ExpiryMoves(p)
         THEN session' = [session EXCEPT ![s] = Moved(session[s], "QUOTE_EXPIRED", 1)]
         ELSE session' = session
      /\ IF ExpiryMoves(p) /\ call[p].ordered
         THEN order' = [order EXCEPT ![q] = row]
         ELSE order' = order
      /\ quote' = [quote EXCEPT ![q] = mark]
      /\ \/ call' = [call EXCEPT ![p] = Idle("sweeping")]
         \/ call' = [call EXCEPT ![p] = Idle("idle")]
  BY DEF ExpireCommit, AfterExpiry
<1>3. MatchedAt(q)
  BY <1>1 DEF Matched
<1>4. ExpiryCall(p, q)
  BY <1>1, <1>3 DEF MatchedAt, ExpiryCalls
<1>5. q \notin Bought /\ Bought' = Bought
  BY <1>4, QuotingPaid DEF ExpiryCall
<1>6. /\ mark.status = "EXPIRED"
      /\ mark.expiry = IF ExpiryMoves(p) THEN ExpiryOf(p) ELSE quote[q].expiry
  <2>1. quote[q] \in QuoteRows
    BY <1>0, <1>1
  <2> QED BY <2>1 DEF QuoteRows
<1>7. Forward
  BY <1>0, <1>2, ForwardMove
<1>8. \A x \in Callers : call'[x] = call[x] \/ call'[x].pc \in {"idle", "sweeping"}
  <2>1. Idle("idle").pc = "idle" /\ Idle("sweeping").pc = "sweeping"
    BY IdlePlace
  <2> QED BY <1>0, <1>2, <2>1
<1>9. CallsKeep
  BY <1>8 DEF CallsKeep, Waits
<1>10. ASSUME ExpiryMoves(p)
       PROVE  /\ session'[s].flow = "QUOTE_EXPIRED" /\ SessionRev(q)' = SessionRev(q) + 1
              /\ call[p].flow \in Expireable
              /\ call[p].ordered => order[q].rev = SessionRev(q)
  <2>1. session[s] \in SessionRows
    BY <1>0, <1>1
  <2>2. /\ Moved(session[s], "QUOTE_EXPIRED", 1).flow = "QUOTE_EXPIRED"
        /\ Moved(session[s], "QUOTE_EXPIRED", 1).rev = session[s].rev + 1
    BY <1>0, <2>1, MovedSession
  <2>3. session'[s] = Moved(session[s], "QUOTE_EXPIRED", 1)
    BY <1>0, <1>1, <1>2, <1>10
  <2>4. call[p].ordered => OrderAt(q, call[p].flow)
    BY <1>2, <1>10 DEF ExpiryAllowed
  <2> QED BY <1>10, <2>2, <2>3, <2>4 DEF ExpiryMoves, SessionRev, OrderAt
<1>11. /\ row.flow = "QUOTE_EXPIRED" /\ row.status = order[q].status
       /\ row.rev = order[q].rev + 1
  <2>1. order[q] \in OrderRows
    BY <1>0, <1>1
  <2> QED BY <1>0, <2>1, MovedOrder
<1> HIDE DEF mark, row
<1>12. \A r \in Quotes \ {q} : MatchedAt(r)'
  BY <1>1, <1>2, <1>5, <1>7, <1>9, OthersMatched
<1>13. /\ quote'[q] = mark
       /\ order'[q] = IF ExpiryMoves(p) /\ call[p].ordered THEN row ELSE order[q]
  BY <1>0, <1>1, <1>2
<1>14. SessionRev(q) \in Nat /\ order[q].rev \in Nat /\ SessionRev(q)' >= SessionRev(q)
  BY <1>1, <1>7, Behind
<1>15. Fits(q)'
  <2>1. ~OrderAt(q, "AWAITING_PAYMENT")'
    <3>1. CASE ExpiryMoves(p)
      BY <1>10, <3>1 DEF OrderAt, SessionAt
    <3>2. CASE ~ExpiryMoves(p) /\ call[p].flow \in Expireable
      <4>1. quote[q].expiry # NotExpired
        BY <3>2 DEF ExpiryMoves
      <4>2. order[q].flow = "AWAITING_PAYMENT" => order[q].rev < SessionRev(q)
        BY <1>3, <1>5, <4>1 DEF MatchedAt, Left
      <4> QED BY <1>2, <1>14, <3>2, <4>2 DEF OrderAt, SessionRev
    <3>3. CASE ~ExpiryMoves(p) /\ call[p].flow \notin Expireable
      <4>1. call[p].flow # "QUOTED"
        BY <3>3 DEF Expireable
      <4>2. order[q].flow \in {"QUOTE_EXPIRED", "DRAFT"}
        BY <1>3, <1>4, <1>5, <3>3, <4>1 DEF ExpiryCall, MatchedAt, Pending
      <4> QED BY <1>2, <3>3, <4>2 DEF OrderAt
    <3> QED BY <3>1, <3>2, <3>3
  <2> QED BY <1>5, <1>6, <1>13, <2>1 DEF Fits
<1>16. Pending(q)'
  <2>1. CASE ExpiryMoves(p) /\ call[p].ordered
    <3>1. order[q].status # "NONE"
      BY <1>4, <2>1 DEF ExpiryCall
    <3> QED BY <1>10, <1>11, <1>13, <1>14, <2>1, <3>1 DEF Pending
  <2>2. CASE ~(ExpiryMoves(p) /\ call[p].ordered)
    <3>1. Pending(q) /\ order'[q] = order[q]
      BY <1>3, <1>13, <2>2 DEF MatchedAt
    <3>2. order[q].rev <= SessionRev(q) => order[q].rev <= SessionRev(q)'
      BY <1>1, <1>7, <1>14, Behind
    <3> QED BY <1>5, <3>1, <3>2 DEF Pending
  <2> QED BY <2>1, <2>2
<1>17. ASSUME NEW x \in Callers, Ordering(x)', call'[x].quote = q
       PROVE  /\ Ordering(x) /\ call'[x] = call[x] /\ call[x].rev \in Nat
              /\ call[x].rev <= SessionRev(q)
  <2>1. Ordering(x) /\ call'[x] = call[x] /\ call[x].rev \in Nat
    BY <1>0, <1>8, <1>17 DEF Ordering, CallRows
  <2> QED BY <1>3, <1>17, <2>1 DEF MatchedAt, OrderCalls
<1>18. Left(q)'
  <2>1. CASE ExpiryMoves(p)
    <3>1. \A x \in Callers : Ordering(x)' /\ call'[x].quote = q => call'[x].rev < SessionRev(q)'
      BY <1>10, <1>14, <1>17, <2>1
    <3>2. order'[q].flow = "AWAITING_PAYMENT" => order'[q].rev < SessionRev(q)'
      BY <1>3, <1>5, <1>10, <1>11, <1>13, <1>14, <2>1 DEF MatchedAt, Pending
    <3> QED BY <1>2, <1>4, <3>1, <3>2 DEF Left, ExpiryCall
  <2>2. CASE ~ExpiryMoves(p)
    <3>1. order'[q] = order[q] /\ SessionRev(q)' = SessionRev(q) /\ mark.expiry = quote[q].expiry
      BY <1>2, <1>6, <1>13, <2>2 DEF SessionRev
    <3> QED BY <1>2, <1>3, <1>5, <1>13, <1>17, <3>1 DEF MatchedAt, Left
  <2> QED BY <2>1, <2>2
<1>19. OrderCalls(q)'
  BY <1>14, <1>17, Behind, <1>1, <1>7 DEF OrderCalls
<1>20. ExpiryCalls(q)'
  <2> SUFFICES ASSUME NEW x \in Callers, Expiring(x)', call'[x].quote = q
               PROVE  ExpiryCall(x, q)'
    BY DEF ExpiryCalls
  <2>1. call'[x] = call[x] /\ Expiring(x)
    BY <1>8 DEF Expiring
  <2>2. ExpiryCall(x, q)
    BY <1>3, <2>1 DEF ExpiryCalls, MatchedAt
  <2>3. order'[q].status = order[q].status
        /\ (order[q].flow = "QUOTE_EXPIRED" => order'[q].flow = "QUOTE_EXPIRED")
    BY <1>11, <1>13
  <2>4. ASSUME ~call[x].ordered, call[x].flow # "QUOTED",
               NEW o \in Callers, Ordering(o)', call'[o].quote = q,
               SessionAt(SessionOf[q], "QUOTED")'
        PROVE  call'[o].rev < SessionRev(q)'
    <3>1. ~ExpiryMoves(p)
      BY <1>10, <2>4 DEF SessionAt
    <3>2. session' = session
      BY <1>2, <3>1
    <3> QED BY <1>17, <2>2, <2>4, <3>2 DEF ExpiryCall, SessionAt, SessionRev
  <2> QED BY <1>2, <1>5, <2>1, <2>2, <2>3, <2>4 DEF ExpiryCall
<1>21. MatchedAt(q)'
  BY <1>15, <1>16, <1>18, <1>19, <1>20 DEF MatchedAt
<1> QED BY <1>12, <1>21 DEF Matched

LEMMA MatchedInit == Init => Matched
<1> SUFFICES ASSUME Init, NEW q \in Quotes PROVE MatchedAt(q)
  BY DEF Matched
<1>1. /\ \A p \in Callers : ~Ordering(p) /\ ~Expiring(p)
      /\ quote[q].expiry = NotExpired /\ quote[q].status = "NONE"
      /\ order[q].status = "NONE" /\ order[q].flow = "DRAFT" /\ order[q].rev = 0
      /\ SessionRev(q) = 0
  BY ConstantsAssumption DEF Init, Idle, Ordering, Expiring, SessionRev
<1> QED BY <1>1 DEF MatchedAt, Fits, Pending, Left, OrderCalls, ExpiryCalls, OrderAt, Bought

LEMMA MatchedStep == IInv /\ IInv' /\ Matched /\ [Next]_vars => Matched'
<1> SUFFICES ASSUME IInv, IInv', Matched, [Next]_vars PROVE Matched'
  OBVIOUS
<1>0. Worker \in Callers /\ Requests \subseteq Callers
  BY DEF Callers
<1>1. ASSUME NEW p \in Callers, ExpireCommit(p) \/ OrderCommit(p) PROVE Matched'
  BY <1>1, ExpiringMatched, OrderingMatched
<1>2. ASSUME NEW p \in Requests, Request(p) PROVE Matched'
  <2>1. CASE \/ \E q \in Quotes : Checkout(p, q) \/ \E r \in Quotes : Refresh(p, q, r)
             \/ \E fresh \in SUBSET Quotes, blind \in BOOLEAN : RequoteCommit(p, fresh, blind)
             \/ Invalidate(p)
    BY <1>0, <2>1, QuotingMatched
  <2>2. CASE \/ \E v \in Servers : ObserveRead(p, v)
             \/ \E s \in Sessions : RequoteRead(p, s)
             \/ \E q \in Quotes : OrderRead(p, q) \/ PayFails(p, q) \/ ExpireRead(p, q)
             \/ PayCaught(p)
    BY <1>0, <2>2, ReadMatched
  <2>3. CASE \/ \E reachable \in BOOLEAN : ObserveWrite(p, reachable)
             \/ PayRelease(p) \/ ExpireThrows(p) \/ Fails(p)
    BY <1>0, <2>3, EndingMatched
  <2>4. CASE \E q \in Quotes : Pay(p, q)
    BY <1>0, <2>4, PayMatched
  <2>5. CASE ExpireCommit(p) \/ OrderCommit(p)
    BY <1>0, <1>1, <2>5
  <2> QED BY <1>2, <2>1, <2>2, <2>3, <2>4, <2>5 DEF Request
<1>3. CASE Administrator \/ \E q \in Quotes : Dispatch(q)
  BY <1>3, PaidMatched DEF Administrator
<1>4. CASE \/ SweepBegin \/ Release \/ DispatchesNothing \/ Claim \/ Crash
           \/ \E q \in Quotes : SweepSkips(q) \/ DispatchThrows(q)
           \/ ExpireThrows(Worker) \/ UNCHANGED vars
           \/ \E v \in Servers : Age(v)
  BY <1>0, <1>4, EndingMatched
<1>5. CASE \E q \in Quotes : ExpireRead(Worker, q)
  BY <1>0, <1>5, ReadMatched
<1>6. CASE \E s \in Sessions : Lapse(s)
  BY <1>0, <1>6, QuotingMatched
<1>7. CASE ExpireCommit(Worker)
  BY <1>0, <1>1, <1>7
<1> QED BY <1>2, <1>3, <1>4, <1>5, <1>6, <1>7 DEF Next, Cycle

\* A quote is CONVERTED exactly when its order was paid, and once it has expired no
\* order of it awaits payment in step with its session: neither the expiry that writes
\* EXPIRED nor the checkout that writes SELECTED, over whatever they find, puts them at
\* odds, however both interleave with payments and with quoting the session again.
THEOREM QuotesMatchTheirOrders == Spec => []QuoteMatchesOrder
<1>1. IInv /\ IInv' /\ Matched /\ [Next]_vars => Matched'
  BY MatchedStep
<1>2. Matched => QuoteMatchesOrder
  BY DEF Matched, MatchedAt, Fits, QuoteMatchesOrder
<1> QED BY <1>1, <1>2, MatchedInit, Invariance, PTL DEF Spec

===============================================================================
