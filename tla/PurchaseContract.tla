---------------------------- MODULE PurchaseContract ----------------------------
(***************************************************************************)
(* What a customer is promised of purchases: an offer is paid for at its   *)
(* price, once, from the money there is; of the offers made in one session *)
(* at most one is ever paid; and a purchase is refunded at most once, in   *)
(* full.  A limited offer is sold while there is a unit of it, and takes   *)
(* the unit; a refund gives it back.                                       *)
(***************************************************************************)
EXTENDS Integers

CONSTANTS
    Quotes,    \* offers
    SessionOf, \* the session each offer was made in
    OwnerOf,   \* the customer of each session
    Price,     \* of each offer
    Limited,   \* the offers that take a unit
    Opening,   \* each customer's money at the start
    OpeningUnits

VARIABLES
    balance,  \* money of each customer
    units,    \* units left of the limited offers
    bought,   \* offers that have been paid for
    refunded  \* those whose money was given back

vars == <<balance, units, bought, refunded>>
Payer(q) == OwnerOf[SessionOf[q]]

Init ==
    /\ balance = Opening
    /\ units = OpeningUnits
    /\ bought = {}
    /\ refunded = {}

Buy(q) ==
    /\ \A r \in bought : SessionOf[r] # SessionOf[q]
    /\ balance[Payer(q)] >= Price[q]
    /\ q \in Limited => units > 0
    /\ balance' = [balance EXCEPT ![Payer(q)] = @ - Price[q]]
    /\ units' = IF q \in Limited THEN units - 1 ELSE units
    /\ bought' = bought \cup {q}
    /\ UNCHANGED refunded

Refund(q) ==
    /\ q \in bought \ refunded
    /\ balance' = [balance EXCEPT ![Payer(q)] = @ + Price[q]]
    /\ units' = IF q \in Limited THEN units + 1 ELSE units
    /\ refunded' = refunded \cup {q}
    /\ UNCHANGED bought

Next == \E q \in Quotes : Buy(q) \/ Refund(q)

Spec == Init /\ [][Next]_vars
=============================================================================
