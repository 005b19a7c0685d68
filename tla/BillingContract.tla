---------------------------- MODULE BillingContract ----------------------------
(***************************************************************************)
(* What usage billing promises a customer, with no workers, transactions,  *)
(* policies or timelines: a period settles at most once and not before it  *)
(* is over; an hour of a service is charged by at most one invoice,        *)
(* written when the period the hour belongs to settles; and no invoice is  *)
(* written, changed or withdrawn at any other time.                        *)
(***************************************************************************)
EXTENDS Integers

CONSTANTS Services, Ticks, Periods, End(_)

VARIABLES
    clock,
    charged,  \* the invoices that charge a tick of a service
    settled   \* the periods that are done with

vars == <<clock, charged, settled>>

Hours == Services \X Ticks
Within(p, t) == p[2] <= t /\ t < End(p)

Init ==
    /\ clock = 0
    /\ charged = [h \in Hours |-> {}]
    /\ settled = {}

Pass ==
    /\ clock' > clock
    /\ UNCHANGED <<charged, settled>>

Settle(p) ==
    /\ p \notin settled /\ End(p) <= clock
    /\ settled' = settled \cup {p}
    /\ charged' = [h \in Hours |-> charged'[h]]
    /\ \A h \in Hours :
        \/ charged'[h] = charged[h]
        \/ Within(p, h[2]) /\ charged[h] = {} /\ \E k \in charged'[h] : charged'[h] = {k}
    /\ UNCHANGED clock

Next == Pass \/ \E p \in Periods : Settle(p)

Spec == Init /\ [][Next]_vars
=============================================================================
