---------------------------- MODULE TopUpContract ----------------------------
(***************************************************************************)
(* What a wallet top-up promises about money, with no attempts, callbacks, *)
(* gateways or recovery cases: once it has been paid in full it credits    *)
(* the wallet at most once, and once credited its amount can be taken back *)
(* at most once, before the bank refund is recorded as done.               *)
(***************************************************************************)
EXTENDS Integers

CONSTANTS TopUps, Amount, Bonus, Opening

VARIABLES
    funds,  \* what the wallet can spend
    paid,   \* top-ups some payment has covered in full
    phase   \* "open", "credited", "refunding" or "refunded"

vars == <<funds, paid, phase>>

Init ==
    /\ funds = Opening
    /\ paid = {}
    /\ phase = [t \in TopUps |-> "open"]

Pay(t) ==
    /\ paid' = paid \cup {t}
    /\ UNCHANGED <<funds, phase>>

Credit(t) ==
    /\ t \in paid
    /\ phase[t] = "open"
    /\ funds' = funds + Amount[t] + Bonus[t]
    /\ phase' = [phase EXCEPT ![t] = "credited"]
    /\ UNCHANGED paid

TakeBack(t) ==
    /\ phase[t] = "credited"
    /\ funds >= Amount[t]
    /\ funds' = funds - Amount[t]
    /\ phase' = [phase EXCEPT ![t] = "refunding"]
    /\ UNCHANGED paid

Refunded(t) ==
    /\ phase[t] = "refunding"
    /\ phase' = [phase EXCEPT ![t] = "refunded"]
    /\ UNCHANGED <<funds, paid>>

\* The wallet pays for something else.
Spend ==
    /\ funds' >= 0
    /\ funds' <= funds
    /\ UNCHANGED <<paid, phase>>

Next ==
    \/ \E t \in TopUps : Pay(t) \/ Credit(t) \/ TakeBack(t) \/ Refunded(t)
    \/ Spend

Spec == Init /\ [][Next]_vars
=============================================================================
