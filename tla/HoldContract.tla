---------------------------- MODULE HoldContract ----------------------------
(***************************************************************************)
(* What the wallet authority promises about money, with no calls, retries, *)
(* prices or operation records: a hold takes its amount out of the owner's *)
(* funds when it opens, and is closed once, by a charge of at most what it *)
(* holds or by a refund of all of it.  A hold in doubt can only be charged. *)
(***************************************************************************)
EXTENDS Integers

CONSTANTS Owners, Holds, Opening

VARIABLES
    funds,   \* what each owner can spend
    phase,   \* "none", "open", "doubt", "charged" or "refunded"
    owner,   \* whose hold it is, once it is open
    amount,  \* what it took
    charge   \* what of it was charged

vars == <<funds, phase, owner, amount, charge>>

Init ==
    /\ funds = [a \in Owners |-> Opening]
    /\ phase = [h \in Holds |-> "none"]
    /\ owner \in [Holds -> Owners]
    /\ amount = [h \in Holds |-> 0]
    /\ charge = [h \in Holds |-> 0]

Open(h, a, n) ==
    /\ phase[h] = "none"
    /\ funds[a] >= n
    /\ funds' = [funds EXCEPT ![a] = @ - n]
    /\ phase' = [phase EXCEPT ![h] = "open"]
    /\ owner' = [owner EXCEPT ![h] = a]
    /\ amount' = [amount EXCEPT ![h] = n]
    /\ UNCHANGED charge

Doubt(h) ==
    /\ phase[h] \in {"open", "doubt"}
    /\ phase' = [phase EXCEPT ![h] = "doubt"]
    /\ UNCHANGED <<funds, owner, amount, charge>>

Charge(h, n) ==
    /\ phase[h] \in {"open", "doubt"}
    /\ n <= amount[h]
    /\ funds' = [funds EXCEPT ![owner[h]] = @ + (amount[h] - n)]
    /\ phase' = [phase EXCEPT ![h] = "charged"]
    /\ charge' = [charge EXCEPT ![h] = n]
    /\ UNCHANGED <<owner, amount>>

Refund(h) ==
    /\ phase[h] = "open"
    /\ funds' = [funds EXCEPT ![owner[h]] = @ + amount[h]]
    /\ phase' = [phase EXCEPT ![h] = "refunded"]
    /\ UNCHANGED <<owner, amount, charge>>

\* Other products pay into and out of the same funds.
Elsewhere(a) ==
    /\ funds'[a] >= 0
    /\ funds' = [funds EXCEPT ![a] = funds'[a]]
    /\ UNCHANGED <<phase, owner, amount, charge>>

Next ==
    \/ \E h \in Holds :
          \/ \E a \in Owners : \E n \in 0..funds[a] : Open(h, a, n)
          \/ \E n \in 0..amount[h] : Charge(h, n)
          \/ Doubt(h)
          \/ Refund(h)
    \/ \E a \in Owners : Elsewhere(a)

Spec == Init /\ [][Next]_vars
=============================================================================
