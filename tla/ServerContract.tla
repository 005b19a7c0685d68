--------------------------- MODULE ServerContract ---------------------------
(***************************************************************************)
(* What provisioning promises about the server of one paid order, seen by  *)
(* its customer and by whoever pays the provider: create attempts are      *)
(* numbered, each makes one server at most, and another one is started     *)
(* only when none before made or will make one, as far as is known, or     *)
(* when the last was confirmed to have left none.  A server that was taken *)
(* over settles the matter for good, and so does a refund.                 *)
(*                                                                         *)
(* If Prompt, a create call is over before its attempt can be given up:    *)
(* then there is never a second server, and none behind a refund or behind *)
(* an attempt that was confirmed to have left none.                        *)
(***************************************************************************)
EXTENDS Naturals

CONSTANTS
    Prompt,
    Calls      \* create calls, each the pair of its attempt and a number

VARIABLES
    attempt,   \* create attempts so far
    made,      \* the servers, each named by the call that made it
    pending,   \* calls that will still make one
    absent,    \* has the last attempt been confirmed to have left none?
    adopted,   \* has a server been taken over for the customer?
    refunded

state == <<attempt, made, pending, absent, adopted, refunded>>

Init ==
    /\ attempt = 0 /\ made = {} /\ pending = {}
    /\ ~absent /\ ~adopted /\ ~refunded

Open == ~adopted /\ ~refunded
Clear == absent \/ (made = {} /\ pending = {})

Attempt ==
    /\ Open /\ Clear
    /\ attempt' = attempt + 1 /\ absent' = FALSE
    /\ UNCHANGED <<made, pending, adopted, refunded>>

Uncalled(c) == c[1] \in 1..attempt /\ \A d \in made \cup pending : d[1] # c[1]

Make(c) ==
    /\ Uncalled(c)
    /\ Prompt => c[1] = attempt /\ made = {} /\ Open /\ ~absent
    /\ made' = made \cup {c}
    /\ UNCHANGED <<attempt, pending, absent, adopted, refunded>>

Delay(c) ==
    /\ ~Prompt /\ Uncalled(c)
    /\ pending' = pending \cup {c}
    /\ UNCHANGED <<attempt, made, absent, adopted, refunded>>

Arrive(c) ==
    /\ ~Prompt /\ c \in pending
    /\ made' = made \cup {c} /\ pending' = pending \ {c}
    /\ UNCHANGED <<attempt, absent, adopted, refunded>>

ConfirmAbsent ==
    /\ Open /\ attempt # 0 /\ made = {}
    /\ absent' = TRUE
    /\ UNCHANGED <<attempt, made, pending, adopted, refunded>>

Adopt ==
    /\ Open /\ made # {} /\ ~absent
    /\ adopted' = TRUE
    /\ UNCHANGED <<attempt, made, pending, absent, refunded>>

Refund ==
    /\ Open /\ Clear
    /\ refunded' = TRUE
    /\ UNCHANGED <<attempt, made, pending, absent, adopted>>

Next ==
    \/ Attempt \/ ConfirmAbsent \/ Adopt \/ Refund
    \/ \E c \in Calls : Make(c) \/ Delay(c) \/ Arrive(c)

Spec == Init /\ [][Next]_state
=============================================================================
