--------------------------- MODULE MCOrderPurchase ---------------------------
(***************************************************************************)
(* Small instances of OrderPurchase for TLC.                               *)
(***************************************************************************)
EXTENDS OrderPurchase, TLC

CONSTANTS s1, s2, c1, v1, r1, r2

OneEach == [q \in Quotes |-> 1]
DearSecond == [q \in Quotes |-> IF q = 2 THEN 2 ELSE 1]
OneOwner == [s \in Sessions |-> c1]
Opening2 == [c \in Customers |-> 2]
RequestSymmetry == Permutations(Requests)


\* Two checkouts of the same ready server.
OneEachSession == [q \in Quotes |-> IF q = 1 THEN s1 ELSE s2]
Ready == [q \in Quotes |-> "PREPROVISIONED_INVENTORY"]

\* A conversation of two quotes, and a checkout of a manual offer.
TwoAndOne == [q \in Quotes |-> IF q < 3 THEN s1 ELSE s2]
LastIsManual == [q \in Quotes |-> IF q < 3 THEN "API_CATALOG" ELSE "MANUAL_ADMIN"]
=============================================================================
