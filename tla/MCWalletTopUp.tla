---------------------------- MODULE MCWalletTopUp ----------------------------
(***************************************************************************)
(* Small instances of WalletTopUp for TLC.                                 *)
(***************************************************************************)
EXTENDS WalletTopUp, TLC

CONSTANTS t1, t2, c1, c2

OneAmount == t1 :> 3
OneBonus == t1 :> 0

\* The second top-up has a coupon.
TwoAmounts == t1 :> 3 @@ t2 :> 2
TwoBonuses == t1 :> 0 @@ t2 :> 1
=============================================================================
