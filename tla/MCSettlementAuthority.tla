----------------------- MODULE MCSettlementAuthority -----------------------
(***************************************************************************)
(* Small instances of SettlementAuthority for TLC.                         *)
(***************************************************************************)
EXTENDS SettlementAuthority, TLC

CONSTANTS o1, o2, o3, u1, u2, a1, a2, s1, s2

OpSymmetry == Permutations(Ops)

Tok(i, o) == [input |-> i, output |-> o]

\* One token of input costs 1 rial in both revisions; two cost 2, then 3.
MCPriceList == << [input |-> 600000, output |-> 1000000],
                  [input |-> 1500000, output |-> 2000000] >>

Req(o, k, u, a, t, unc, pin) ==
    [op |-> o, kind |-> k, usage |-> u, account |-> a, scope |-> s1,
     tokens |-> t, uncertain |-> unc, pin |-> pin]

\* One reservation, and any operation_id may carry any call, also one of
\* another customer.
RaceOffered ==
    UNION {{Req(o, "RESERVE", u1, a1, Tok(2, 1), FALSE, 0),
            Req(o, "SETTLE", u1, a1, Tok(1, 0), FALSE, 0),
            Req(o, "SETTLE", u1, a1, Tok(0, 0), TRUE, 0),
            Req(o, "RECONCILE", u1, a1, Tok(1, 1), FALSE, 0),
            Req(o, "RELEASE", u1, a1, Tok(0, 0), FALSE, 0),
            Req(o, "RELEASE", u1, a2, Tok(0, 0), FALSE, 0)} : o \in Ops}

\* Two reservations compete for one wallet, prices change, calls pin a price,
\* overstate the usage or name another scope, and one operation_id is reused for
\* another body.
FundsOffered ==
    {Req(o1, "RESERVE", u1, a1, Tok(2, 1), FALSE, 0),
     Req(o2, "RESERVE", u2, a1, Tok(1, 1), FALSE, 1),
     Req(o3, "SETTLE", u1, a1, Tok(1, 1), FALSE, 0),
     [Req(o3, "SETTLE", u1, a1, Tok(1, 0), FALSE, 0) EXCEPT !.scope = s2],
     Req(o3, "RECONCILE", u2, a1, Tok(1, 0), FALSE, 0),
     Req(o3, "SETTLE", u2, a1, Tok(2, 1), FALSE, 0),
     Req(o3, "SETTLE", u2, a1, Tok(1, 1), FALSE, 2)}
============================================================================
