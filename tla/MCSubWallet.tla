---------------------------- MODULE MCSubWallet ----------------------------
(***************************************************************************)
(* Instances of SubWallet for TLC: amounts are counted in units of half a  *)
(* cap, and one unit of SOL is one transfer fee and token account rent.    *)
(***************************************************************************)
EXTENDS SubWallet

Amount(s, n, u) == [sol |-> s, nos |-> n, usdc |-> u]

UnitCaps == Amount(2, 2, 1)
UnitFees == Amount(0, 1, 1)
TopUps == {Amount(1, 2, 0), Amount(0, 1, 1)}
Treasury == Amount(5, 4, 2)
Held == {Amount(0, 0, 0), Amount(1, 1, 0), Amount(3, 0, 0)}
OneRent == {Amount(0, 1, 0)}
OneRefund == {Amount(1, 0, 0)}
OnlyElder == {Elder}
Nothing == {}

=============================================================================
