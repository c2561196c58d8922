--------------------------- MODULE MCOrderLifecycle ---------------------------
(* Instances of OrderLifecycle for TLC: the order path without reconciliation. *)
EXTENDS OrderLifecycle, TLC

CONSTANTS o1, o2, o3, l1, l2, l3, m1, m2

\* Two BUYs, of two shares and of one, in two markets under one global cap.
BuysOrderOf  == l1 :> o1 @@ l2 :> o1 @@ l3 :> o2
BuysSide     == o1 :> "BUY" @@ o2 :> "BUY"
BuysMarketOf == o1 :> m1 @@ o2 :> m2
BuysShares   == m1 :> 0 @@ m2 :> 0

\* A BUY of one share and two SELLs of the one share it brings.
SellsOrderOf  == l1 :> o1 @@ l2 :> o2 @@ l3 :> o3
SellsSide     == o1 :> "BUY" @@ o2 :> "SELL" @@ o3 :> "SELL"
SellsMarketOf == o1 :> m1 @@ o2 :> m1 @@ o3 :> m1
SellsShares   == m1 :> 0

LotSymmetry  == Permutations({l1, l2})
===============================================================================
