------------------------ MODULE MCOrderReconciliation ------------------------
(* Instances of OrderReconciliation for TLC. *)
EXTENDS OrderReconciliation, TLC

CONSTANTS o1, l1, l2, m1

\* One BUY of two shares.
OneBuyOrderOf  == l1 :> o1 @@ l2 :> o1
OneBuySide     == o1 :> "BUY"
OneBuyMarketOf == o1 :> m1
NoShares       == m1 :> 0

LotSymmetry == Permutations({l1, l2})
===============================================================================
