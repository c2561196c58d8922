----------------------------- MODULE MCMarketData -----------------------------
(* Instances of MarketData for TLC, two changes of the book each.              *)
EXTENDS MarketData

MCOpening == [bid |-> 1, ask |-> 4]
\* The ask falls, then the bid follows and crosses it.
MCMoves   == <<[side |-> "ask", price |-> 2], [side |-> "bid", price |-> 3]>>
\* The asks go, then the bids.
Emptying  == <<[side |-> "ask", price |-> 0], [side |-> "bid", price |-> 0]>>
\* Nobody numbers, both do, or the stream alone does.
MCNumbered == {{}, {"stream"}, Sources}
Unnumbered == {{}}
===============================================================================
