-------------------------- MODULE MCInventoryLedger --------------------------
(* A small market for InventoryLedger. *)
EXTENDS InventoryLedger, TLC

\* A BUY with a known taker fee and a SELL of half of it, and a BUY of the other
\* token.
MCTerms ==
    [f \in Fills |->
        CASE f = "buy"   -> [side |-> "BUY", outcome |-> "yes", size |-> 2,
                             price |-> 2, limit |-> 3, fee |-> 2]
          [] f = "sell"  -> [side |-> "SELL", outcome |-> "yes", size |-> 1,
                             price |-> 7, limit |-> 4, fee |-> 0]
          [] f = "other" -> [side |-> "BUY", outcome |-> "no", size |-> 1,
                             price |-> 2, limit |-> 2, fee |-> 0]]

Symmetric == Permutations(Handlers)
===============================================================================
