------------------------------ MODULE StickyHalt ------------------------------
(***************************************************************************)
(* What the safety halt promises (core/trading_safety.py and               *)
(* core/safety_state.py), without saying how.  A halt blocks new risk at   *)
(* once and becomes durable later; a process start restores what is        *)
(* durable, and nothing else ends a halt but an acknowledgement in a       *)
(* process that cannot trade, while the books are flat.                    *)
(***************************************************************************)
VARIABLES
    up,        \* a process runs
    trading,   \* it may trade (its mode is not disabled)
    flat,      \* no unresolved order, no inventory
    blocked,   \* the process refuses new risk
    durable    \* the halt is stored

vars == <<up, trading, flat, blocked, durable>>

Init == <<up, trading, flat, blocked, durable>> = <<FALSE, FALSE, TRUE, FALSE, FALSE>>

\* A process starts with the halt that was stored.
Start == /\ ~up /\ up' /\ trading' \in BOOLEAN /\ blocked' = durable
         /\ UNCHANGED <<flat, durable>>
\* It ends; a halt that was not stored in time ends with it.
End == /\ up /\ ~up' /\ ~trading' /\ ~blocked' /\ UNCHANGED <<flat, durable>>
Raise == up /\ blocked' /\ UNCHANGED <<up, trading, flat, durable>>
\* Only a halt in force is stored.  An acknowledgement may have come before
\* the store: the block ends and the halt returns with the next start.
Store == /\ up /\ durable' /\ (blocked \/ durable)
         /\ blocked' = blocked \/ (~trading /\ ~blocked')
         /\ UNCHANGED <<up, trading, flat>>
\* An acknowledgement: the stored halt ends first, the block with it.
Acknowledge ==
    /\ up /\ ~trading /\ flat /\ durable /\ ~durable'
    /\ UNCHANGED <<up, trading, flat, blocked>>
Unblock == up /\ ~trading /\ ~blocked' /\ UNCHANGED <<up, trading, flat, durable>>
\* Orders and fills change the books, in a process that may trade.
Trade == up /\ trading /\ flat' \in BOOLEAN /\ UNCHANGED <<up, trading, blocked, durable>>

Next == Start \/ End \/ Raise \/ Store \/ Acknowledge \/ Unblock \/ Trade
Spec == Init /\ [][Next]_vars
=============================================================================
