---------------------------- MODULE ExecutionLease ----------------------------
(***************************************************************************)
(* LiveExecutionLease: one Postgres row per wallet lends the right to      *)
(* trade to one process at a time.  Each call locks the row, so each is    *)
(* one step; between the renewal and the submit it clears, time passes.    *)
(* The clocks of the processes agree.  A process here is a deployment      *)
(* slot: it may restart under the owner id it had (APP_INSTANCE_ID), and a *)
(* restart under a random owner id is the start of another slot.           *)
(***************************************************************************)
EXTENDS Integers

CONSTANTS Processes,
          OwnerOf,    \* OwnerOf[p]: owner_id
          NoOwner,    \* the owner of a row that does not exist
          TTL,        \* EXECUTION_LEASE_TTL_SEC in clock ticks
          WipeLive,   \* an operator may wipe the database beside a live process
          MaxTime,    \* bound: the clock stops there
          MaxFence    \* bound: no process starts once the token got there

Owners == {OwnerOf[p] : p \in Processes}

ASSUME LeaseAssumption ==
    /\ NoOwner \notin Owners /\ WipeLive \in BOOLEAN
    /\ TTL \in Nat \ {0} /\ MaxTime \in Nat /\ MaxFence \in Nat

VARIABLES
    now,
    row,        \* execution_leases: owner_id, fencing_token, expires_at
    fence,      \* fencing_token of each process, 0 for None
    granted,    \* until when the last acquire or renew that returned True holds
    renewing,   \* processes whose _renew_loop runs
    ready,      \* readiness flag executor_lease
    halted,     \* trading_safety._halted
    order       \* where the create_order coroutine of a process stands

vars == <<now, row, fence, granted, renewing, ready, halted, order>>

NoRow == [owner |-> NoOwner, token |-> 0, expires |-> 0]

Init ==
    /\ now = 0
    /\ row = NoRow
    /\ fence = [p \in Processes |-> 0]
    /\ granted = [p \in Processes |-> 0]
    /\ renewing = {}
    /\ ready = {} /\ halted = {}
    /\ order = [p \in Processes |-> "none"]

Tick ==
    /\ now < MaxTime
    /\ now' = now + 1
    /\ UNCHANGED <<row, fence, granted, renewing, ready, halted, order>>

\* Mutant: an expiry one tick ahead already counts.
FreeEarly(p) == row.owner = OwnerOf[p] \/ row.expires <= now + 1

\* The row may be taken: it is not there, it is ours, or it has expired.
Free(p) == row.owner = OwnerOf[p] \/ row.expires <= now

\* Mutant: a takeover keeps the token of the row.
NextTokenKept(p) == IF row.token = 0 THEN 1 ELSE row.token

\* A new owner takes the next token, the old one keeps its own.
NextToken(p) == IF row.owner = OwnerOf[p] THEN row.token ELSE row.token + 1

Grant(p, token) ==
    /\ row' = [owner |-> OwnerOf[p], token |-> token, expires |-> now + TTL]
    /\ granted' = [granted EXCEPT ![p] = now + TTL]

\* acquire and start_renewal, at the startup of a process.
Acquire(p) ==
    /\ fence[p] = 0 /\ row.token < MaxFence
    /\ Free(p)
    /\ Grant(p, NextToken(p))
    /\ fence' = [fence EXCEPT ![p] = NextToken(p)]
    /\ renewing' = renewing \cup {p}
    /\ ready' = ready \cup {p} /\ halted' = halted \ {p}
    /\ UNCHANGED <<now, order>>

\* Mutant: any unexpired row may be renewed.
RenewableUnexpired(p) == fence[p] # 0 /\ row.expires > now

\* What renew checks: owner, token, expiry.
Renewable(p) ==
    /\ fence[p] # 0
    /\ row.owner = OwnerOf[p]
    /\ row.token = fence[p]
    /\ row.expires > now

\* renew returned False or raised.
LeaseLost(p) ==
    /\ ready' = ready \ {p} /\ halted' = halted \cup {p}
    /\ UNCHANGED <<row, granted>>

RenewLoop(p) ==
    /\ p \in renewing
    /\ \/ /\ Renewable(p)
          /\ Grant(p, row.token)
          /\ UNCHANGED <<renewing, ready, halted>>
       \/ /\ LeaseLost(p)
          /\ renewing' = renewing \ {p}
    /\ UNCHANGED <<now, fence, order>>

\* create_order renews before it admits a new order...
Admit(p) ==
    /\ order[p] = "none" /\ p \in ready \ halted
    /\ \/ /\ Renewable(p)
          /\ Grant(p, row.token)
          /\ order' = [order EXCEPT ![p] = "admitted"]
          /\ UNCHANGED <<ready, halted>>
       \/ LeaseLost(p) /\ order' = order
    /\ UNCHANGED <<now, fence, renewing>>

\* ... and again right before it submits; the second failure marks it FAILED.
ClearToSubmit(p) ==
    /\ order[p] = "admitted"
    /\ \/ /\ Renewable(p)
          /\ Grant(p, row.token)
          /\ order' = [order EXCEPT ![p] = "cleared"]
          /\ UNCHANGED <<ready, halted>>
       \/ LeaseLost(p) /\ order' = [order EXCEPT ![p] = "none"]
    /\ UNCHANGED <<now, fence, renewing>>

\* The request leaves the process; the token is not part of it.
Submit(p) ==
    /\ order[p] = "cleared"
    /\ order' = [order EXCEPT ![p] = "none"]
    /\ UNCHANGED <<now, row, fence, granted, renewing, ready, halted>>

\* The process is gone: nothing of it is left but the row.
Gone(p) ==
    /\ fence' = [fence EXCEPT ![p] = 0]
    /\ granted' = [granted EXCEPT ![p] = 0]
    /\ renewing' = renewing \ {p} /\ ready' = ready \ {p}
    /\ halted' = halted \ {p}
    /\ order' = [order EXCEPT ![p] = "none"]
    /\ UNCHANGED now

\* Mutant: the row is backdated by a whole TTL.
ReleaseBackdated(p) ==
    /\ fence[p] # 0
    /\ row' = IF row.owner = OwnerOf[p] /\ row.token = fence[p]
                THEN [row EXCEPT !.expires = now - TTL] ELSE row
    /\ Gone(p)

\* release, at shutdown, once the services are stopped.
Release(p) ==
    /\ fence[p] # 0
    /\ row' = IF row.owner = OwnerOf[p] /\ row.token = fence[p]
                THEN [row EXCEPT !.expires = now] ELSE row
    /\ Gone(p)

Crash(p) ==
    /\ fence[p] # 0
    /\ Gone(p)
    /\ UNCHANGED row

\* The wipe endpoint of a process in mode disabled, which is none of Processes,
\* deletes the row, and tokens start again at 1.  It looks at its own mode and
\* engines and at orders and positions, not at the lease: that no live process
\* holds it is the operator's business, unless WipeLive.
Wipe ==
    /\ \A p \in Processes : order[p] = "none" /\ (fence[p] = 0 \/ WipeLive)
    /\ row' = NoRow
    /\ UNCHANGED <<now, fence, granted, renewing, ready, halted, order>>

Next ==
    \/ Tick \/ Wipe
    \/ \E p \in Processes :
           \/ Acquire(p) \/ RenewLoop(p) \/ Admit(p) \/ ClearToSubmit(p)
           \/ Submit(p) \/ Release(p) \/ Crash(p)

Spec == Init /\ [][Next]_vars

-------------------------------------------------------------------------------
(* Properties *)

\* Every variable holds a value of its code counterpart; the expiry of the row
\* never lies before the start of the clock.
TypeOK ==
    /\ now \in Nat
    /\ row \in [owner : Owners \cup {NoOwner}, token : Nat, expires : Nat]
    /\ fence \in [Processes -> Nat]
    /\ granted \in [Processes -> Nat]
    /\ renewing \subseteq Processes
    /\ ready \subseteq Processes /\ halted \subseteq Processes
    /\ order \in [Processes -> {"none", "admitted", "cleared"}]

Holds(p) == fence[p] # 0 /\ granted[p] > now

\* README: the wallet lease "prevents concurrent live executors": no two processes
\* hold an unexpired grant at once, whatever the order of expiries, takeovers,
\* releases, crashes and renewals that come too late.
OneHolder == \A p, q \in Processes : Holds(p) /\ Holds(q) => p = q

\* A fencing token is never given to two owners, even after the first one lost
\* the lease without knowing it.
FenceNamesOwner ==
    \A p, q \in Processes :
        fence[p] # 0 /\ fence[p] = fence[q] => OwnerOf[p] = OwnerOf[q]

\* create_order clears an order only under the newest token: a process that was
\* replaced while it was stalled never gets past the renewal again.
ClearedUnderNewestFence ==
    [][\A p \in Processes :
           order[p] # "cleared" /\ order'[p] = "cleared"
           => \A q \in Processes : fence[q] <= fence[p]]_vars

\* Remediation plan: lease and fencing token "stop two instances from placing
\* orders at the same time": whoever submits is the only holder.
SubmitterHolds ==
    [][\A p \in Processes :
           order[p] = "cleared" /\ order'[p] = "none" /\ fence'[p] # 0
           => \A q \in Processes : Holds(q) => q = p]_vars
===============================================================================
