---------------------------- MODULE QuotingEngine ----------------------------
(***************************************************************************)
(* One quoting engine (quoting/engine.py): the task that serves one token  *)
(* of a market.  It reads ticks, control messages and order status events  *)
(* one at a time from Redis pub/sub and keeps a local table of its orders, *)
(* active_orders.  A handler awaits the order management system; while it  *)
(* waits, orders fill, expire and get canceled at the venue, messages      *)
(* queue up, and the supervisor may cancel the task.                       *)
(*                                                                         *)
(* The order path is reduced here to what the engine can see of it:        *)
(* create_order may journal a row, reach the venue, lose the answer or     *)
(* fail to store it; cancel_order may confirm, fail or find the order      *)
(* matched.  OrderLifecycle models that path in full.                      *)
(*                                                                         *)
(* Sizes are in units: an order has the size Lot, the venue minimum is Lot *)
(* too, and a position below Lot is dust.  Prices are in ticks.            *)
(***************************************************************************)
EXTENDS Naturals, FiniteSets, FiniteSetsExt, Sequences, SequencesExt, Folds

CONSTANTS
    MaxOrders,     \* bound: orders ever created
    Prices,        \* fair values a tick can bring, in ticks
    Levels,        \* GRID_LEVELS
    Threshold,     \* QUOTE_PRICE_OFFSET_THRESHOLD, in ticks
    Lot,           \* BASE_ORDER_SIZE and the venue minimum, in units
    Extreme,       \* inventory at which the market counts as extreme
    MaxInventory,  \* bound: units held
    MaxInbox,      \* bound: queued messages
    MaxStarts,     \* bound: starts of the engine task
    Commands,      \* control messages published: subset of CommandKinds
    Faults         \* failures explored: subset of FaultKinds

CommandKinds == {"suspend", "resume", "exit"}
FaultKinds == {"answer", "persist", "cancel", "engine", "stop", "remainder"}
ASSUME EngineAssumption ==
    /\ {MaxOrders, Levels, Threshold, Lot, Extreme} \subseteq Nat
    /\ {MaxInventory, MaxInbox, MaxStarts} \subseteq Nat
    /\ Prices \subseteq Nat /\ Lot > 0 /\ Levels > 0
    /\ Faults \subseteq FaultKinds /\ Commands \subseteq CommandKinds

Ids == 1..MaxOrders

VARIABLES
    pc,          \* "off", "booted", "idle", "cancel", "place", "stopped"
    job,         \* the handler that is waiting for the order path
    active,      \* active_orders, in insertion order
    flags,       \* suspended, exiting (exit_mode), shutdown
    anchor,      \* last_anchor_mid_price, 0 for None
    inbox,       \* control and status messages not read yet
    pending,     \* pending BUY notional of this token in inventory_state
    order,       \* each order: journal row, venue, fills
    inventory,   \* this token's exposure in the inventory snapshot
    contracted,  \* a limit outside this token forbids new BUYs
    safety,      \* halted, and readiness open_orders_reconciled
    starts

engine == <<pc, job, active, flags, anchor, pending>>
world  == <<order, inventory, contracted>>
vars   == <<pc, job, active, flags, anchor, pending, inbox, order, inventory,
            contracted, safety, starts>>

NoJob   == [why |-> "none", wait |-> {}, ok |-> {}, failed |-> FALSE,
            want |-> {}, calls |-> {}]
NoOrder == [row |-> "none", venue |-> "none", mapped |-> FALSE, side |-> "BUY",
            price |-> 0, post |-> TRUE, filled |-> 0, booked |-> 0]

Max0(n, m) == IF n > m THEN n - m ELSE 0
Apart(p, q) == Max0(p, q) + Max0(q, p)

IdsIn(s) == {e.id : e \in ToSet(s)}
UnresolvedRows == {"OPEN", "PENDING", "UNKNOWN"}
Unresolved(side) == {o \in Ids : /\ order[o].row \in UnresolvedRows
                                 /\ order[o].side = side}

\* The notional _update_pending_buy_notional reports, in units.
BuyUnits(s) == SumFunctionOnSet([i \in DOMAIN s |-> s[i].size],
                                {i \in DOMAIN s : s[i].side = "BUY"})
\* The numbers of a finite set, smallest first.
Ranked(S) == [i \in 1..Cardinality(S) |->
                 CHOOSE x \in S : Cardinality({y \in S : y <= x}) = i]
\* Entries of s whose id is not in S, in the same order.
Without(s, S) ==
    LET kept == Ranked({i \in DOMAIN s : s[i].id \notin S})
    IN  [i \in DOMAIN kept |-> s[kept[i]]]

HaltIf(c) == [safety EXCEPT !.halted = @ \/ c]
Subscribed == pc \in {"idle", "cancel", "place"}
\* The inbox after a terminal status of o is published.
Published(o) ==
    IF Subscribed THEN Append(inbox, [kind |-> "status", id |-> o]) ELSE inbox

Init ==
    /\ pc = "off" /\ job = NoJob /\ active = <<>> /\ anchor = 0
    /\ flags = [suspended |-> FALSE, exiting |-> FALSE, shutdown |-> FALSE]
    /\ inbox = <<>> /\ pending = 0 /\ starts = 0
    /\ order = [o \in Ids |-> NoOrder]
    /\ inventory = 0 /\ contracted = FALSE
    /\ safety = [halted |-> FALSE, reconciled |-> TRUE]

(***************************************************************************)
(* Start.  The bootstrap rehydrates active_orders from the journal; the    *)
(* subscription follows, and what is published in between is lost.         *)
(***************************************************************************)
\* active_orders entries of the rows in the set given, in id order.
Entry(o) == [id |-> o, side |-> order[o].side, price |-> order[o].price,
             post |-> order[o].post, size |-> Lot - order[o].booked]
Entries(rows) == [i \in DOMAIN Ranked(rows) |-> Entry(Ranked(rows)[i])]
Unfilled == {o \in Ids : order[o].row \in UnresolvedRows /\ order[o].booked < Lot}

\* Mutant: only confirmed orders come back.
RehydratedOpenOnly == Entries({o \in Unfilled : order[o].row = "OPEN"})
Rehydrated == Entries(Unfilled)

Bootstrap ==
    /\ pc \in {"off", "stopped"} /\ starts < MaxStarts /\ ~safety.halted
    /\ pc' = "booted" /\ starts' = starts + 1
    /\ active' = Rehydrated /\ job' = NoJob /\ anchor' = 0
    /\ flags' = [suspended |-> FALSE, exiting |-> FALSE, shutdown |-> FALSE]
    /\ inbox' = <<>>
    /\ UNCHANGED <<pending, safety, world>>

Subscribe ==
    /\ pc = "booted" /\ pc' = "idle"
    /\ UNCHANGED <<job, active, flags, anchor, pending, inbox, safety, starts, world>>

(***************************************************************************)
(* cancel_all_orders and the two phases of sync_orders_diff.               *)
(***************************************************************************)
\* gather(cancel_order(e) for e in s); want is what to place when all confirm.
Gather(why, s, want) ==
    /\ pc' = "cancel"
    /\ job' = [NoJob EXCEPT !.why = why, !.wait = IdsIn(s), !.want = want]

\* cancel_all_orders; with nothing tracked it confirms at once.
CancelAll(why, s) == Gather(why, s, {})

Idle == pc' = "idle" /\ job' = NoJob

CancelConfirmed(o) ==
    /\ order[o].mapped /\ order[o].venue \in {"live", "closed"}
    /\ order' = [order EXCEPT ![o].venue = "closed", ![o].row = "CANCELED"]
    /\ safety' = [safety EXCEPT !.reconciled = FALSE]
    /\ job' = [job EXCEPT !.wait = @ \ {o}, !.ok = @ \union {o}]

CancelMatched(o) ==
    /\ order[o].mapped /\ order[o].venue = "filled"
    /\ order' = [order EXCEPT ![o].row = "UNKNOWN"]
    /\ safety' = HaltIf(TRUE)
    /\ job' = [job EXCEPT !.wait = @ \ {o}, !.failed = TRUE]

\* Mutant: a failed cancel counts as done.
CancelUnconfirmedTrusted(o) ==
    /\ ~order[o].mapped \/ "cancel" \in Faults
    /\ job' = [job EXCEPT !.wait = @ \ {o}, !.ok = @ \union {o}]
    /\ UNCHANGED <<order, safety>>
\* The exchange id is unknown, or both attempts at the venue failed.
CancelUnconfirmed(o) ==
    /\ ~order[o].mapped \/ "cancel" \in Faults
    /\ job' = [job EXCEPT !.wait = @ \ {o}, !.failed = TRUE]
    /\ UNCHANGED <<order, safety>>

CancelReturns(o) ==
    /\ pc = "cancel" /\ o \in job.wait
    /\ CancelConfirmed(o) \/ CancelMatched(o) \/ CancelUnconfirmed(o)
    /\ UNCHANGED <<active, flags, anchor, pending, pc, inbox, inventory,
                   contracted, starts>>

\* The gather is complete: confirmed orders leave active_orders, and the
\* handler that asked goes on.
CancelsDone ==
    /\ pc = "cancel" /\ job.wait = {}
    /\ active' = Without(active, job.ok)
    /\ pending' = IF job.why = "diff" /\ ~job.failed /\ job.want # {}
                  THEN pending ELSE BuyUnits(active')
    /\ \/ job.why \in {"pause", "exit", "fault"} /\ Idle /\ UNCHANGED safety
       \/ job.why = "suspend" /\ Idle /\ safety' = HaltIf(job.failed)
       \/ /\ job.why = "complete" /\ CancelAll("finally", active')
          /\ safety' = HaltIf(job.failed)
       \/ /\ job.why = "finally" /\ pc' = "stopped" /\ job' = NoJob
          /\ safety' = HaltIf(job.failed)
       \/ /\ job.why = "diff" /\ job.failed /\ Idle
          /\ safety' = [halted |-> TRUE, reconciled |-> FALSE]
       \/ /\ job.why = "diff" /\ ~job.failed
          /\ IF job.want = {} THEN Idle ELSE /\ pc' = "place"
                                             /\ job' = [job EXCEPT !.ok = {}]
          /\ UNCHANGED safety
    /\ flags' = [flags EXCEPT !.shutdown = @ \/ job.why = "complete"]
    /\ UNCHANGED <<anchor, inbox, starts, world>>

(***************************************************************************)
(* place_orders: gather(create_order(...)) over the missing quotes.        *)
(***************************************************************************)
\* Units the reservations of one side still hold.
Unbooked == [o \in Ids |-> Lot - order[o].booked]
Held(side) == SumFunctionOnSet(Unbooked, Unresolved(side))
Admitted(side) ==
    /\ safety.reconciled
    /\ IF side = "BUY"
       THEN ~safety.halted /\ inventory + Held("BUY") + Lot <= MaxInventory
       ELSE inventory >= Held("SELL") + Lot

\* Blocked before the journal (or the bound MaxOrders is reached):
\* create_order returns None.
CreateBlocked(d) ==
    /\ pc = "place" /\ d \in job.want
    /\ ~Admitted(d.side) \/ order[MaxOrders].row # "none"
    /\ job' = [job EXCEPT !.want = @ \ {d}]
    /\ UNCHANGED <<pc, active, flags, anchor, pending, inbox, safety, starts, world>>

\* Admitted, journaled PENDING and sent.
CreateSend(d) ==
    /\ pc = "place" /\ d \in job.want /\ Admitted(d.side)
    /\ \E o \in Ids :
         /\ order[o].row = "none" /\ \A p \in 1..(o - 1) : order[p].row # "none"
         /\ order' = [order EXCEPT ![o] =
              [NoOrder EXCEPT !.row = "PENDING", !.venue = "sent", !.side = d.side,
                              !.price = d.price, !.post = d.post]]
         /\ job' = [job EXCEPT !.want = @ \ {d}, !.calls = @ \union {o}]
    /\ UNCHANGED <<pc, active, flags, anchor, pending, inbox, inventory,
                   contracted, safety, starts>>

Outcome(o, row, mapped, s) ==
    /\ order' = [order EXCEPT ![o].row = row, ![o].mapped = mapped]
    /\ safety' = s

CreateReturns(o) ==
    /\ pc = "place" /\ o \in job.calls
    /\ \/ /\ order[o].venue \in {"live", "closed", "filled"}   \* LIVE
          /\ Outcome(o, "OPEN", TRUE, safety)
          /\ job' = [job EXCEPT !.calls = @ \ {o}, !.ok = @ \union {o}]
       \/ /\ order[o].filled > 0                               \* MATCHED
          /\ order[o].venue = "filled" \/ "remainder" \in Faults
          /\ Outcome(o, "UNKNOWN", TRUE,
                     [halted |-> safety.halted \/ order[o].post, reconciled |-> FALSE])
          /\ job' = [job EXCEPT !.calls = @ \ {o}]
       \/ /\ order[o].venue = "refused"
          /\ Outcome(o, "FAILED", FALSE, safety)
          /\ job' = [job EXCEPT !.calls = @ \ {o}]
       \/ /\ "answer" \in Faults                               \* timeout
          /\ Outcome(o, "UNKNOWN", FALSE, HaltIf(TRUE))
          /\ job' = [job EXCEPT !.calls = @ \ {o}]
       \/ /\ "persist" \in Faults /\ order[o].venue # "sent"
          /\ Outcome(o, "PENDING", FALSE, HaltIf(TRUE))
          /\ job' = [job EXCEPT !.calls = @ \ {o}]
    /\ UNCHANGED <<pc, active, flags, anchor, pending, inbox, inventory,
                   contracted, starts>>

\* Every call returned: the ids that came back join active_orders, each with
\* the size it was requested with.
Placed == [i \in DOMAIN Entries(job.ok) |-> [Entries(job.ok)[i] EXCEPT !.size = Lot]]
\* Mutant: the pending notional is not refreshed after placing.
PlacesDoneUnreported ==
    /\ pc = "place" /\ job.want = {} /\ job.calls = {}
    /\ active' = active \o Placed
    /\ Idle
    /\ UNCHANGED <<flags, anchor, pending, inbox, safety, starts, world>>
PlacesDone ==
    /\ pc = "place" /\ job.want = {} /\ job.calls = {}
    /\ active' = active \o Placed
    /\ pending' = BuyUnits(active')
    /\ Idle
    /\ UNCHANGED <<flags, anchor, inbox, safety, starts, world>>

(***************************************************************************)
(* on_tick.  A tick brings a book b: ok (integrity and venue constraints   *)
(* pass), priced (both books pair up and the volatility guard allows),     *)
(* fair (the fair value), exit (a SELL can be priced: the bounded exit     *)
(* finds bids, or the maker price is below 1), edge (economics and budgets *)
(* leave the BUY levels), aged (the anti-churn lifetime is over).  A book  *)
(* without bids or asks changes nothing once integrity has passed.         *)
(***************************************************************************)
Books == [ok : BOOLEAN, priced : BOOLEAN, fair : Prices, exit : BOOLEAN,
          edge : BOOLEAN, aged : BOOLEAN]

IsExtreme   == inventory >= Extreme
\* Mutant: an exit stops new BUYs and keeps the old ones.
NoNewBuysButExit == contracted \/ IsExtreme
NoNewBuys   == contracted \/ flags.exiting \/ IsExtreme
Quote(side, price, post) == [side |-> side, price |-> price, post |-> post, size |-> Lot]

DesiredSell(b) ==
    IF inventory < Lot \/ ~b.exit THEN {}
    ELSE IF IsExtreme \/ flags.exiting THEN {Quote("SELL", Max0(b.fair, 1), FALSE)}
         ELSE {Quote("SELL", b.fair + 1, TRUE)}
DesiredBuys(b) ==
    IF NoNewBuys \/ ~b.edge THEN {}
    ELSE {Quote("BUY", b.fair - i, TRUE) : i \in {k \in 1..Levels : k < b.fair}}
Desired(b) == DesiredSell(b) \union DesiredBuys(b)

Same(e, d) == /\ e.side = d.side /\ e.price = d.price
              /\ e.size = d.size /\ e.post = d.post
\* _consume_compatible_desired_order: a kept SELL uses up one near quote.
Compatible(e, want) ==
    LET near == {d \in want : d.side = e.side /\ Apart(d.price, e.price) <= Threshold}
    IN  IF near = {} THEN {} ELSE {CHOOSE d \in near : TRUE}

\* Mutant: the anti-churn gates keep BUYs as well.
DiffKeepingBuys(e, acc, b) ==
    IF NoNewBuys /\ e.side = "BUY" THEN [acc EXCEPT !.stale = Append(@, e)]
    ELSE IF \E d \in acc.want : Same(e, d)
         THEN [acc EXCEPT !.want = {d \in @ : ~Same(e, d)}]
    ELSE IF ~b.aged \/ Apart(e.price, b.fair) <= Threshold
         THEN [acc EXCEPT !.want = @ \ Compatible(e, @)]
    ELSE [acc EXCEPT !.stale = Append(@, e)]
\* The pass of sync_orders_diff over active_orders.
Diff(e, acc, b) ==
    IF NoNewBuys /\ e.side = "BUY" THEN [acc EXCEPT !.stale = Append(@, e)]
    ELSE IF \E d \in acc.want : Same(e, d)
         THEN [acc EXCEPT !.want = {d \in @ : ~Same(e, d)}]
    ELSE IF e.side = "SELL" /\ (~b.aged \/ Apart(e.price, b.fair) <= Threshold)
         THEN [acc EXCEPT !.want = @ \ Compatible(e, @)]
    ELSE [acc EXCEPT !.stale = Append(@, e)]

Differences(b) == FoldLeft(LAMBDA acc, e : Diff(e, acc, b),
                           [want |-> Desired(b), stale |-> <<>>], active)

SyncOrdersDiff(b) ==
    LET d == Differences(b)
    IN  IF d.stale # <<>>
        THEN Gather("diff", d.stale, d.want) /\ UNCHANGED pending
        ELSE IF d.want # {}
             THEN /\ pc' = "place" /\ job' = [NoJob EXCEPT !.why = "diff", !.want = d.want]
                  /\ UNCHANGED pending
             ELSE Idle /\ pending' = BuyUnits(active)

\* The debounce: the fair value has not moved and something is quoted.
Debounced(b) == /\ ~flags.exiting /\ anchor # 0 /\ active # <<>>
                /\ Apart(b.fair, anchor) <= Threshold

OnTick(b) ==
    /\ pc = "idle" /\ ~flags.suspended
    /\ \/ /\ ~b.ok
          /\ CancelAll("pause", active) /\ UNCHANGED <<anchor, pending>>
       \/ /\ b.ok /\ flags.exiting /\ inventory < Lot    \* cleared, or DUST_EXIT
          /\ CancelAll("complete", active) /\ UNCHANGED <<anchor, pending>>
       \/ /\ b.ok /\ ~(flags.exiting /\ inventory < Lot)
          /\ ~b.priced
          /\ CancelAll("pause", active) /\ UNCHANGED <<anchor, pending>>
       \/ /\ b.ok /\ ~(flags.exiting /\ inventory < Lot)
          /\ b.priced /\ ~Debounced(b)
          /\ anchor' = b.fair
          /\ SyncOrdersDiff(b)
    /\ UNCHANGED <<active, flags, inbox, safety, starts, world>>

(***************************************************************************)
(* on_control_message and on_order_status_message.                         *)
(***************************************************************************)
\* Mutant: the suspended engine leaves its orders.
OnSuspendKeeping ==
    /\ flags' = [flags EXCEPT !.suspended = TRUE]
    /\ UNCHANGED <<pc, job, active, anchor, pending>>
OnSuspend ==
    /\ flags' = [flags EXCEPT !.suspended = TRUE]
    /\ CancelAll("suspend", active) /\ UNCHANGED <<active, anchor, pending>>
OnResume ==
    /\ flags' = [flags EXCEPT !.suspended = FALSE]
    /\ UNCHANGED <<pc, job, active, anchor, pending>>
OnGracefulExit ==
    IF flags.exiting THEN UNCHANGED engine
    ELSE /\ flags' = [flags EXCEPT !.exiting = TRUE] /\ anchor' = 0
         /\ CancelAll("exit", active) /\ UNCHANGED <<active, pending>>
OnOrderStatus(o) ==
    /\ active' = Without(active, {o})
    /\ pending' = IF o \in IdsIn(active) THEN BuyUnits(active') ELSE pending
    /\ UNCHANGED <<pc, job, flags, anchor>>

OnMessage ==
    /\ pc = "idle" /\ inbox # <<>>
    /\ inbox' = Tail(inbox)
    /\ LET msg == Head(inbox)
       IN  \/ msg.kind = "suspend" /\ OnSuspend
           \/ msg.kind = "resume"  /\ OnResume
           \/ msg.kind = "exit"    /\ OnGracefulExit
           \/ msg.kind = "status"  /\ OnOrderStatus(msg.id)
    /\ UNCHANGED <<safety, starts, world>>

\* active_orders with the results of a gather that has returned.
Settled == CASE pc = "cancel" -> Without(active, job.ok)
             [] pc = "place"  -> active \o Placed
             [] OTHER         -> active
\* A message that cannot be parsed or processed suspends the engine: before it
\* has been awaited for anything, or when the calls it awaited have returned
\* (a gather keeps their exceptions).  A failure of that cancel ends the loop.
OnFault ==
    /\ "engine" \in Faults
    /\ \/ pc = "idle"
       \/ pc = "cancel" /\ job.wait = {} /\ job.why # "finally"
       \/ pc = "place" /\ job.want = {} /\ job.calls = {}
    /\ flags' = [flags EXCEPT !.suspended = TRUE] /\ safety' = HaltIf(TRUE)
    /\ active' = Settled
    /\ CancelAll(IF job.why = "fault" THEN "finally" ELSE "fault", active')
    /\ UNCHANGED <<anchor, pending, inbox, starts, world>>

\* The supervisor cancels the task: calls in progress are abandoned where
\* they are, and the finally block cancels what active_orders holds.
StopTask ==
    /\ "stop" \in Faults
    /\ \/ /\ pc = "booted" /\ pc' = "stopped" /\ job' = NoJob
       \/ /\ pc \in {"idle", "cancel", "place"} /\ job.why # "finally"
          /\ CancelAll("finally", active)
    /\ UNCHANGED <<active, flags, anchor, pending, inbox, safety, starts, world>>

(***************************************************************************)
(* What happens around the engine.                                         *)
(***************************************************************************)
Control(msg) ==
    /\ Subscribed
    /\ Len(SelectSeq(inbox, LAMBDA m : m.kind # "status")) < MaxInbox
    /\ inbox' = Append(inbox, [kind |-> msg, id |-> 0])
    /\ UNCHANGED <<engine, safety, starts, world>>

VenueStep(o) ==
    /\ \/ /\ order[o].venue = "sent"
          /\ \E v \in {"live", "refused"} : order' = [order EXCEPT ![o].venue = v]
       \/ /\ order[o].venue = "live"
          /\ order' = [order EXCEPT ![o].venue = "closed"]
       \/ /\ order[o].venue = "live"
          /\ order' = [order EXCEPT ![o].filled = @ + 1,
                         ![o].venue = IF order[o].filled + 1 = Lot THEN "filled" ELSE @]
    /\ UNCHANGED <<engine, inbox, inventory, contracted, safety, starts>>

\* Mutant: a fill delivered again is booked again.
ProcessFillAgain(o) ==
    /\ order[o].mapped /\ order[o].filled > 0 /\ order[o].booked < Lot
    /\ order' = [order EXCEPT ![o].booked = @ + 1,
                   ![o].row = IF order[o].booked + 1 = Lot THEN "FILLED" ELSE "OPEN"]
    /\ inventory' = IF order[o].side = "BUY" THEN inventory + 1 ELSE Max0(inventory, 1)
    /\ inbox' = IF order[o].booked + 1 = Lot THEN Published(o) ELSE inbox
    /\ UNCHANGED <<engine, contracted, safety, starts>>
\* The fill transaction commits, the snapshot follows it.
ProcessFill(o) ==
    /\ order[o].mapped /\ order[o].booked < order[o].filled
    /\ order' = [order EXCEPT ![o].booked = @ + 1,
                   ![o].row = IF order[o].booked + 1 = Lot THEN "FILLED" ELSE "OPEN"]
    /\ inventory' = IF order[o].side = "BUY" THEN inventory + 1 ELSE Max0(inventory, 1)
    /\ inbox' = IF order[o].booked + 1 = Lot THEN Published(o) ELSE inbox
    /\ UNCHANGED <<engine, contracted, safety, starts>>

\* handle_cancellation, for an order that closed without our cancel.
StreamCancel(o) ==
    /\ order[o].mapped /\ order[o].venue = "closed"
    /\ order[o].row \notin {"CANCELED", "FILLED"}
    /\ order' = [order EXCEPT ![o].row = "CANCELED"]
    /\ safety' = [safety EXCEPT !.reconciled = FALSE]
    /\ inbox' = Published(o)
    /\ UNCHANGED <<engine, inventory, contracted, starts>>

\* A reconciliation pass whose reads find every fill accounted.
Reconcile ==
    LET blind == {o \in Ids : order[o].row \in {"PENDING", "UNKNOWN"}
                              /\ ~order[o].mapped}
    IN  /\ \A o \in Ids : order[o].mapped => order[o].booked = order[o].filled
        /\ order' = [o \in Ids |->
             IF order[o].row \notin UnresolvedRows \/ o \in blind THEN order[o]
             ELSE [order[o] EXCEPT !.row =
                     CASE order[o].venue = "live"   -> "OPEN"
                       [] order[o].venue = "closed" -> "CANCELED"
                       [] OTHER                     -> "FILLED"]]
        /\ safety' = [halted |-> safety.halted \/ blind # {}, reconciled |-> blind = {}]
        /\ UNCHANGED <<engine, inbox, inventory, contracted, starts>>

\* Another token's position, the budget or the alpha switch changes.
Contract(c) ==
    /\ contracted # c /\ contracted' = c
    /\ UNCHANGED <<engine, inbox, order, inventory, safety, starts>>

EngineStep ==
    \/ Bootstrap \/ Subscribe
    \/ \E o \in Ids : CancelReturns(o) \/ CreateReturns(o)
    \/ CancelsDone \/ PlacesDone
    \/ \E d \in job.want : CreateBlocked(d) \/ CreateSend(d)
    \/ \E b \in Books : OnTick(b)
    \/ OnMessage \/ OnFault \/ StopTask
Next ==
    \/ EngineStep
    \/ \E msg \in Commands : Control(msg)
    \/ \E o \in Ids : VenueStep(o) \/ ProcessFill(o) \/ StreamCancel(o)
    \/ Reconcile
    \/ \E c \in BOOLEAN : Contract(c)
Spec == Init /\ [][Next]_vars

\* The coroutine runs, calls to the venue return (they have timeouts), the
\* subscription is read in order, and usable books keep coming.
Fairness ==
    /\ WF_vars(Subscribe) /\ WF_vars(CancelsDone) /\ WF_vars(PlacesDone)
    /\ \A o \in Ids : WF_vars(CancelReturns(o)) /\ WF_vars(CreateReturns(o))
    /\ WF_vars(\E d \in job.want : CreateBlocked(d) \/ CreateSend(d))
    /\ \A o \in Ids : WF_vars(order[o].venue = "sent" /\ VenueStep(o))
    /\ SF_vars(OnMessage)
    /\ SF_vars(\E b \in Books : b.ok /\ b.priced /\ OnTick(b))
FairSpec == Spec /\ Fairness

-----------------------------------------------------------------------------
\* Type correctness; active_orders is a dictionary: one entry for an order.
TypeOK ==
    /\ pc \in {"off", "booted", "idle", "cancel", "place", "stopped"}
    /\ IdsIn(active) \subseteq Ids
    /\ Cardinality(IdsIn(active)) = Len(active)
    /\ pending \in 0..(Lot * MaxOrders)
    /\ inventory \in 0..MaxInventory
    /\ \A o \in Ids : /\ order[o].booked <= order[o].filled
                      /\ order[o].filled <= Lot
    /\ safety \in [halted : BOOLEAN, reconciled : BOOLEAN]

Live == {o \in Ids : order[o].venue = "live"}
LiveBuys == {o \in Live : order[o].side = "BUY"}
Quotes == {o \in Live : order[o].post}
\* New risk is blocked in the whole process.
Blocked == safety.halted \/ ~safety.reconciled

\* Between handlers the engine tracks every post-only quote of its token that
\* rests at the venue, whatever was lost, abandoned or restarted, unless trading
\* is halted: run, place_orders and the bootstrap keep active_orders so.
IdleKnowsQuotes == pc = "idle" => Quotes \subseteq IdsIn(active) \/ safety.halted

\* sync_orders_diff never has more BUYs out than grid levels: a stale quote is
\* gone before its replacement goes out, unless trading is halted.
OneQuotePerLevel ==
    Cardinality({o \in Ids : order[o].venue \in {"sent", "live"}
                             /\ order[o].side = "BUY"}) <= Levels \/ safety.halted

\* After the suspend command, and after a message the engine could not
\* process, no quote rests at the venue, or trading is halted.
SuspendedIsQuiet == pc = "idle" /\ flags.suspended => Quotes = {} \/ safety.halted

\* _complete_graceful_exit ends the task with no quote at the venue, or with
\* trading halted.
CleanExit == pc = "stopped" /\ flags.shutdown => Quotes = {} \/ safety.halted

\* Between handlers the pending notional that inventory_state charges to the
\* budgets covers what the live BUYs of this token can still buy.
PendingCoversBuys ==
    pc = "idle" /\ anchor # 0 =>
      \/ SumFunctionOnSet([o \in Ids |-> Lot - order[o].filled], LiveBuys) <= pending
      \/ safety.halted

\* sync_orders_diff promises that a contraction "must remove old new-risk
\* intents immediately": while tracked BUYs rest and new BUYs are forbidden,
\* the next tick with a usable book is not swallowed by the debounce.
ContractionActsOnNextTick ==
    pc = "idle" /\ ~flags.suspended /\ NoNewBuys /\ ~Blocked
      /\ LiveBuys \intersect IdsIn(active) # {}
    => \A b \in Books : b.ok /\ b.priced => ~Debounced(b)

\* A stopped engine leaves no quote behind, or new risk is blocked.
StoppedLeavesNothing == pc = "stopped" => Quotes = {} \/ Blocked

\* A graceful exit gets rid of the BUYs: they are gone, or the process is
\* halted, or the engine was stopped first.
ExitRemovesBuys == flags.exiting ~> LiveBuys = {} \/ safety.halted \/ pc = "stopped"
=============================================================================
