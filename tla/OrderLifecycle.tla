---------------------------- MODULE OrderLifecycle ----------------------------
(***************************************************************************)
(* The order path of a LIVE process: oms.create_order, oms.cancel_order,   *)
(* the durable reservation ledger and the fill inbox, one action for each  *)
(* committed database transaction or exchange call.  Between two steps of  *)
(* one coroutine every other coroutine, the venue and a crash may act.     *)
(*                                                                         *)
(* Data abstraction.  All orders share one price tick, so a share costs    *)
(* one unit: BUY notional is `rem', cost basis is `shares'.  A market has  *)
(* one token.  An order is a set of lots of one share; the venue matches   *)
(* lot by lot, and the lot is also the deterministic id of its fill event. *)
(***************************************************************************)
EXTENDS Integers, FiniteSets, FiniteSetsExt, Functions

CONSTANTS Orders,         \* local order ids create_order will draw
          Markets,        \* condition ids
          Lots,           \* the shares of all orders
          OrderOf,        \* OrderOf[l]: the order lot l belongs to
          Side,           \* Side[o]: "BUY" or "SELL"
          MarketOf,       \* MarketOf[o]
          PostOnly,       \* orders submitted with post_only
          FeeKnown,       \* lots whose fill comes with an authoritative fee
          InitialShares,  \* InitialShares[m]: inventory before the first order
          GlobalCap,      \* GLOBAL_MAX_BUDGET
          MarketCap,      \* MAX_EXPOSURE_PER_MARKET
          Faults,         \* what may go wrong, see FaultKinds
          MaxCrashes      \* bound: process crashes in a behaviour

\* A step that raises: insert the journal row, persist the submit outcome, settle
\* a reservation in create_order, mark it after a cancel, account a fill; read or
\* apply a reconciliation pass.  A task that is canceled: a market's engine in
\* the middle of create_order, the user stream's session with its periodic pass.
FaultKinds == {"journal", "persist", "settle", "mark", "fill", "pass",
               "engine", "stream"}

LotsOf(o) == {l \in Lots : OrderOf[l] = o}
Size(o)   == Cardinality(LotsOf(o))

ASSUME ConstantsAssumption ==
    /\ IsFiniteSet(Lots) /\ IsFiniteSet(Orders) /\ IsFiniteSet(Markets)
    /\ OrderOf \in [Lots -> Orders]
    /\ Side \in [Orders -> {"BUY", "SELL"}]
    /\ MarketOf \in [Orders -> Markets]
    /\ InitialShares \in [Markets -> Nat]
    /\ FeeKnown \subseteq Lots
    /\ Faults \subseteq FaultKinds
    /\ GlobalCap \in Nat /\ MarketCap \in Nat /\ MaxCrashes \in Nat

VARIABLES
    \* Postgres
    journal,    \* order_journal: status, exchange_order_id set?, filled_size
    resv,       \* risk_reservations: status, remaining_size
    cached,     \* portfolio_risk_state.reserved_buy_notional
    shares,     \* inventory_ledger exposure, and cost basis at one unit a share
    event,      \* fill_events.status, "none" before the row exists
    haltDb,     \* trading_control_state.halted
    \* the venue
    venue,      \* the order as the matching engine holds it
    trade,      \* settlement status of each lot
    \* the process
    phase,      \* lifespan: "down", "boot", "rebuild", "run", "held"
    task,       \* where the create_order coroutine of an order stands
    outcome,    \* its api_status once the submit call returned
    cancel,     \* where a cancel_order coroutine of an order stands, and the
                \* filled_size it read
    accounting, \* lots whose record_and_process is past its inbox insert
    marking,    \* coroutines between "journal CANCELED" and "mark pending"
    halted,     \* trading_safety._halted
    openOk,     \* readiness flags open_orders_reconciled and user_stream: only a
                \* pass without blockers restores either
    riskOk,     \* readiness flag risk_reservations
    crashes     \* crashes so far, at most MaxCrashes

inbox   == <<event, accounting>>
db      == <<journal, resv, cached, shares, inbox>>
market  == <<venue, trade>>
process == <<task, outcome, cancel, marking>>
flags   == <<halted, openOk, riskOk>>
control == <<phase, crashes, haltDb>>
lvars   == <<db, market, process, flags, control>>

ActiveStatuses == {"RESERVED", "OPEN", "PARTIAL", "UNKNOWN",
                   "CANCEL_PENDING_RECONCILE"}
TerminalStatuses == {"FILLED", "RECONCILED_CANCELED", "ORDER_FAILED",
                     "JOURNAL_FAILED"}
OpenJournalStatuses == {"PENDING", "OPEN", "UNKNOWN"}

Active(o)     == resv[o].status \in ActiveStatuses
Matched(o)    == {l \in LotsOf(o) : trade[l] # "none"}
Accounted(o)  == {l \in LotsOf(o) : event[l] = "PROCESSED"}

\* SUM(reserved_notional) and SUM(remaining_size) over the active rows of S.
Remaining == [o \in Orders |-> resv[o].rem]
ReservedSum(side, S) ==
    SumFunctionOnSet(Remaining, {o \in S : Side[o] = side /\ Active(o)})
CapitalSum(M) == SumFunctionOnSet(shares, M)
OrdersIn(m)   == {o \in Orders : MarketOf[o] = m}

NoCancel == [pc |-> "idle", seen |-> 0]

LInit ==
    /\ journal = [o \in Orders |-> [status |-> "none", xid |-> FALSE, filled |-> 0]]
    /\ resv = [o \in Orders |-> [status |-> "none", rem |-> 0]]
    /\ cached = 0
    /\ shares = InitialShares
    /\ event = [l \in Lots |-> "none"]
    /\ venue = [o \in Orders |-> "none"]
    /\ trade = [l \in Lots |-> "none"]
    /\ phase = "run" /\ crashes = 0 /\ haltDb = FALSE
    /\ task = [o \in Orders |-> "idle"]
    /\ outcome = [o \in Orders |-> "none"]
    /\ cancel = [o \in Orders |-> NoCancel]
    /\ accounting = {} /\ marking = {}
    /\ halted = FALSE /\ openOk = TRUE /\ riskOk = TRUE

-------------------------------------------------------------------------------
(* create_order: admission, reservation, journal *)

GoTo(o, pc) == task' = [task EXCEPT ![o] = pc]

\* The blockers are read once, before the reservation.  A SELL ignores the
\* halt (reduce only) but not the readiness flags.
Admit(o) ==
    /\ phase = "run" /\ task[o] = "idle"
    /\ openOk /\ riskOk
    /\ Side[o] = "BUY" => ~halted
    /\ GoTo(o, "admitted")
    /\ UNCHANGED <<db, market, outcome, cancel, marking, flags, control>>

\* Mutant: the reservations of other orders are left out of the sums.
BuyAdmittedOnCapital(o) ==
    /\ CapitalSum(Markets) + Size(o) <= GlobalCap
    /\ shares[MarketOf[o]] + Size(o) <= MarketCap

\* evaluate_reservation
BuyAdmitted(o) ==
    /\ CapitalSum(Markets) + ReservedSum("BUY", Orders) + Size(o) <= GlobalCap
    /\ shares[MarketOf[o]] + ReservedSum("BUY", OrdersIn(MarketOf[o])) + Size(o)
           <= MarketCap

\* Mutant: shares another SELL reserved are offered again.
SellAdmittedOnShares(o) == shares[MarketOf[o]] >= Size(o)

\* evaluate_sell_reservation
SellAdmitted(o) ==
    shares[MarketOf[o]] - ReservedSum("SELL", OrdersIn(MarketOf[o])) >= Size(o)

Reserve(o) ==
    /\ task[o] = "admitted"
    /\ IF Side[o] = "BUY"
         THEN BuyAdmitted(o) /\ cached' = ReservedSum("BUY", Orders) + Size(o)
         ELSE SellAdmitted(o) /\ cached' = cached
    /\ resv' = [resv EXCEPT ![o] = [status |-> "RESERVED", rem |-> Size(o)]]
    /\ GoTo(o, "reserved")
    /\ UNCHANGED <<journal, shares, inbox, market, outcome, cancel, marking,
                   flags, control>>

\* ReservationRejected, or any other exception, which also halts.
ReserveFails(o) ==
    /\ task[o] = "admitted"
    /\ halted' \in IF (Side[o] = "BUY" /\ ~BuyAdmitted(o))
                       \/ (Side[o] = "SELL" /\ ~SellAdmitted(o))
                     THEN {halted} ELSE {TRUE}
    /\ GoTo(o, "done")
    /\ UNCHANGED <<db, market, outcome, cancel, marking, openOk, riskOk, control>>

JournalPending(o) ==
    /\ task[o] = "reserved"
    /\ journal' = [journal EXCEPT ![o].status = "PENDING"]
    /\ GoTo(o, "journaled")
    /\ UNCHANGED <<resv, cached, shares, inbox, market, outcome, cancel, marking,
                   flags, control>>

JournalFails(o) ==
    /\ "journal" \in Faults /\ task[o] = "reserved"
    /\ GoTo(o, "unjournaled")
    /\ UNCHANGED <<db, market, outcome, cancel, marking, flags, control>>

\* Mutant: the cached total keeps what was released.
ReleaseKeepingTotal(o, terminal) ==
    /\ resv' = IF Active(o) THEN [resv EXCEPT ![o] = [status |-> terminal, rem |-> 0]]
               ELSE resv
    /\ cached' = cached

\* release(reservation_id, terminal_status)
Release(o, terminal) ==
    IF Active(o)
      THEN /\ resv' = [resv EXCEPT ![o] = [status |-> terminal, rem |-> 0]]
           /\ cached' = IF Side[o] = "BUY" THEN Max({0, cached - resv[o].rem})
                        ELSE cached
      ELSE UNCHANGED <<resv, cached>>

\* Mutant: a confirmed cancel frees the reservation at once.
MarkReleasing(o, status) ==
    resv' = IF ~Active(o) THEN resv
            ELSE IF status = "CANCEL_PENDING_RECONCILE"
              THEN [resv EXCEPT ![o] = [status |-> "RECONCILED_CANCELED", rem |-> 0]]
            ELSE [resv EXCEPT ![o].status = status]

\* _mark_active_for_order: the amounts stay reserved.
Mark(o, status) ==
    resv' = IF Active(o) THEN [resv EXCEPT ![o].status = status] ELSE resv

\* The release after a failed insert is not guarded itself: when it raises too,
\* create_order leaves a reservation without a journal row.
ReleaseUnjournaled(o) ==
    /\ task[o] = "unjournaled"
    /\ \/ Release(o, "JOURNAL_FAILED") /\ GoTo(o, "done")
       \/ "settle" \in Faults /\ UNCHANGED <<resv, cached>> /\ GoTo(o, "abandoned")
    /\ UNCHANGED <<journal, shares, inbox, market, outcome, cancel, marking,
                   flags, control>>

-------------------------------------------------------------------------------
(* create_order: submit, persist the outcome, settle the reservation *)

\* The submit call ended with api_status `result'.
Replied(o, result) ==
    /\ outcome' = [outcome EXCEPT ![o] = result]
    /\ GoTo(o, "replied")

\* The second lease renewal succeeds and the request leaves the process.
Submit(o) ==
    /\ task[o] = "journaled"
    /\ venue' = [venue EXCEPT ![o] = "inflight"]
    /\ GoTo(o, "sent")
    /\ UNCHANGED <<db, trade, outcome, cancel, marking, flags, control>>

\* Nothing was sent and the code knows it: the lease is gone (which halts), or
\* ExchangePreSubmissionError.
NotSubmitted(o) ==
    /\ task[o] = "journaled"
    /\ Replied(o, "FAILED")
    /\ halted' \in {halted, TRUE}
    /\ UNCHANGED <<db, market, cancel, marking, openOk, riskOk, control>>

\* Mutant: a timeout after the request went out counts as a rejection.
SubmitTimeoutFails(o) ==
    /\ task[o] \in {"journaled", "sent"}
    /\ Replied(o, "FAILED")
    /\ halted' = TRUE
    /\ UNCHANGED <<db, market, cancel, marking, openOk, riskOk, control>>

\* "Any other exception", with the request sent or (an open circuit breaker, a
\* connect error) not: the outcome is UNKNOWN and new risk is halted.
SubmitAmbiguous(o) ==
    /\ task[o] \in {"journaled", "sent"}
    /\ Replied(o, "UNKNOWN")
    /\ halted' = TRUE
    /\ UNCHANGED <<db, market, cancel, marking, openOk, riskOk, control>>

\* An HTTP 4xx; a 403 also halts.
SubmitRejected(o) ==
    /\ task[o] = "sent" /\ venue[o] = "rejected"
    /\ Replied(o, "FAILED")
    /\ halted' \in {halted, TRUE}
    /\ UNCHANGED <<db, market, cancel, marking, openOk, riskOk, control>>

AcceptedAtVenue(o) == venue[o] \in {"live", "canceled", "matched"}

\* status LIVE or DELAYED
SubmitAccepted(o) ==
    /\ task[o] = "sent" /\ AcceptedAtVenue(o)
    /\ Replied(o, "OPEN")
    /\ UNCHANGED <<db, market, cancel, marking, flags, control>>

\* status MATCHED
SubmitMatched(o) ==
    /\ task[o] = "sent" /\ AcceptedAtVenue(o) /\ Matched(o) # {}
    /\ Replied(o, "MATCHED")
    /\ openOk' = FALSE
    /\ halted' = (halted \/ o \in PostOnly)
    /\ UNCHANGED <<db, market, cancel, marking, riskOk, control>>

\* order.status = api_status, whatever the row says by now.
PersistOutcome(o) ==
    /\ task[o] = "replied"
    /\ journal' = [journal EXCEPT
           ![o].status = IF outcome[o] = "MATCHED" THEN "UNKNOWN" ELSE outcome[o],
           ![o].xid    = @ \/ outcome[o] \in {"OPEN", "MATCHED"}]
    /\ GoTo(o, "persisted")
    /\ UNCHANGED <<resv, cached, shares, inbox, market, outcome, cancel, marking,
                   flags, control>>

PersistFails(o) ==
    /\ "persist" \in Faults /\ task[o] = "replied"
    /\ halted' = TRUE
    /\ GoTo(o, "unpersisted")
    /\ UNCHANGED <<db, market, outcome, cancel, marking, openOk, riskOk, control>>

EndTask(o) == GoTo(o, "done") /\ outcome' = [outcome EXCEPT ![o] = "none"]

MarkUnpersisted(o) ==
    /\ task[o] = "unpersisted"
    /\ Mark(o, "UNKNOWN") /\ EndTask(o)
    /\ UNCHANGED <<journal, cached, shares, inbox, market, cancel, marking, flags,
                   control>>

SettleReservation(o) ==
    /\ task[o] = "persisted"
    /\ EndTask(o)
    /\ \/ /\ outcome[o] = "OPEN" /\ cached' = cached
          /\ resv' = IF resv[o].status \in {"RESERVED", "OPEN"}
                       THEN [resv EXCEPT ![o].status = "OPEN"] ELSE resv
       \/ /\ outcome[o] \in {"MATCHED", "UNKNOWN"} /\ cached' = cached
          /\ Mark(o, "UNKNOWN")
       \/ outcome[o] = "FAILED" /\ Release(o, "ORDER_FAILED")
    /\ UNCHANGED <<journal, shares, inbox, market, cancel, marking, flags, control>>

\* The reservation transaction raises.  create_order halts if the venue named
\* an order; otherwise the exception reaches place_orders, which only logs it.
SettleFails(o) ==
    /\ "settle" \in Faults /\ task[o] \in {"persisted", "unpersisted"}
    /\ halted' = (halted \/ outcome[o] \in {"OPEN", "MATCHED"})
    /\ EndTask(o)
    /\ UNCHANGED <<db, market, cancel, marking, openOk, riskOk, control>>

\* Stopping a market cancels its engine at any await of create_order, whose
\* handlers let a CancelledError pass: nothing is undone and nothing halts.  (A
\* reservation that commits and still raises ends here too, and halts.)
AbandonCreate(o) ==
    /\ "engine" \in Faults /\ task[o] \notin {"idle", "done", "abandoned"}
    /\ GoTo(o, "abandoned") /\ outcome' = [outcome EXCEPT ![o] = "none"]
    /\ halted' \in IF task[o] = "reserved" THEN {halted, TRUE} ELSE {halted}
    /\ UNCHANGED <<db, market, cancel, marking, openOk, riskOk, control>>

CreateOrderStep(o) ==
    \/ Admit(o) \/ Reserve(o) \/ ReserveFails(o)
    \/ JournalPending(o) \/ JournalFails(o) \/ ReleaseUnjournaled(o)
    \/ Submit(o) \/ NotSubmitted(o) \/ SubmitAmbiguous(o) \/ SubmitRejected(o)
    \/ SubmitAccepted(o) \/ SubmitMatched(o)
    \/ PersistOutcome(o) \/ PersistFails(o) \/ MarkUnpersisted(o)
    \/ SettleReservation(o) \/ SettleFails(o) \/ AbandonCreate(o)

-------------------------------------------------------------------------------
(* cancel_order, and the user stream's cancellation event *)

CancelSend(o) ==
    /\ phase = "run" /\ cancel[o].pc = "idle" /\ journal[o].xid
    /\ cancel' = [cancel EXCEPT ![o].pc = "sent"]
    /\ UNCHANGED <<db, market, task, outcome, marking, flags, control>>

\* Two failed attempts, an unrecognised response or a failed commit: return
\* False.  A canceled cancel_order ends here too.
CancelFails(o) ==
    /\ \/ cancel[o].pc = "sent"
       \/ cancel[o].pc = "found" /\ "mark" \in Faults
    /\ cancel' = [cancel EXCEPT ![o] = NoCancel]
    /\ UNCHANGED <<db, market, task, outcome, marking, flags, control>>

\* CANCEL_CONFIRMED or CANCEL_ALREADY_CLOSED: the journal row is closed first,
\* the reservation in a transaction of its own.
CancelConfirmed(o) ==
    /\ cancel[o].pc = "sent" /\ venue[o] = "canceled"
    /\ journal' = [journal EXCEPT ![o].status = "CANCELED"]
    /\ cancel' = [cancel EXCEPT ![o] = NoCancel]
    /\ marking' = marking \cup {<<o, "oms">>}
    /\ UNCHANGED <<resv, cached, shares, inbox, market, task, outcome, flags,
                   control>>

\* CANCEL_MATCHED_UNKNOWN: the order is read without FOR UPDATE...
CancelFoundMatched(o) ==
    /\ cancel[o].pc = "sent" /\ venue[o] = "matched"
    /\ cancel' = [cancel EXCEPT ![o] = [pc |-> "found", seen |-> journal[o].filled]]
    /\ UNCHANGED <<db, market, task, outcome, marking, flags, control>>

\* ... and written back with the payload that was read, filled_size included.
CommitMatched(o) ==
    /\ cancel[o].pc = "found"
    /\ journal' = [journal EXCEPT ![o].status = "UNKNOWN", ![o].filled = cancel[o].seen]
    /\ cancel' = [cancel EXCEPT ![o] = [pc |-> "matched", seen |-> 0]]
    /\ UNCHANGED <<resv, cached, shares, inbox, market, task, outcome, marking,
                   flags, control>>

\* When marking raises, cancel_order swallows it and the halt is not reached, nor
\* when the coroutine is canceled here.
MarkMatchedUnknown(o) ==
    /\ cancel[o].pc = "matched"
    /\ \/ Mark(o, "UNKNOWN") /\ halted' = TRUE
       \/ "mark" \in Faults /\ UNCHANGED <<resv, halted>>
    /\ cancel' = [cancel EXCEPT ![o] = NoCancel]
    /\ UNCHANGED <<journal, cached, shares, inbox, market, task, outcome, marking,
                   openOk, riskOk, control>>

\* handle_cancellation
StreamCancel(o) ==
    /\ phase = "run" /\ venue[o] = "canceled" /\ journal[o].xid
    /\ journal[o].status \notin {"CANCELED", "FILLED"}
    /\ journal' = [journal EXCEPT ![o].status = "CANCELED"]
    /\ marking' = marking \cup {<<o, "stream">>}
    /\ UNCHANGED <<resv, cached, shares, inbox, market, task, outcome, cancel,
                   flags, control>>

\* Here too a failure or a cancel leaves reservation and readiness as they are.
MarkCancelPending(o, handler) ==
    /\ <<o, handler>> \in marking
    /\ \/ Mark(o, "CANCEL_PENDING_RECONCILE") /\ openOk' = FALSE
       \/ "mark" \in Faults /\ UNCHANGED <<resv, openOk>>
    /\ marking' = marking \ {<<o, handler>>}
    /\ UNCHANGED <<journal, cached, shares, inbox, market, task, outcome, cancel,
                   halted, riskOk, control>>

CancelStep(o) ==
    \/ CancelSend(o) \/ CancelFails(o) \/ CancelConfirmed(o)
    \/ CancelFoundMatched(o) \/ CommitMatched(o) \/ MarkMatchedUnknown(o)
    \/ StreamCancel(o)
    \/ \E handler \in {"oms", "stream"} : MarkCancelPending(o, handler)

-------------------------------------------------------------------------------
(* The fill inbox *)

\* Mutant: a redelivered event is inserted again whatever became of it.
InsertAgain(l) ==
    /\ l \notin accounting
    /\ event' = [event EXCEPT ![l] = "RECEIVED"]
    /\ accounting' = accounting \cup {l}

\* record_and_process, first transaction: insert RECEIVED unless the row is
\* there; a redelivery of a row still RECEIVED processes it again.
InsertReceived(l) ==
    /\ event[l] \in {"none", "RECEIVED"} /\ l \notin accounting
    /\ event' = [event EXCEPT ![l] = "RECEIVED"]
    /\ accounting' = accounting \cup {l}

\* A CONFIRMED trade of the user stream, for an order whose exchange id is
\* mapped by the end of the ownership retry; otherwise it is dropped.
RecordFill(l) ==
    /\ phase = "run" /\ trade[l] = "confirmed" /\ journal[OrderOf[l]].xid
    /\ InsertReceived(l)
    /\ UNCHANGED <<journal, resv, cached, shares, market, process, flags, control>>

\* A fill without an authoritative fee leaves its market's ledger at
\* "v2_fee_incomplete", and no transaction of the order path takes it back.
Verified(m) ==
    \A l \in Lots : event[l] = "PROCESSED" /\ MarketOf[OrderOf[l]] = m => l \in FeeKnown

\* Order, reservation and inventory have room for one more share.
FillFits(o) ==
    /\ journal[o].filled + 1 <= Size(o)
    /\ Active(o) /\ resv[o].rem >= 1
    /\ Side[o] = "SELL" => shares[MarketOf[o]] >= 1

\* What _process_event checks before it touches the ledgers.
FillAccepted(o) == FillFits(o) /\ Verified(MarketOf[o])

\* One transaction over inbox, order, reservation, cached total and inventory.
\* A second delivery finds the row PROCESSED or FAILED and leaves it alone.
ProcessFill(l) ==
    LET o == OrderOf[l]
        m == MarketOf[o]
        left == resv[o].rem - 1
        filled == journal[o].filled + 1
    IN  /\ l \in accounting /\ FillAccepted(o)
        /\ event' = [event EXCEPT ![l] = "PROCESSED"]
        /\ accounting' = accounting \ {l}
        /\ journal' = [journal EXCEPT
               ![o].status = IF filled = Size(o) THEN "FILLED" ELSE "OPEN",
               ![o].filled = filled]
        /\ resv' = [resv EXCEPT
               ![o] = [status |-> IF left = 0 THEN "FILLED" ELSE "PARTIAL",
                       rem |-> left]]
        /\ IF Side[o] = "BUY"
             THEN /\ cached' = Max({0, cached - 1})
                  /\ shares' = [shares EXCEPT ![m] = @ + 1]
             ELSE /\ cached' = cached
                  /\ shares' = [shares EXCEPT ![m] = @ - 1]
        /\ UNCHANGED <<market, process, flags, control>>

\* _mark_failed, for a refused fill and for a database error alike: FAILED for
\* good, and a halt, unless the handler is canceled right after the commit.
FailFill(l) ==
    /\ l \in accounting
    /\ "fill" \in Faults \/ ~FillAccepted(OrderOf[l])
    /\ event' = [event EXCEPT ![l] = "FAILED"]
    /\ accounting' = accounting \ {l}
    /\ halted' \in IF "stream" \in Faults THEN {halted, TRUE} ELSE {TRUE}
    /\ UNCHANGED <<journal, resv, cached, shares, market, process, openOk, riskOk,
                   control>>

\* The handler is canceled, or _mark_failed raises as well: the row stays
\* RECEIVED for a later delivery.
AbandonFill(l) ==
    /\ l \in accounting /\ {"fill", "stream"} \cap Faults # {}
    /\ accounting' = accounting \ {l}
    /\ UNCHANGED <<journal, resv, cached, shares, event, market, process, flags,
                   control>>

\* The halt for an unknown fee, raised some time after the fill committed, or
\* not at all (InventoryLedger has what may come between).
FlagFee(l) ==
    /\ phase = "run" /\ event[l] = "PROCESSED" /\ l \notin FeeKnown
    /\ halted' = TRUE
    /\ UNCHANGED <<db, market, process, openOk, riskOk, control>>

FillStep(l) ==
    RecordFill(l) \/ ProcessFill(l) \/ FailFill(l) \/ AbandonFill(l) \/ FlagFee(l)

-------------------------------------------------------------------------------
(* The venue (external): the CLOB and the settlement of its trades *)

\* A request in flight is accepted, or refused or lost.
VenueReceive(o) ==
    /\ venue[o] = "inflight"
    /\ venue' = [venue EXCEPT ![o] = "live"]
    /\ UNCHANGED <<db, trade, process, flags, control>>

VenueRefuse(o) ==
    /\ venue[o] = "inflight"
    /\ venue' = [venue EXCEPT ![o] = "rejected"]
    /\ UNCHANGED <<db, trade, process, flags, control>>

\* Our cancel arriving, an expiry, or the market resolving.
VenueCancel(o) ==
    /\ venue[o] = "live"
    /\ venue' = [venue EXCEPT ![o] = "canceled"]
    /\ UNCHANGED <<db, trade, process, flags, control>>

VenueMatch(l) ==
    LET o == OrderOf[l]
    IN  /\ venue[o] = "live" /\ trade[l] = "none"
        /\ trade' = [trade EXCEPT ![l] = "matched"]
        /\ venue' = IF Matched(o) \cup {l} = LotsOf(o)
                      THEN [venue EXCEPT ![o] = "matched"] ELSE venue
        /\ UNCHANGED <<db, process, flags, control>>

SettleConfirm(l) ==
    /\ trade[l] = "matched"
    /\ trade' = [trade EXCEPT ![l] = "confirmed"]
    /\ UNCHANGED <<db, venue, process, flags, control>>

\* Settlement failed: size_matched no longer counts the trade.
SettleFail(l) ==
    /\ trade[l] = "matched"
    /\ trade' = [trade EXCEPT ![l] = "none"]
    /\ UNCHANGED <<db, venue, process, flags, control>>

VenueStep ==
    \/ \E o \in Orders : VenueReceive(o) \/ VenueRefuse(o) \/ VenueCancel(o)
    \/ \E l \in Lots : VenueMatch(l) \/ SettleConfirm(l) \/ SettleFail(l)

-------------------------------------------------------------------------------
(* Halt persistence, crash and restart *)

\* The task halt() scheduled commits; it may lag arbitrarily or fail.
PersistHalt ==
    /\ phase # "down" /\ halted /\ ~haltDb
    /\ haltDb' = TRUE
    /\ UNCHANGED <<db, market, process, flags, phase, crashes>>

\* Every coroutine is gone; Postgres and the venue are not.
Crash ==
    /\ phase # "down" /\ crashes < MaxCrashes
    /\ phase' = "down" /\ crashes' = crashes + 1
    /\ task' = [o \in Orders |-> IF task[o] = "idle" THEN "idle" ELSE "done"]
    /\ outcome' = [o \in Orders |-> "none"]
    /\ cancel' = [o \in Orders |-> NoCancel]
    /\ marking' = {} /\ accounting' = {}
    /\ UNCHANGED <<journal, resv, cached, shares, event, market, flags, haltDb>>

\* lifespan: restore the halt, or halt over a ledger that is not v2; a halted
\* process builds no exchange client and skips the startup reconciliation.
Restart ==
    /\ phase = "down"
    /\ halted' = (haltDb \/ \E m \in Markets : ~Verified(m))
    /\ openOk' = FALSE /\ riskOk' = FALSE
    /\ phase' = IF halted' THEN "rebuild" ELSE "boot"
    /\ UNCHANGED <<db, market, process, crashes, haltDb>>

OrphanReservation(o) == Active(o) /\ journal[o].status = "none"

\* Mutant: reservations without a journal row are not looked for.
RebuildSafeLinkedOnly ==
    \A o \in Orders : resv[o].status # "CANCEL_PENDING_RECONCILE"

RebuildSafe ==
    \A o \in Orders :
        ~OrphanReservation(o) /\ resv[o].status # "CANCEL_PENDING_RECONCILE"

\* rebuild_and_validate, after the startup order reconciliation; trading
\* services start only if nothing has halted.
Rebuild ==
    /\ phase = "rebuild"
    /\ cached' = ReservedSum("BUY", Orders)
    /\ riskOk' = RebuildSafe /\ halted' = (halted \/ ~RebuildSafe)
    /\ phase' = IF halted' THEN "held" ELSE "run"
    /\ UNCHANGED <<journal, resv, shares, inbox, market, process, openOk, crashes,
                   haltDb>>

\* A process that does not crash.
LifecycleNext ==
    \/ \E o \in Orders : CreateOrderStep(o) \/ CancelStep(o)
    \/ \E l \in Lots : FillStep(l)
    \/ VenueStep
    \/ PersistHalt

LifecycleSpec == LInit /\ [][LifecycleNext]_lvars

-------------------------------------------------------------------------------
(* Properties *)

JournalStatuses == OpenJournalStatuses \cup {"none", "FILLED", "CANCELED", "FAILED"}
ResvStatuses    == ActiveStatuses \cup TerminalStatuses \cup {"none"}
VenueStatuses   == {"none", "inflight", "rejected", "live", "canceled", "matched"}

\* Every variable holds a value of its code counterpart.  `cached' is pinned by
\* CachedTotalExact instead.
LTypeOK ==
    /\ journal \in [Orders -> [status : JournalStatuses, xid : BOOLEAN, filled : Nat]]
    /\ resv \in [Orders -> [status : ResvStatuses, rem : Nat]]
    /\ shares \in [Markets -> Nat]
    /\ event \in [Lots -> {"none", "RECEIVED", "PROCESSED", "FAILED"}]
    /\ accounting \subseteq Lots
    /\ venue \in [Orders -> VenueStatuses]
    /\ trade \in [Lots -> {"none", "matched", "confirmed"}]
    /\ phase \in {"down", "boot", "rebuild", "run", "held"}
    /\ task \in [Orders -> {"idle", "admitted", "reserved", "unjournaled", "journaled",
                            "sent", "replied", "persisted", "unpersisted", "done",
                            "abandoned"}]
    /\ outcome \in [Orders -> {"none", "OPEN", "MATCHED", "FAILED", "UNKNOWN"}]
    /\ cancel \in [Orders -> [pc : {"idle", "sent", "found", "matched"}, seen : Nat]]
    /\ marking \subseteq Orders \X {"oms", "stream"}
    /\ halted \in BOOLEAN /\ openOk \in BOOLEAN /\ riskOk \in BOOLEAN
    /\ haltDb \in BOOLEAN /\ crashes \in Nat

\* The lots an order may still add to (or take from) the inventory: all it has
\* not accounted while it can still be sent, is in flight or rests at the venue;
\* its unaccounted trades once the venue closed it.
Unaccounted(o) ==
    (IF task[o] \in {"reserved", "journaled"} \/ venue[o] \in {"inflight", "live"}
       THEN LotsOf(o) ELSE Matched(o)) \ Accounted(o)
Claim(o) == Cardinality(Unaccounted(o))

\* What the ledger holds for it.
Held(o) == IF Active(o) THEN resv[o].rem ELSE 0

\* A reservation is only given up, wholly or in part, for shares the venue can
\* no longer fill or that are already in the inventory: no interleaving of
\* submit, cancel, fill, reconciliation and crash frees budget too early.
Covered == \A o \in Orders : Claim(o) <= Held(o)

SharesOf(side, m) ==
    Cardinality({l \in Lots : /\ event[l] = "PROCESSED" /\ Side[OrderOf[l]] = side
                              /\ MarketOf[OrderOf[l]] = m})

\* The inventory is that of the PROCESSED events, each counted once however
\* often stream and REST deliver them.
AccountedOnce ==
    \A m \in Markets :
        shares[m] = InitialShares[m] + SharesOf("BUY", m) - SharesOf("SELL", m)

\* Remediation plan: order and fill events keep "exactly-once" accounting
\* results: the filled size of an order counts each of its PROCESSED fills.
FilledExact == \A o \in Orders : journal[o].filled = Cardinality(Accounted(o))

\* A fill in the inbox is refused for one reason only: an earlier fill of its
\* market had no authoritative fee.  Whatever is processed before it, the
\* reservation is there and large enough, the order has room for it and a SELL
\* finds its inventory.  (A database error can still fail one.)
FillsAccepted ==
    \A l \in Lots :
        event[l] = "RECEIVED" /\ ~FillAccepted(OrderOf[l])
        => /\ FillFits(OrderOf[l])
           /\ \E k \in Lots : /\ event[k] = "PROCESSED" /\ k \notin FeeKnown
                               /\ MarketOf[OrderOf[k]] = MarketOf[OrderOf[l]]

\* The cached total the dashboard and the next admission see is the sum of the
\* active BUY reservations, although eight transactions maintain it.
CachedTotalExact == cached = ReservedSum("BUY", Orders)

\* What the venue can still buy, on top of the cost basis, stays within the
\* global and the market cap; what it can still sell is in the inventory.
Claims == [o \in Orders |-> Claim(o)]
ClaimSum(side, S) == SumFunctionOnSet(Claims, {o \in S : Side[o] = side})
RealExposureBounded ==
    /\ CapitalSum(Markets) + ClaimSum("BUY", Orders) <= GlobalCap
    /\ \A m \in Markets :
           /\ shares[m] + ClaimSum("BUY", OrdersIn(m)) <= MarketCap
           /\ ClaimSum("SELL", OrdersIn(m)) <= shares[m]

\* Cost basis plus active BUY reservations never exceed the global cap or the
\* cap of a market: the budget as the ledger itself keeps it.
BookWithinCap ==
    /\ CapitalSum(Markets) + ReservedSum("BUY", Orders) <= GlobalCap
    /\ \A m \in Markets :
           shares[m] + ReservedSum("BUY", OrdersIn(m)) <= MarketCap
===============================================================================
