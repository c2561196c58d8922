------------------------- MODULE OrderReconciliation -------------------------
(***************************************************************************)
(* OrderReconciliationService.reconcile running beside the order path: it  *)
(* reads local facts, account trades, local facts again and exchange       *)
(* orders, each at a time of its own, and then applies its verdicts in one *)
(* transaction and its readiness flag in another step.  The service's      *)
(* asyncio lock admits one pass at a time; nothing stops the order path    *)
(* between the reads and the apply.                                        *)
(***************************************************************************)
EXTENDS OrderLifecycle

VARIABLES
    pass,       \* where the pass stands: "idle", "begun", "recovering",
                \* "recovered", "loaded", "fetched", "applied", "canceled"
    known,      \* orders of the first load that have an exchange id
    todo,       \* confirmed trades of `known' that must be PROCESSED
    unsettled,  \* unsettled[o]: matched, not terminal, in the trades read
    facts,      \* second load: LocalOrderFact, or NoFact
    book,       \* ExchangeOrderFact: status and matched_size, or NoBook
    verdict     \* "safe", "pending" or "sticky": the report that was applied

rvars == <<pass, known, todo, unsettled, facts, book, verdict>>
vars  == <<lvars, rvars>>

NoFact == [in |-> FALSE, xid |-> FALSE, filled |-> 0, rem |-> 0]
NoBook == [status |-> "none", matched |-> 0]

\* Mutant: canceled orders are done, whatever they still hold.
UnresolvedOpenOnly(o) == journal[o].status \in OpenJournalStatuses

\* The local facts are the open journal rows and the pending cancels.
Unresolved(o) ==
    \/ journal[o].status \in OpenJournalStatuses
    \/ resv[o].status = "CANCEL_PENDING_RECONCILE"

NoneUnsettled == [o \in Orders |-> 0]
NoFacts       == [o \in Orders |-> NoFact]
NoBooks       == [o \in Orders |-> NoBook]

Init ==
    /\ LInit
    /\ pass = "idle" /\ known = {} /\ todo = {}
    /\ unsettled = NoneUnsettled /\ facts = NoFacts /\ book = NoBooks
    /\ verdict = "none"

\* Nothing of a pass outlives it.
EndPass ==
    /\ pass' = "idle" /\ known' = {} /\ todo' = {}
    /\ unsettled' = NoneUnsettled /\ facts' = NoFacts /\ book' = NoBooks
    /\ verdict' = "none"

-------------------------------------------------------------------------------
(* The reads *)

BeginPass ==
    /\ phase \in {"boot", "run"} /\ pass = "idle"
    /\ pass' = "begun"
    /\ known' = {o \in Orders : Unresolved(o) /\ journal[o].xid}
    /\ UNCHANGED <<lvars, todo, unsettled, facts, book, verdict>>

\* get_trades, drained: extract_fills_for_order, extract_unsettled_size_for_order
ReadTrades ==
    /\ pass = "begun"
    /\ pass' = "recovering"
    /\ todo' = {l \in Lots : OrderOf[l] \in known /\ trade[l] = "confirmed"}
    /\ unsettled' = [o \in Orders |->
           IF o \in known
             THEN Cardinality({l \in LotsOf(o) : trade[l] = "matched"}) ELSE 0]
    /\ UNCHANGED <<lvars, known, facts, book, verdict>>

\* record_and_process for each confirmed fill: ProcessFill or FailFill follows.
RecoverFill(l) ==
    /\ pass = "recovering" /\ l \in todo
    /\ InsertReceived(l)
    /\ UNCHANGED <<journal, resv, cached, shares, market, process, flags, control,
                   rvars>>

FinishRecovery ==
    /\ pass = "recovering"
    /\ \A l \in todo : event[l] = "PROCESSED"
    /\ pass' = "recovered" /\ known' = {} /\ todo' = {}
    /\ UNCHANGED <<lvars, unsettled, facts, book, verdict>>

LoadFacts ==
    /\ pass = "recovered"
    /\ pass' = "loaded"
    /\ facts' = [o \in Orders |->
           IF Unresolved(o)
             THEN [in |-> TRUE, xid |-> journal[o].xid,
                   filled |-> journal[o].filled, rem |-> resv[o].rem]
             ELSE NoFact]
    /\ UNCHANGED <<lvars, known, todo, unsettled, book, verdict>>

\* get_orders lists what is open; get_order answers for the facts it leaves out.
FetchOrders ==
    /\ pass = "loaded"
    /\ pass' = "fetched"
    /\ book' = [o \in Orders |->
           IF venue[o] = "live" \/ facts[o].xid
             THEN [status |-> venue[o], matched |-> Cardinality(Matched(o))]
             ELSE NoBook]
    /\ UNCHANGED <<lvars, known, todo, unsettled, facts, verdict>>

-------------------------------------------------------------------------------
(* reconcile_order_facts and _persist_and_apply *)

Verdict(o) ==
    LET f == facts[o]
        b == book[o]
        delta == b.matched - f.filled
    IN  IF ~f.in
          THEN IF b.status = "live" THEN "EXTERNAL_ORPHAN" ELSE "NONE"
        ELSE IF ~f.xid THEN "UNKNOWN"
        ELSE IF delta > 0
          THEN IF unsettled[o] >= delta THEN "SETTLEMENT_PENDING"
               ELSE "MISSING_FILLS"
        ELSE IF delta < 0 THEN "CONFLICT"
        ELSE IF b.status = "live" THEN "OPEN_CONFIRMED"
        ELSE IF b.status = "canceled" THEN "CANCELED_CONFIRMED"
        ELSE IF b.matched < Size(o) THEN "CONFLICT"
        ELSE IF f.rem > 0 THEN "RESERVATION_MISMATCH"
        ELSE "FILLED_CONFIRMED"

\* Mutant: an order without exchange id does not block.
StickyAttributed == {"MISSING_FILLS", "CONFLICT", "RESERVATION_MISMATCH",
                     "EXTERNAL_ORPHAN"}

Sticky   == {"UNKNOWN", "MISSING_FILLS", "CONFLICT", "RESERVATION_MISMATCH",
             "EXTERNAL_ORPHAN"}
Blockers == Sticky \cup {"SETTLEMENT_PENDING"}

\* The order and reservation rows after the verdict, whatever they hold now.
JournalAfter(o) ==
    LET v == Verdict(o)
    IN  IF ~facts[o].in THEN journal[o]
        ELSE [journal[o] EXCEPT !.status =
                 IF v \in Sticky THEN "UNKNOWN"
                 ELSE IF v = "OPEN_CONFIRMED" THEN "OPEN"
                 ELSE IF v = "CANCELED_CONFIRMED" THEN "CANCELED"
                 ELSE IF v = "FILLED_CONFIRMED" THEN "FILLED"
                 ELSE @]

\* Mutant: matched shares are taken off what the fills already reduced.
OpenRemainingTwice(o) == facts[o].rem - book[o].matched

\* ExchangeOrderFact.remaining_size
OpenRemaining(o) == Size(o) - book[o].matched

ResvAfter(o) ==
    LET v == Verdict(o)
    IN  IF ~facts[o].in THEN resv[o]
        ELSE IF v \in Sticky
          THEN IF Active(o) THEN [resv[o] EXCEPT !.status = "UNKNOWN"] ELSE resv[o]
        ELSE IF v = "OPEN_CONFIRMED"
          THEN [status |-> "OPEN", rem |-> OpenRemaining(o)]
        ELSE IF v = "CANCELED_CONFIRMED"
          THEN [status |-> "RECONCILED_CANCELED", rem |-> 0]
        ELSE IF v = "FILLED_CONFIRMED" THEN [status |-> "FILLED", rem |-> 0]
        ELSE resv[o]

\* Mutant: the recomputed total forgets the pending cancels.
ReservedAfterOpen ==
    SumFunctionOnSet([o \in Orders |-> ResvAfter(o).rem],
        {o \in Orders : Side[o] = "BUY"
                        /\ ResvAfter(o).status \in {"RESERVED", "OPEN", "PARTIAL", "UNKNOWN"}})

ReservedAfter ==
    SumFunctionOnSet([o \in Orders |-> ResvAfter(o).rem],
        {o \in Orders : Side[o] = "BUY" /\ ResvAfter(o).status \in ActiveStatuses})

ApplyReport ==
    LET verdicts == {Verdict(o) : o \in Orders}
    IN  /\ pass = "fetched"
        /\ pass' = "applied"
        /\ journal' = [o \in Orders |-> JournalAfter(o)]
        /\ resv' = [o \in Orders |-> ResvAfter(o)]
        /\ cached' = ReservedAfter
        /\ verdict' = IF verdicts \cap Blockers = {} THEN "safe"
                      ELSE IF verdicts \cap Sticky = {} THEN "pending" ELSE "sticky"
        /\ unsettled' = NoneUnsettled /\ facts' = NoFacts /\ book' = NoBooks
        /\ UNCHANGED <<shares, inbox, market, process, flags, control, known, todo>>

\* The first pass belongs to the startup sequence; rebuild_and_validate is next.
AfterPass == phase' = IF phase = "boot" THEN "rebuild" ELSE phase

FinishPass ==
    /\ pass = "applied"
    /\ openOk' = (verdict = "safe")
    /\ halted' = (halted \/ verdict = "sticky")
    /\ EndPass /\ AfterPass
    /\ UNCHANGED <<db, market, process, riskOk, crashes, haltDb>>

\* Any exception of the pass: a read that fails, an apply that rolls back, or a
\* recovered fill that is FAILED.
FailPass ==
    /\ \/ "pass" \in Faults /\ pass \notin {"idle", "applied"}
       \/ pass = "recovering" /\ \E l \in todo : event[l] = "FAILED"
    /\ openOk' = FALSE /\ halted' = TRUE
    /\ EndPass /\ AfterPass
    /\ UNCHANGED <<db, market, process, riskOk, crashes, haltDb>>

\* The user stream's session fails and cancels its periodic pass, wherever it
\* stands: nothing of it is undone or reported ...
CancelPass ==
    /\ "stream" \in Faults /\ phase = "run" /\ pass # "canceled"
    /\ pass' = "canceled" /\ known' = {} /\ todo' = {}
    /\ unsettled' = NoneUnsettled /\ facts' = NoFacts /\ book' = NoBooks
    /\ verdict' = "none"
    /\ UNCHANGED lvars

\* ... and then withdraws the user_stream readiness, which a pass without
\* blockers has to confirm anew.
StreamDown ==
    /\ pass = "canceled"
    /\ openOk' = FALSE
    /\ EndPass
    /\ UNCHANGED <<db, market, process, halted, riskOk, control>>

ReconcileStep ==
    \/ BeginPass \/ ReadTrades \/ (\E l \in Lots : RecoverFill(l)) \/ FinishRecovery
    \/ LoadFacts \/ FetchOrders \/ ApplyReport \/ FinishPass \/ FailPass
    \/ StreamDown

Beside(A) == A /\ UNCHANGED rvars

\* A crash takes the pass with it.
Next ==
    \/ Beside(LifecycleNext)
    \/ Crash /\ EndPass
    \/ Beside(Restart) \/ Beside(Rebuild)
    \/ ReconcileStep \/ CancelPass
Spec == Init /\ [][Next]_vars

\* What the event loop and a venue that settles its trades give: a coroutine
\* that can go on does, a restarted process boots, the periodic pass comes round.
\* Nothing obliges the engine to send an order or a cancel, the stream to
\* deliver, or the halt to be persisted.
Fairness ==
    /\ WF_vars(Beside(Restart)) /\ WF_vars(Beside(Rebuild)) /\ WF_vars(ReconcileStep)
    /\ \A o \in Orders :
           /\ WF_vars(Beside(task[o] # "idle" /\ CreateOrderStep(o)))
           /\ WF_vars(Beside(\E h \in {"oms", "stream"} : MarkCancelPending(o, h)))
    /\ \A l \in Lots :
           /\ WF_vars(Beside(SettleConfirm(l) \/ SettleFail(l)))
           /\ WF_vars(Beside(ProcessFill(l) \/ FailFill(l)))

FairSpec == Spec /\ Fairness

-------------------------------------------------------------------------------
(* Properties *)

PassType ==
    /\ pass \in {"idle", "begun", "recovering", "recovered", "loaded", "fetched",
                 "applied", "canceled"}
    /\ known \subseteq Orders /\ todo \subseteq Lots
    /\ unsettled \in [Orders -> Nat]
    /\ facts \in [Orders -> [in : BOOLEAN, xid : BOOLEAN, filled : Nat, rem : Nat]]
    /\ book \in [Orders -> [status : VenueStatuses, matched : Nat]]
    /\ verdict \in {"none", "safe", "pending", "sticky"}

\* Every variable, those of the pass included, holds a value of its code
\* counterpart.
TypeOK == LTypeOK /\ PassType

\* A submission whose outcome and exchange id are unknown blocks new risk, also
\* across a crash that loses the halt and a pass or a submission that is canceled,
\* until an operator resolves it: no pass can attribute it.  "applied" and
\* "canceled" are the instants before a pass, or the end of the user stream's
\* session, sets its flags.
UnattributedBlocksNewRisk ==
    \A o \in Orders :
        /\ journal[o].status = "UNKNOWN" /\ ~journal[o].xid
        /\ pass \notin {"applied", "canceled"}
        => halted \/ ~openOk \/ phase # "run"

\* Trading never resumes over a reservation that an earlier process left without
\* its journal row, be it a crash that parted them, a release that failed or a
\* create_order that was canceled: in a process that trades, such a reservation is
\* one its own create_order has in hand or gave up.
OrphanBlocksResume ==
    \A o \in Orders :
        phase = "run" /\ OrphanReservation(o)
        => task[o] \in {"reserved", "unjournaled", "abandoned"}

\* A reservation kept after a confirmed cancel is released by a later pass, once
\* its trades settled, provided create_order has ended by then, cancel
\* confirmations do not keep coming and no fill was refused.
CancelReleased ==
    <>[](marking = {} /\ \A l \in Lots : event[l] # "FAILED")
    => \A o \in Orders :
           /\ resv[o].status = "CANCEL_PENDING_RECONCILE"
           /\ task[o] \in {"done", "abandoned"}
           ~> ~Active(o)

\* cancel_order: capital stays reserved "until authoritative order/fill/position
\* reconciliation releases it": some pass releases it.
PendingReleased ==
    <>[](marking = {})
    => \A o \in Orders :
           resv[o].status = "CANCEL_PENDING_RECONCILE" ~> ~Active(o)

\* README: open_orders_reconciled becomes true only after orders and terminal
\* checks "agree with local fills and reservations": no order is UNKNOWN and no
\* cancellation is unreconciled at that moment.
ReadyMeansReconciled ==
    [][~openOk /\ openOk'
       => \A o \in Orders : /\ journal[o].status # "UNKNOWN"
                             /\ resv[o].status # "CANCEL_PENDING_RECONCILE"]_vars

\* extract_unsettled_size_for_order: trades in flight freeze readiness but "must
\* not ... create a sticky incident".  Here the books of the report differ by
\* exactly the trades that are in flight when it is applied.
OnlyInFlightDiffers ==
    \A o \in Orders :
        IF facts[o].in
          THEN /\ facts[o].xid /\ book[o].status \in {"live", "matched"}
               /\ book[o].matched - facts[o].filled =
                      Cardinality({l \in LotsOf(o) : trade[l] = "matched"})
          ELSE book[o].status # "live"
InFlightIsNotSticky ==
    [][pass = "fetched" /\ pass' = "applied" /\ OnlyInFlightDiffers
       => verdict' # "sticky"]_vars

\* A halt, once raised, is in force after any restart.
HaltSurvivesRestart == [][halted => halted']_vars
===============================================================================
