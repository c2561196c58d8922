--------------------------- MODULE InventoryLedger ---------------------------
(***************************************************************************)
(* The inventory ledger of one running market and the three coroutines     *)
(* that write it: the fill processor (the user stream and the order        *)
(* reconciliation both drive it), the position pass that compares it with  *)
(* the wallet, and the readers of its in-memory copy - the engine's first  *)
(* load and the exposure check.  The accounting audit replays it at every  *)
(* start.                                                                  *)
(*                                                                         *)
(* Data abstraction.  An order has one fill, which fills it; partial fills *)
(* are in OrderLifecycle.  Money is counted in ticks, Dollar of them to a  *)
(* dollar.  A fill's fee is in Terms; FeeKnown says if it can be resolved. *)
(***************************************************************************)
EXTENDS Integers, FiniteSets, FiniteSetsExt, Functions

CONSTANTS Outcomes,       \* the tokens of the market: yes, no
          Fills,          \* ids of orders, each with its one fill event
          Terms,          \* Terms[f]: side, outcome, size, price, limit, fee
          FeeKnown,       \* the fills whose fee resolve_fee_amount resolves
          Handlers,       \* coroutines in record_and_process at a time
          Readers,        \* who reads the copy in memory: "engine", "monitor"
          Dollar,         \* the payoff of a share
          BinaryCap,      \* MAX_EXPOSURE_PER_MARKET
          CategoricalCap, \* MAX_EXPOSURE_CATEGORICAL
          Faults,         \* what may fail, see FaultKinds
          MaxFaults,      \* bound: faults in a behaviour
          MaxTransfers    \* bound: transfers of shares from outside

\* The process crashes; a fill transaction fails; its commit succeeds but
\* raises; recording a failed fill, loading the entry in memory or the Redis
\* publication raises; the task around a handler or a pass is canceled; the
\* position pass cannot read, meets a position of an unknown market, or fails to
\* commit.
FaultKinds == {"crash", "fill", "ack", "mark", "load", "publish", "cancel",
               "fetch", "external", "overwrite"}

ASSUME LedgerAssumption ==
    /\ Terms \in [Fills -> [side : {"BUY", "SELL"}, outcome : Outcomes,
                            size : Nat \ {0}, price : Nat, limit : Nat, fee : Nat]]
    /\ FeeKnown \subseteq Fills
    /\ Readers \subseteq {"engine", "monitor"}
    /\ Faults \subseteq FaultKinds
    /\ {Dollar, BinaryCap, CategoricalCap, MaxFaults, MaxTransfers} \subseteq Nat

VARIABLES
    \* Postgres
    ledger,      \* inventory_ledger row: expo, capital, pnl, version, accounting
    event,       \* fill_events: status and accounting_state_version
    order,       \* "none", "open", "matched", "settled"
    categorical, \* the outcome count in Redis is above two
    \* the wallet
    chain,       \* token balances
    transfers,   \* bound
    \* the process
    phase,       \* "down", "held" (started, services off), "run"
    mirror,      \* inventory_state entry, or Absent
    recent,      \* last_local_fill_timestamp is within the buffer
    handler,     \* Handlers -> where a record_and_process stands
    pass,        \* _reconcile_positions_once
    load,        \* ensure_loaded of the engine's first tick
    check,       \* check_exposure
    halted,      \* trading_safety._halted
    booksReady,  \* readiness flag accounting_integrity
    positionsReady, \* readiness flag positions_reconciled
    faults,      \* faults so far, at most MaxFaults
    \* history, no state of the code: the fills whose handler an exception or a
    \* cancellation cut off in this process, each with the place where it stood
    cut

books    == <<ledger, event, order>>
world    == <<categorical, chain, transfers>>
memory   == <<mirror, recent>>
tasks    == <<handler, pass, load, check>>
flags    == <<halted, booksReady, positionsReady>>
trace    == <<faults, cut>>
vars     == <<books, world, phase, memory, tasks, flags, trace>>

Absent  == [version |-> -1]
Idle    == [pc |-> "idle"]
Zero    == [o \in Outcomes |-> 0]
Empty   == [expo |-> Zero, capital |-> Zero, pnl |-> 0, version |-> 0,
            accounting |-> "v2"]

Larger(a, b) == IF a >= b THEN a ELSE b
TotalOf(g)   == MapThenSumSet(LAMBDA o : g[o], Outcomes)
Cap          == IF categorical THEN CategoricalCap ELSE BinaryCap

\* SUM(reserved_notional) over the active reservations: a BUY holds its limit
\* price until its fill is booked.
Reserving == {f \in Fills : order[f] # "none" /\ event[f].status # "PROCESSED"}
Reserved  == MapThenSumSet(LAMBDA f : Terms[f].size * Terms[f].limit,
                           {f \in Reserving : Terms[f].side = "BUY"})
SharesReserved(o) ==
    MapThenSumSet(LAMBDA f : Terms[f].size,
        {f \in Reserving : Terms[f].side = "SELL" /\ Terms[f].outcome = o})
Used == TotalOf(ledger.capital) + Reserved

\* What the in-memory entry copies of a ledger row.
Copied(row) == [expo |-> row.expo, capital |-> row.capital,
                version |-> row.version]

Fault(k) == k \in Faults /\ faults < MaxFaults /\ faults' = faults + 1

ReduceOnlyAllowed == phase = "run" /\ booksReady /\ positionsReady
NewRiskAllowed    == ReduceOnlyAllowed /\ ~halted

Init ==
    /\ ledger = Empty
    /\ event = [f \in Fills |-> [status |-> "none", version |-> 0]]
    /\ order = [f \in Fills |-> "none"]
    /\ categorical = FALSE
    /\ chain = Zero /\ transfers = 0
    /\ phase = "run" /\ mirror = Absent /\ recent = FALSE
    /\ handler = [h \in Handlers |-> Idle]
    /\ pass = Idle /\ load = Idle /\ check = Idle
    /\ halted = FALSE /\ booksReady = TRUE /\ positionsReady = FALSE
    /\ faults = 0 /\ cut = {}

-------------------------------------------------------------------------------
(* Orders, matching, and the wallet *)

\* create_order, reduced to its admission: the flags, and the reservation
\* transaction's caps on dollars and shares.
Place(f) ==
    LET t == Terms[f] IN
    /\ order[f] = "none"
    /\ \/ t.side = "BUY" /\ NewRiskAllowed /\ Used + t.size * t.limit <= Cap
       \/ /\ t.side = "SELL" /\ ReduceOnlyAllowed
          /\ SharesReserved(t.outcome) + t.size <= ledger.expo[t.outcome]
    /\ order' = [order EXCEPT ![f] = "open"]
    /\ UNCHANGED <<ledger, event, world, phase, memory, tasks, flags, trace>>

Match(f) ==
    /\ order[f] = "open"
    /\ order' = [order EXCEPT ![f] = "matched"]
    /\ UNCHANGED <<ledger, event, world, phase, memory, tasks, flags, trace>>

\* Settlement moves the shares some time after the match, once they are there.
Settle(f) ==
    LET t == Terms[f] IN
    /\ order[f] = "matched"
    /\ t.side = "SELL" => chain[t.outcome] >= t.size
    /\ order' = [order EXCEPT ![f] = "settled"]
    /\ chain' = [chain EXCEPT ![t.outcome] =
                    @ + (IF t.side = "BUY" THEN t.size ELSE - t.size)]
    /\ UNCHANGED <<ledger, event, categorical, transfers, phase, memory, tasks,
                   flags, trace>>

\* Shares moved by someone else with the same wallet.
Transfer(o) ==
    /\ transfers < MaxTransfers
    /\ transfers' = transfers + 1
    /\ \E n \in {-1, 1} : chain[o] + n >= 0 /\ chain' = [chain EXCEPT ![o] = @ + n]
    /\ UNCHANGED <<books, categorical, phase, memory, tasks, flags, trace>>

\* resolve_outcome_count learns that the market has more than two outcomes, and
\* the cap drops.
ResolveOutcomes ==
    /\ phase = "run" /\ ~categorical
    /\ categorical' = TRUE
    /\ UNCHANGED <<books, chain, transfers, phase, memory, tasks, flags, trace>>

-------------------------------------------------------------------------------
(* The fill processor *)

At(h, pc) == phase = "run" /\ handler[h].pc = pc
Goto(h, state) == handler' = [handler EXCEPT ![h] = state]

\* record_and_process: the deterministic event id makes a second delivery find
\* the row of the first.
Receive(h, f) ==
    /\ At(h, "idle") /\ order[f] \in {"matched", "settled"}
    /\ Goto(h, [pc |-> "process", fill |-> f])
    /\ event' = IF event[f].status = "none"
                THEN [event EXCEPT ![f].status = "RECEIVED"] ELSE event
    /\ UNCHANGED <<ledger, order, world, phase, memory, pass, load, check,
                   flags, trace>>

\* The event is already PROCESSED or FAILED: a duplicate.
Duplicate(h) ==
    /\ At(h, "process") /\ event[handler[h].fill].status # "RECEIVED"
    /\ Goto(h, Idle)
    /\ UNCHANGED <<books, world, phase, memory, pass, load, check, flags,
                   trace>>

\* apply_fill_accounting: average cost; the fee is a cost, and zero while it is
\* unknown.
Fee(f) == IF f \in FeeKnown THEN Terms[f].fee ELSE 0
\* Mutant: a SELL takes its proceeds out of the cost basis.
BookedProceeds(row, f) ==
    LET t == Terms[f]  o == t.outcome IN
    IF t.side = "BUY"
    THEN [row EXCEPT !.expo[o] = @ + t.size,
                     !.capital[o] = @ + t.size * t.price + Fee(f)]
    ELSE [row EXCEPT !.expo[o] = @ - t.size,
                     !.capital[o] = @ - t.size * t.price]
Booked(row, f) ==
    LET t       == Terms[f]
        o       == t.outcome
        removed == (row.capital[o] * t.size) \div row.expo[o]
    IN  IF t.side = "BUY"
        THEN [row EXCEPT !.expo[o] = @ + t.size,
                         !.capital[o] = @ + t.size * t.price + Fee(f)]
        ELSE [row EXCEPT !.expo[o] = @ - t.size,
                         !.capital[o] = @ - removed,
                         !.pnl = @ + t.size * t.price - Fee(f) - removed]

\* The ledger refuses a fill when its history is no longer verified, and a SELL
\* of shares it does not hold.
Refuses(f) ==
    LET t == Terms[f] IN
    \/ ledger.accounting # "v2"
    \/ t.side = "SELL" /\ t.size > ledger.expo[t.outcome]

\* The fill's row after its transaction: one version more, and no longer v2 if
\* the fee is unknown.
FillRow(f) ==
    [Booked(ledger, f) EXCEPT !.version = @ + 1,
                              !.accounting = IF f \in FeeKnown THEN @
                                             ELSE "v2_fee_incomplete"]

\* The transaction waits for the row lock while a position pass holds it.
InTransaction(h) ==
    At(h, "process") /\ event[handler[h].fill].status = "RECEIVED"
                     /\ pass.pc # "locked"

Booking(f) ==
    /\ ~Refuses(f)
    /\ ledger' = FillRow(f)
    /\ event' = [event EXCEPT ![f] = [status |-> "PROCESSED",
                                      version |-> ledger.version + 1]]

FillCommit(h) ==
    LET f == handler[h].fill IN
    /\ InTransaction(h) /\ Booking(f)
    /\ Goto(h, [pc |-> "apply", fill |-> f, row |-> Copied(FillRow(f))])
    /\ UNCHANGED <<order, world, phase, memory, pass, load, check, flags,
                   trace>>

\* The commit took effect, and the call raised.
FillCommitRaises(h) ==
    LET f == handler[h].fill IN
    /\ InTransaction(h) /\ Booking(f) /\ Fault("ack")
    /\ Goto(h, [pc |-> "failing", fill |-> f])
    /\ UNCHANGED <<order, world, phase, memory, pass, load, check, flags, cut>>

FillRefused(h) ==
    LET f == handler[h].fill IN
    /\ InTransaction(h)
    /\ \/ Refuses(f) /\ UNCHANGED faults
       \/ Fault("fill")
    /\ Goto(h, [pc |-> "failing", fill |-> f])
    /\ UNCHANGED <<books, world, phase, memory, pass, load, check, flags, cut>>

\* _mark_failed: a transaction of its own, then the halt.
Failed(f) == IF event[f].status = "PROCESSED" THEN event
             ELSE [event EXCEPT ![f].status = "FAILED"]

MarkFailed(h) ==
    LET f == handler[h].fill IN
    /\ At(h, "failing")
    /\ event' = Failed(f)
    /\ Goto(h, [pc |-> "halting", fill |-> f])
    /\ UNCHANGED <<ledger, order, world, phase, memory, pass, load, check, flags,
                   trace>>

HaltFailed(h) ==
    /\ At(h, "halting")
    /\ halted' = TRUE
    /\ Goto(h, Idle)
    /\ UNCHANGED <<books, world, phase, memory, pass, load, check, booksReady,
                   positionsReady, trace>>

\* The handler ends here, and what it had still to do is not done.
CutOff(h) ==
    /\ Goto(h, Idle)
    /\ cut' = cut \cup {[pc |-> handler[h].pc, fill |-> handler[h].fill]}

\* An exception leaves record_and_process: the periodic reconciliation halts on
\* it, the user stream logs it and reconnects.
Raises(h) == CutOff(h) /\ halted' \in {halted, TRUE}

\* The transaction of _mark_failed raises, before its commit or after.
MarkFailedRaises(h) ==
    /\ At(h, "failing") /\ Fault("mark") /\ Raises(h)
    /\ event' \in {event, Failed(handler[h].fill)}
    /\ UNCHANGED <<ledger, order, world, phase, memory, pass, load, check,
                   booksReady, positionsReady>>

\* CancelledError is no Exception: nothing catches it.  It arrives where the
\* handler awaits, after a commit at the close of the session.
HandlerCanceled(h) ==
    /\ phase = "run" /\ handler[h] # Idle /\ Fault("cancel")
    /\ CutOff(h)
    /\ UNCHANGED <<books, world, phase, memory, pass, load, check, flags>>

-------------------------------------------------------------------------------
(* inventory_state: the copy in memory *)

\* apply_reconciliation_snapshot: loads a missing entry first, and ignores a
\* version older than the one it holds.
\* Mutant: the last one to apply wins.
AppliedBlind(row) == row
Applied(row) ==
    LET held == IF mirror = Absent THEN Copied(ledger) ELSE mirror
    IN  IF row.version < held.version THEN held ELSE row

FillApply(h) ==
    /\ At(h, "apply")
    /\ mirror' = Applied(handler[h].row)
    /\ recent' = IF mirror = Absent \/ handler[h].row.version >= mirror.version
                 THEN TRUE ELSE recent
    /\ Goto(h, [pc |-> "publish", fill |-> handler[h].fill])
    /\ UNCHANGED <<books, world, phase, pass, load, check, flags, trace>>

\* The missing entry cannot be read.
FillApplyRaises(h) ==
    /\ At(h, "apply") /\ mirror = Absent /\ Fault("load") /\ Raises(h)
    /\ UNCHANGED <<books, world, phase, memory, pass, load, check, booksReady,
                   positionsReady>>

\* The order is filled, and Redis is told.  Then, if the fee is unknown: no new
\* risk on these books.
Publish(h) ==
    LET known == handler[h].fill \in FeeKnown IN
    /\ At(h, "publish")
    /\ booksReady' = (booksReady /\ known) /\ halted' = (halted \/ ~known)
    /\ Goto(h, Idle)
    /\ UNCHANGED <<books, world, phase, memory, pass, load, check, positionsReady,
                   trace>>

PublishRaises(h) ==
    /\ At(h, "publish") /\ Fault("publish") /\ Raises(h)
    /\ UNCHANGED <<books, world, phase, memory, pass, load, check, booksReady,
                   positionsReady>>

\* ensure_loaded, from the engine's first tick: the row is read without the
\* lock and stored only if the entry is still missing.
LoadRead ==
    /\ "engine" \in Readers
    /\ phase = "run" /\ mirror = Absent /\ load = Idle
    /\ load' = [pc |-> "read", row |-> Copied(ledger)]
    /\ UNCHANGED <<books, world, phase, memory, handler, pass, check, flags,
                   trace>>

LoadStore ==
    /\ phase = "run" /\ load.pc = "read"
    /\ mirror' = IF mirror = Absent THEN load.row ELSE mirror
    /\ load' = Idle
    /\ UNCHANGED <<books, world, phase, recent, handler, pass, check, flags,
                   trace>>

BufferExpires ==
    /\ phase = "run" /\ recent
    /\ recent' = FALSE
    /\ UNCHANGED <<books, world, phase, mirror, tasks, flags, trace>>

-------------------------------------------------------------------------------
(* The position pass *)

PassStart ==
    /\ phase = "run" /\ pass = Idle
    /\ positionsReady' = FALSE
    /\ pass' = [pc |-> "fetch", seen |-> <<>>, safe |-> TRUE]
    /\ UNCHANGED <<books, world, phase, memory, handler, load, check, halted,
                   booksReady, trace>>

\* The public positions first, of which the model keeps those of markets without
\* a ledger; then one authenticated balance request per token, at times of their
\* own.
PassFetch(o) ==
    /\ phase = "run" /\ pass.pc = "fetch" /\ o \notin DOMAIN pass.seen
    /\ pass' = [pass EXCEPT !.seen = [p \in DOMAIN @ \cup {o} |->
                                         IF p = o THEN chain[o] ELSE @[p]]]
    /\ UNCHANGED <<books, world, phase, memory, handler, load, check, flags,
                   trace>>

\* Either read fails.
PassFetchFails ==
    /\ phase = "run" /\ pass.pc = "fetch" /\ Fault("fetch")
    /\ pass' = Idle
    /\ UNCHANGED <<books, world, phase, memory, handler, load, check, flags, cut>>

\* reconcile_capital_used, without a reported cost: shares that appear cost the
\* full payoff, shares that are gone take their average cost along.
ReconciledCapital(actual, size, capital) ==
    IF actual = 0 THEN 0
    ELSE IF size = 0 \/ capital = 0 THEN actual * Dollar
    ELSE IF actual <= size THEN (capital * actual) \div size
    ELSE capital + (actual - size) * Dollar

\* Mutant: only tokens the ledger knows of are compared.
DisagreesHeld(seen) == \E o \in Outcomes : ledger.expo[o] > 0 /\ seen[o] # ledger.expo[o]
Disagrees(seen) ==
    \E o \in Outcomes : seen[o] # ledger.expo[o]
                        \/ (seen[o] > 0 /\ ledger.capital[o] = 0)

\* Mutant: the overwrite keeps the accounting version.
OverwrittenAsV2(seen) ==
    [ledger EXCEPT !.expo = seen,
                   !.capital = [o \in Outcomes |->
                       ReconciledCapital(seen[o], ledger.expo[o], @[o])],
                   !.version = @ + 1]
Overwritten(seen) ==
    [ledger EXCEPT !.expo = seen,
                   !.capital = [o \in Outcomes |->
                       ReconciledCapital(seen[o], ledger.expo[o], @[o])],
                   !.version = @ + 1,
                   !.accounting = "unverified_external"]

Locking == phase = "run" /\ pass.pc = "fetch" /\ DOMAIN pass.seen = Outcomes
Lock(row, safe) == pass' = [pc |-> "locked", row |-> row, safe |-> safe]

\* The public positions had one of a market that has no ledger.
PassFindsUnknown ==
    /\ Locking /\ Fault("external")
    /\ pass' = [pass EXCEPT !.safe = FALSE]
    /\ halted' = TRUE
    /\ UNCHANGED <<books, world, phase, memory, handler, load, check, booksReady,
                   positionsReady, cut>>

PassAgrees ==
    /\ Locking /\ ~Disagrees(pass.seen)
    /\ Lock(ledger, pass.safe)
    /\ UNCHANGED <<books, world, phase, memory, handler, load, check, flags,
                   trace>>

\* A fill was booked within the buffer: the wallet may still be behind.
PassDefers ==
    /\ Locking /\ Disagrees(pass.seen) /\ recent
    /\ Lock(ledger, FALSE)
    /\ UNCHANGED <<books, world, phase, memory, handler, load, check, flags,
                   trace>>

\* The ledger gives way to the wallet.  The entry in memory is overwritten
\* before the commit.
PassOverwrites ==
    /\ Locking /\ Disagrees(pass.seen) /\ ~recent
    /\ Lock(Overwritten(pass.seen), FALSE)
    /\ halted' = TRUE
    /\ mirror' = Applied(Copied(Overwritten(pass.seen)))
    /\ UNCHANGED <<books, world, phase, recent, handler, load, check,
                   booksReady, positionsReady, trace>>

PassCommit ==
    /\ phase = "run" /\ pass.pc = "locked"
    /\ ledger' = pass.row
    /\ pass' = [pc |-> "report", safe |-> pass.safe]
    /\ UNCHANGED <<event, order, world, phase, memory, handler, load, check,
                   flags, trace>>

PassCommitFails ==
    /\ phase = "run" /\ pass.pc = "locked"
    /\ Fault("overwrite")
    /\ pass' = Idle
    /\ UNCHANGED <<books, world, phase, memory, handler, load, check, flags, cut>>

\* The task around the pass is canceled; its transaction is rolled back, or has
\* just been committed.
PassCanceled ==
    /\ phase = "run" /\ pass # Idle /\ Fault("cancel")
    /\ pass' = Idle
    /\ UNCHANGED <<books, world, phase, memory, handler, load, check, flags, cut>>

PassReport ==
    /\ phase = "run" /\ pass.pc = "report"
    /\ positionsReady' = pass.safe
    /\ pass' = Idle
    /\ UNCHANGED <<books, world, phase, memory, handler, load, check, halted,
                   booksReady, trace>>

-------------------------------------------------------------------------------
(* The exposure check: reservations first, the entry in memory later *)

CheckTotals ==
    /\ "monitor" \in Readers
    /\ phase = "run" /\ check = Idle
    /\ check' = [pc |-> "totals", reserved |-> Reserved]
    /\ UNCHANGED <<books, world, phase, memory, handler, pass, load, flags,
                   trace>>

\* Mutant: only the cost of positions counts.
CheckVerdictCapital ==
    /\ phase = "run" /\ check.pc = "totals"
    /\ mirror' = IF mirror = Absent THEN Copied(ledger) ELSE mirror
    /\ halted' = (halted \/ TotalOf(mirror'.capital) > Cap)
    /\ check' = Idle
    /\ UNCHANGED <<books, world, phase, recent, handler, pass, load,
                   booksReady, positionsReady, trace>>

CheckVerdict ==
    /\ phase = "run" /\ check.pc = "totals"
    /\ mirror' = IF mirror = Absent THEN Copied(ledger) ELSE mirror
    /\ halted' = (halted \/ TotalOf(mirror'.capital) + check.reserved > Cap)
    /\ check' = Idle
    /\ UNCHANGED <<books, world, phase, recent, handler, pass, load,
                   booksReady, positionsReady, trace>>

-------------------------------------------------------------------------------
(* The accounting and the life of the process *)

Processed == {f \in Fills : event[f].status = "PROCESSED"}

\* The deterministic replay of the processed fills, by their version.
BookedAt(n) == CHOOSE f \in Processed : event[f].version = n
Replay[n \in Nat] ==
    IF n = 0 THEN Empty ELSE [Booked(Replay[n - 1], BookedAt(n)) EXCEPT !.version = n]

Contiguous(row) ==
    /\ {event[f].version : f \in Processed} = 1 .. row.version
    /\ Cardinality(Processed) = row.version

\* audit_accounting_facts finds no blocker.  An unknown fee needs no clause of
\* its own: its ledger is no longer v2.
AuditPasses(row) ==
    /\ row.accounting = "v2"
    /\ \A f \in Fills : event[f].status \in {"none", "PROCESSED"}
    /\ Contiguous(row)
    /\ row = Replay[row.version]

\* Everything in memory is gone, and an open transaction with it.
Crash ==
    /\ phase # "down" /\ Fault("crash")
    /\ phase' = "down"
    /\ mirror' = Absent /\ recent' = FALSE
    /\ handler' = [h \in Handlers |-> Idle]
    /\ pass' = Idle /\ load' = Idle /\ check' = Idle
    /\ booksReady' = FALSE /\ positionsReady' = FALSE
    /\ cut' = {}
    /\ UNCHANGED <<books, world, halted>>

\* lifespan: the durable halt (which may have been lost with its writer), the
\* ledgers, the check for ledgers that are not v2, the audit; with a halt the
\* services stay off.
\* Mutant: the start trusts the durable halt alone.
BootTrusting ==
    /\ phase = "down"
    /\ \E restored \in {halted, FALSE} : halted' = restored
    /\ booksReady' = TRUE
    /\ mirror' = Copied(ledger)
    /\ phase' = IF halted' THEN "held" ELSE "run"
    /\ UNCHANGED <<books, world, recent, tasks, positionsReady, trace>>

Boot ==
    /\ phase = "down"
    /\ \E restored \in {halted, FALSE} :
          halted' = (restored \/ ledger.accounting # "v2" \/ ~AuditPasses(ledger))
    /\ booksReady' = AuditPasses(ledger)
    /\ mirror' = Copied(ledger)
    /\ phase' = IF halted' THEN "held" ELSE "run"
    /\ UNCHANGED <<books, world, recent, tasks, positionsReady, trace>>

-------------------------------------------------------------------------------
Handle(h) ==
    \/ Duplicate(h) \/ FillCommit(h) \/ FillCommitRaises(h) \/ FillRefused(h)
    \/ MarkFailed(h) \/ MarkFailedRaises(h) \/ HaltFailed(h)
    \/ FillApply(h) \/ FillApplyRaises(h) \/ Publish(h) \/ PublishRaises(h)

Pass ==
    \/ PassStart \/ (\E o \in Outcomes : PassFetch(o)) \/ PassFetchFails
    \/ PassFindsUnknown \/ PassAgrees \/ PassDefers \/ PassOverwrites
    \/ PassCommit \/ PassCommitFails \/ PassCanceled \/ PassReport

Check == CheckTotals \/ CheckVerdict

Next ==
    \/ \E f \in Fills : Place(f) \/ Match(f) \/ Settle(f)
    \/ \E o \in Outcomes : Transfer(o)
    \/ ResolveOutcomes
    \/ \E h \in Handlers :
          Handle(h) \/ HandlerCanceled(h) \/ \E f \in Fills : Receive(h, f)
    \/ LoadRead \/ LoadStore \/ BufferExpires
    \/ Pass \/ Check
    \/ Crash \/ Boot

Spec == Init /\ [][Next]_vars

\* The user stream repeats the position pass, the monitor polls every second,
\* time passes, and a coroutine that can go on does.
Fairness ==
    /\ WF_vars(Pass) /\ WF_vars(Check) /\ WF_vars(BufferExpires)
    /\ \A h \in Handlers : WF_vars(Handle(h))

FairSpec == Spec /\ Fairness

-------------------------------------------------------------------------------
(* Properties *)

Rows == [expo : [Outcomes -> Nat], capital : [Outcomes -> Nat], pnl : Int,
         version : Nat, accounting : {"v2", "v2_fee_incomplete",
                                      "unverified_external"}]

\* No interleaving of fills, transfers and passes takes a position or a cost
\* below zero, or leaves a value the schema does not have.
TypeOK ==
    /\ ledger \in Rows
    /\ event \in [Fills -> [status : {"none", "RECEIVED", "PROCESSED", "FAILED"},
                            version : Nat]]
    /\ order \in [Fills -> {"none", "open", "matched", "settled"}]
    /\ chain \in [Outcomes -> Nat] /\ transfers \in 0 .. MaxTransfers
    /\ phase \in {"down", "held", "run"}
    /\ mirror = Absent \/ mirror \in [expo : [Outcomes -> Nat],
                                      capital : [Outcomes -> Nat], version : Nat]
    /\ {categorical, recent, halted, booksReady, positionsReady} \subseteq BOOLEAN
    /\ \A h \in Handlers : handler[h].pc \in {"idle", "process", "apply", "failing",
                                              "halting", "publish"}
    /\ pass.pc \in {"idle", "fetch", "locked", "report"}
    /\ load.pc \in {"idle", "read"} /\ check.pc \in {"idle", "totals"}
    /\ faults \in 0 .. MaxFaults
    /\ cut \subseteq [pc : {"process", "apply", "publish", "failing", "halting"},
                      fill : Fills]

\* A ledger that calls itself v2 is exactly the replay of the processed fills,
\* one version each: whatever overwrote it, raced it or was delivered twice.
BooksReplay ==
    ledger.accounting = "v2" => Contiguous(ledger) /\ ledger = Replay[ledger.version]

\* Where a handler is after its transaction: it has still to apply the row, to
\* tell of the fill, or to halt.
AfterBooking  == {"apply", "publish", "failing", "halting"}
Attempts      == cut \cup {handler[h] : h \in Handlers}
Unfinished(f) == \E c \in Attempts : c.pc \in AfterBooking /\ c.fill = f

\* While new risk is allowed, the books are complete, but for a fill whose handler
\* is still at it or was cut off in this very process: an overwrite from outside
\* is never behind it, and a restart blocks whatever the process before it lost.
IncompleteBooksBlock ==
    NewRiskAllowed =>
        /\ ledger.accounting # "v2" => \E f \in Fills \ FeeKnown : Unfinished(f)
        /\ \A f \in Fills : event[f].status = "FAILED" => Unfinished(f)

\* A handler, or one cut off, that booked the current version of the ledger and
\* has not applied it.
Unapplied ==
    \E c \in Attempts :
        /\ c.pc \in {"apply", "failing", "halting"}
        /\ event[c.fill] = [status |-> "PROCESSED", version |-> ledger.version]

\* While new risk is allowed, the entry the engine quotes from and the monitor
\* sums is the committed row, unless the last fill of the ledger is not yet
\* applied or its handler was cut off before it; the next fill repairs that.
MirrorCurrent ==
    NewRiskAllowed /\ mirror # Absent => mirror = Copied(ledger) \/ Unapplied

\* A market that stays over its cap is halted for good: the monitor's two reads
\* cannot go on missing it, unless the fill that took it there was cut off before
\* the entry in memory had it.
OverLimitHalts ==
    <>[](phase = "run" /\ Used > Cap /\ ~Unapplied) => <>[]halted

\* A wallet that keeps disagreeing with the ledger is noticed, although a recent
\* fill defers the comparison and a pass may fail.
DriftHalts == <>[](phase = "run" /\ chain # ledger.expo) => <>[]halted

\* The row lock is there "to prevent dirty writes from concurrent handle_fill"
\* (watchdog.py:384): a pass does not overwrite a ledger that agrees with the
\* wallet.  It does not hold: the balances are read before the lock.
NoDirtyOverwrite == [][PassOverwrites => chain # ledger.expo]_vars

\* "Missing fee inputs remain UNKNOWN, invalidate net PnL and halt new live risk"
\* (README.md:21).  It does not hold for good: an exception of the publication
\* before the flag and the halt, or a cancellation, skips both.
MissingFeeHalts ==
    NewRiskAllowed =>
        \/ ledger.accounting # "v2_fee_incomplete"
        \/ \E h \in Handlers : handler[h] # Idle

\* runtime_reduce_only_blockers: "Block SELL unless live is armed and all facts
\* are ready" (trading_safety.py:290).  It does not hold: an overwrite halts but
\* leaves both flags to the next pass, which agrees with the overwritten row.
ReduceOnlyKnowsBooks ==
    ReduceOnlyAllowed =>
        \/ \E h \in Handlers : handler[h].pc # "idle"
        \/ ledger.accounting = "v2"
===============================================================================
