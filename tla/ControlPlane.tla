----------------------------- MODULE ControlPlane -----------------------------
(***************************************************************************)
(* The process and its engine supervisor: startup and shutdown (main.py),  *)
(* the start, stop, emergency halt, acknowledge and wipe endpoints, the    *)
(* watchdog's kill switch, market_lifecycle.py with its table of engine    *)
(* tasks, and the halt in memory and in Postgres (trading_safety.py,       *)
(* safety_state.py).                                                       *)
(*                                                                         *)
(* Every endpoint is a coroutine; its steps are separated where it awaits. *)
(* What an engine does with its orders is in QuotingEngine; here it makes  *)
(* the journal of its market unresolved, and its task ends some time after *)
(* it is canceled.                                                         *)
(***************************************************************************)
EXTENDS Naturals, FiniteSets

CONSTANTS
    Markets,
    Tokens,     \* the outcome tokens of a market
    Calls,      \* bound: endpoint calls and kill switches at one time
    Modes,      \* TRADING_MODE of the process starts explored
    MaxBoots,   \* bound: process starts
    Faults      \* failures explored: subset of FaultKinds

FaultKinds == {"crash", "persist", "start", "engine"}
ASSUME ControlAssumption ==
    /\ Modes \subseteq {"disabled", "paper", "live"}
    /\ MaxBoots \in Nat /\ Faults \subseteq FaultKinds
    /\ Markets # {} /\ Tokens # {}

VARIABLES
    mode,      \* "off", or the mode of the running process
    closing,   \* the lifespan is past its yield
    halt,      \* mem: _halted; db: the control row; writing: persist tasks
    status,    \* market_meta.status
    engine,    \* engine_tasks: the task of each token of each market
    ghosts,    \* running tasks that engine_tasks has lost
    marks,     \* _mark_market_exited tasks: scheduled, or past their read
    call,      \* the endpoint calls
    books,     \* per market: unresolved journal rows, inventory
    quiet,     \* observer: markets stopped with no start in progress
    boots

table == <<engine, ghosts, marks>>
vars  == <<mode, closing, halt, status, engine, ghosts, marks, call, books, quiet, boots>>

AnyMarket == CHOOSE m \in Markets : TRUE
NoCall == [op |-> "none", at |-> "none", m |-> AnyMarket, todo |-> {},
           targets |-> {}, active |-> {}, ok |-> TRUE]
NoTasks == [m \in Markets |-> [t \in Tokens |-> "none"]]

Init ==
    /\ mode = "off" /\ closing = FALSE /\ boots = 0
    /\ halt = [mem |-> FALSE, db |-> FALSE, writing |-> FALSE]
    /\ status = [m \in Markets |-> "none"]
    /\ engine = NoTasks /\ ghosts = 0
    /\ marks = [m \in Markets |-> {}]
    /\ call = [c \in Calls |-> NoCall]
    /\ books = [m \in Markets |-> [resting |-> FALSE, held |-> FALSE]]
    /\ quiet = {}

\* get_active_router_markets.
Active(m) == \E t \in Tokens : engine[m][t] # "none"
Flat == \A m \in Markets : ~books[m].resting /\ ~books[m].held
Up == mode # "off" /\ ~closing

\* trading_safety.halt: memory at once, a persistence task for later.
Raised == [halt EXCEPT !.mem = TRUE, !.writing = TRUE]
HaltUnless(ok) == halt' = IF ok THEN halt ELSE Raised

At(c, op, place) == call[c].op = op /\ call[c].at = place
Return(c) == call' = [call EXCEPT ![c] = NoCall]
Enter(c, op, place, m) ==
    call' = [call EXCEPT ![c] = [NoCall EXCEPT !.op = op, !.at = place, !.m = m]]
MoveTo(c, place) == call' = [call EXCEPT ![c].at = place]

(***************************************************************************)
(* start_market_making_impl.                                               *)
(***************************************************************************)
StartRequest(c, m) ==
    /\ Up /\ call[c] = NoCall
    /\ mode # "disabled" /\ (mode = "live" => ~halt.mem)
    /\ Enter(c, "start", "lock", m)
    /\ quiet' = quiet \ {m}
    /\ UNCHANGED <<mode, closing, halt, status, table, books, boots>>

\* Mutant: the start lock is not taken.
LockedNever(m) == FALSE
\* market_start_locks[m] is held.
Locked(m) == \E c \in Calls : /\ call[c].op = "start" /\ call[c].m = m
                              /\ call[c].at \in {"preflight", "seed"}

\* Mutant: running engines are not looked for under the lock.
StartLockedBlind(c) ==
    /\ At(c, "start", "lock") /\ ~Locked(call[c].m)
    /\ MoveTo(c, "preflight")
    /\ UNCHANGED <<mode, closing, halt, status, table, books, quiet, boots>>
StartLocked(c) ==
    /\ At(c, "start", "lock") /\ ~Locked(call[c].m)
    /\ IF Active(call[c].m) THEN Return(c) ELSE MoveTo(c, "preflight")
    /\ UNCHANGED <<mode, closing, halt, status, table, books, quiet, boots>>

\* Metadata, balance and constraints are accepted; the row is committed.
StartCommit(c) ==
    /\ At(c, "start", "preflight")
    /\ status' = [status EXCEPT ![call[c].m] = "active"]
    /\ MoveTo(c, "seed")
    /\ UNCHANGED <<mode, closing, halt, table, books, quiet, boots>>

\* Subscriptions and first books are done: both engine tasks are created.
StartLaunch(c) ==
    /\ At(c, "start", "seed")
    /\ LET m == call[c].m
       IN  /\ ghosts' = ghosts + Cardinality({t \in Tokens : engine[m][t] # "none"})
           /\ engine' = [engine EXCEPT ![m] = [t \in Tokens |-> "running"]]
    /\ Return(c)
    /\ UNCHANGED <<mode, closing, halt, status, marks, books, quiet, boots>>

StartFails(c) ==
    /\ "start" \in Faults
    /\ call[c].op = "start" /\ call[c].at \in {"preflight", "seed"} /\ Return(c)
    /\ UNCHANGED <<mode, closing, halt, status, table, books, quiet, boots>>

(***************************************************************************)
(* Stop, emergency halt and kill switch.                                   *)
(***************************************************************************)
\* The suspend command reaches the engines that have subscribed.
Suspend(m) ==
    \E S \in SUBSET {t \in Tokens : engine[m][t] = "running"} :
       engine' = [engine EXCEPT ![m] =
                    [t \in Tokens |-> IF t \in S THEN "suspended" ELSE @[t]]]

StopRequest(c, m) ==
    /\ Up /\ call[c] = NoCall
    /\ Suspend(m) /\ Enter(c, "stop", "cancel", m)
    /\ UNCHANGED <<mode, closing, halt, status, ghosts, marks, books, quiet, boots>>

\* trigger_kill_switch.
KillSwitch(c, m) ==
    /\ Up /\ mode # "disabled" /\ call[c] = NoCall /\ Active(m)
    /\ halt' = Raised
    /\ status' = [status EXCEPT ![m] = "suspended"]
    /\ Suspend(m) /\ Enter(c, "kill", "cancel", m)
    /\ UNCHANGED <<mode, closing, ghosts, marks, books, quiet, boots>>

\* emergency_halt: the halt, then its own persist_halt.
HaltRequest(c) ==
    /\ Up /\ call[c] = NoCall
    /\ halt' = Raised /\ Enter(c, "halt", "persist", AnyMarket)
    /\ UNCHANGED <<mode, closing, status, table, books, quiet, boots>>

HaltPersist(c) ==
    /\ At(c, "halt", "persist")
    /\ \/ halt' = [halt EXCEPT !.db = TRUE]
       \/ "persist" \in Faults /\ UNCHANGED halt
    /\ LET active == {m \in Markets : Active(m)}
           known  == active \union {m \in Markets : books[m].resting}
       IN  call' = [call EXCEPT ![c].at = "next", ![c].todo = known,
                                ![c].targets = known, ![c].active = active]
    /\ UNCHANGED <<mode, closing, status, table, books, quiet, boots>>

\* Every target's orders are canceled; suspended and stopped are the markets that
\* ran when the halt was stored.
HaltNext(c, m) ==
    /\ At(c, "halt", "next") /\ m \in call[c].todo
    /\ IF m \in call[c].active THEN Suspend(m) ELSE UNCHANGED engine
    /\ call' = [call EXCEPT ![c].at = "cancel", ![c].m = m, ![c].todo = @ \ {m}]
    /\ UNCHANGED <<mode, closing, halt, status, ghosts, marks, books, quiet, boots>>

\* Every target is swept.
HaltReturns(c) ==
    /\ At(c, "halt", "next") /\ call[c].todo = {}
    /\ status' = [m \in Markets |-> IF m \in call[c].targets /\ status[m] # "none"
                                    THEN "suspended" ELSE status[m]]
    /\ Return(c)
    /\ UNCHANGED <<mode, closing, halt, table, books, quiet, boots>>

\* What cancel_market_orders may answer: a disabled process cancels nothing.
Confirms(m) == IF ~books[m].resting THEN {TRUE}
               ELSE {ok \in BOOLEAN : ok => mode # "disabled"}
AfterCancel(c) == IF call[c].op = "halt" /\ call[c].m \notin call[c].active
                  THEN "next" ELSE "tasks"
CancelMarketOrders(c) ==
    /\ call[c].at = "cancel"
    /\ \E ok \in Confirms(call[c].m) :
         /\ books' = IF ok THEN [books EXCEPT ![call[c].m].resting = FALSE] ELSE books
         /\ IF call[c].op = "kill"
            THEN HaltUnless(ok) /\ Return(c)
            ELSE /\ call' = [call EXCEPT ![c].at = AfterCancel(c), ![c].ok = ok]
                 /\ UNCHANGED halt
    /\ UNCHANGED <<mode, closing, status, table, quiet, boots>>

\* Where a call goes on after stop_market_tasks, and what that means for m:
\* unless a start is in progress, nothing will run there.
Stopped(c) == [call[c] EXCEPT !.at = IF call[c].op = "halt" THEN "next" ELSE "status"]
Starting(m) == \E c \in Calls : call[c].op = "start" /\ call[c].m = m
QuietWith(m) == IF Starting(m) THEN quiet ELSE quiet \union {m}

\* Mutant: the tasks are canceled and not waited for.
StopTasksNow(c) ==
    /\ call[c].at = "tasks"
    /\ LET m == call[c].m
       IN  /\ engine' = [engine EXCEPT ![m] =
                [t \in Tokens |-> IF @[t] = "none" THEN "none" ELSE "stopping"]]
           /\ call' = [call EXCEPT ![c] = Stopped(c)]
           /\ quiet' = QuietWith(m)
    /\ UNCHANGED <<mode, closing, halt, status, ghosts, marks, books, boots>>
\* stop_market_tasks: cancel every task of the market, then wait for them.
StopTasks(c) ==
    /\ call[c].at = "tasks"
    /\ LET m == call[c].m
       IN  IF Active(m)
           THEN /\ engine' = [engine EXCEPT ![m] =
                     [t \in Tokens |-> IF @[t] = "none" THEN "none" ELSE "stopping"]]
                /\ MoveTo(c, "wait") /\ UNCHANGED quiet
           ELSE /\ call' = [call EXCEPT ![c] = Stopped(c)]
                /\ quiet' = QuietWith(m) /\ UNCHANGED engine
    /\ UNCHANGED <<mode, closing, halt, status, ghosts, marks, books, boots>>

StopReturns(c) ==
    /\ At(c, "stop", "status")
    /\ status' = [status EXCEPT ![call[c].m] = IF @ = "none" THEN @ ELSE "suspended"]
    /\ HaltUnless(call[c].ok) /\ Return(c)
    /\ UNCHANGED <<mode, closing, table, books, quiet, boots>>

(***************************************************************************)
(* acknowledge_halt and wipe_all_data.                                     *)
(***************************************************************************)
AnyActive == \E m \in Markets : Active(m)
\* Mutant: the mode is not checked.
DisabledOrNot == mode # "off"
Disabled == mode = "disabled"

AckRequest(c) ==
    /\ Up /\ call[c] = NoCall /\ Disabled /\ ~AnyActive /\ Flat
    /\ Enter(c, "ack", "commit", AnyMarket)
    /\ UNCHANGED <<mode, closing, halt, status, table, books, quiet, boots>>

AckCommit(c) ==
    /\ At(c, "ack", "commit")
    /\ IF halt.db THEN halt' = [halt EXCEPT !.db = FALSE] /\ MoveTo(c, "clear")
                  ELSE Return(c) /\ UNCHANGED halt
    /\ UNCHANGED <<mode, closing, status, table, books, quiet, boots>>

AckClear(c) ==
    /\ At(c, "ack", "clear")
    /\ halt' = [halt EXCEPT !.mem = FALSE] /\ Return(c)
    /\ UNCHANGED <<mode, closing, status, table, books, quiet, boots>>

\* The control row is not among the tables it empties.  The lease row is:
\* ExecutionLease!Wipe.
Wipe(c) ==
    /\ Up /\ call[c] = NoCall /\ Disabled /\ ~AnyActive /\ Flat
    /\ status' = [m \in Markets |-> "none"]
    /\ UNCHANGED <<mode, closing, halt, table, call, books, quiet, boots>>

(***************************************************************************)
(* The halt: any monitor raises it, a task stores it.                      *)
(***************************************************************************)
HaltRaised ==
    /\ Up /\ ~halt.mem /\ halt' = Raised
    /\ UNCHANGED <<mode, closing, status, table, call, books, quiet, boots>>

PersistHalt ==
    /\ halt.writing
    /\ \/ halt' = [halt EXCEPT !.db = TRUE, !.writing = FALSE]
       \/ "persist" \in Faults /\ halt' = [halt EXCEPT !.writing = FALSE]
    /\ UNCHANGED <<mode, closing, status, table, call, books, quiet, boots>>

(***************************************************************************)
(* Engine tasks.                                                           *)
(***************************************************************************)
\* A task is done: canceled, after a graceful exit, or a failed bootstrap.
\* Its callback removes it from the table before anything else runs, the
\* call that waited for the last task goes on, and the market is marked.
TaskDone(m, t) ==
    LET last == \A u \in Tokens \ {t} : engine[m][u] = "none"
    IN  /\ engine' = [engine EXCEPT ![m][t] = "none"]
        /\ marks' = IF last /\ ~closing THEN [marks EXCEPT ![m] = @ \union {"scheduled"}]
                                        ELSE marks
        /\ call' = [c \in Calls |-> IF last /\ call[c].at = "wait" /\ call[c].m = m
                                    THEN Stopped(c) ELSE call[c]]
        /\ quiet' = IF last /\ (\E c \in Calls : call[c].at = "wait" /\ call[c].m = m)
                    THEN QuietWith(m) ELSE quiet

EngineEnds(m, t) ==
    /\ engine[m][t] = "stopping" \/ ("engine" \in Faults /\ engine[m][t] # "none")
    /\ TaskDone(m, t)
    /\ \E ok \in BOOLEAN : HaltUnless(ok)      \* its finally may not confirm
    /\ UNCHANGED <<mode, closing, status, ghosts, books, boots>>

\* _mark_market_exited.
MarkRead(m) ==
    /\ Up /\ "scheduled" \in marks[m]
    /\ marks' = [marks EXCEPT ![m] =
         (@ \ {"scheduled"}) \union IF status[m] = "active" THEN {"read"} ELSE {}]
    /\ UNCHANGED <<mode, closing, halt, status, engine, ghosts, call, books, quiet, boots>>
MarkExited(m) ==
    /\ Up /\ "read" \in marks[m]
    /\ marks' = [marks EXCEPT ![m] = @ \ {"read"}]
    /\ status' = [status EXCEPT ![m] = "exited"]
    /\ UNCHANGED <<mode, closing, halt, engine, ghosts, call, books, quiet, boots>>

\* An engine places, orders fill and end, positions are sold or resolved.
Trade(m) ==
    /\ mode \in {"paper", "live"}
    /\ \/ ~books[m].resting /\ \E t \in Tokens : engine[m][t] = "running"
          /\ books' = [books EXCEPT ![m].resting = TRUE]
       \/ books[m].resting
          /\ \E h \in {TRUE, books[m].held} :
               books' = [books EXCEPT ![m] = [resting |-> FALSE, held |-> h]]
       \/ books[m].held /\ books' = [books EXCEPT ![m].held = FALSE]
    /\ UNCHANGED <<mode, closing, halt, status, table, call, quiet, boots>>

(***************************************************************************)
(* The process.                                                            *)
(***************************************************************************)
Boot(md) ==
    /\ mode = "off" /\ boots < MaxBoots
    /\ mode' = md /\ boots' = boots + 1
    /\ halt' = [halt EXCEPT !.mem = halt.db]       \* restore_persistent_halt
    /\ UNCHANGED <<closing, status, table, call, books, quiet>>

\* The requests are served; stop_all_markets cancels orders, then tasks.
Shutdown ==
    /\ Up /\ \A c \in Calls : call[c] = NoCall
    /\ closing' = TRUE
    /\ engine' = [m \in Markets |-> [t \in Tokens |->
                    IF engine[m][t] = "none" THEN "none" ELSE "stopping"]]
    /\ \E done \in SUBSET {m \in Markets : Active(m) /\ TRUE \in Confirms(m)} :
         /\ \A m \in Markets : Active(m) /\ m \notin done => FALSE \in Confirms(m)
         /\ HaltUnless(\A m \in Markets : Active(m) => m \in done)
         /\ books' = [m \in Markets |-> [books[m] EXCEPT !.resting = @ /\ m \notin done]]
    /\ UNCHANGED <<mode, status, ghosts, marks, call, quiet, boots>>

\* The process is gone, with every coroutine of it.
Gone ==
    /\ mode' = "off" /\ closing' = FALSE
    /\ halt' = [mem |-> FALSE, db |-> halt.db, writing |-> FALSE]
    /\ engine' = NoTasks /\ ghosts' = 0 /\ marks' = [m \in Markets |-> {}]
    /\ call' = [c \in Calls |-> NoCall]
    /\ UNCHANGED <<status, books, quiet, boots>>

\* flush_halt_persistence has waited for the halts to be stored.
Exit  == closing /\ ~AnyActive /\ ~halt.writing /\ Gone
Crash == "crash" \in Faults /\ mode # "off" /\ Gone

CallStep(c) ==
    \/ StartLocked(c) \/ StartCommit(c) \/ StartLaunch(c) \/ StartFails(c)
    \/ HaltPersist(c) \/ (\E m \in Markets : HaltNext(c, m)) \/ HaltReturns(c)
    \/ CancelMarketOrders(c) \/ StopTasks(c) \/ StopReturns(c)
    \/ AckCommit(c) \/ AckClear(c)
Request(c) ==
    \/ \E m \in Markets : StartRequest(c, m) \/ StopRequest(c, m) \/ KillSwitch(c, m)
    \/ HaltRequest(c) \/ AckRequest(c) \/ Wipe(c)
Next ==
    \/ \E c \in Calls : CallStep(c) \/ Request(c)
    \/ \E m \in Markets : MarkRead(m) \/ MarkExited(m) \/ Trade(m)
    \/ \E m \in Markets, t \in Tokens : EngineEnds(m, t)
    \/ HaltRaised \/ PersistHalt
    \/ (\E md \in Modes : Boot(md)) \/ Shutdown \/ Exit \/ Crash
Spec == Init /\ [][Next]_vars

-----------------------------------------------------------------------------
\* Type correctness; a start lock has one holder, as market_start_locks makes it.
TypeOK ==
    /\ mode \in Modes \union {"off"} /\ closing \in BOOLEAN
    /\ halt \in [mem : BOOLEAN, db : BOOLEAN, writing : BOOLEAN]
    /\ status \in [Markets -> {"none", "active", "suspended", "exited"}]
    /\ engine \in [Markets -> [Tokens -> {"none", "running", "suspended", "stopping"}]]
    /\ ghosts \in Nat /\ quiet \subseteq Markets
    /\ \A c, d \in Calls :
         /\ call[c].op = "start" /\ call[c].at \in {"preflight", "seed"}
         /\ call[d].op = "start" /\ call[d].at \in {"preflight", "seed"}
         /\ call[c].m = call[d].m
         => c = d

\* start_market_making_impl never starts a second engine for a token: no task
\* runs that engine_tasks has lost.
OneEngine == ghosts = 0

\* After stop_market_tasks has returned, by /stop or by the emergency halt,
\* and with no start in progress at that moment, no engine of the market runs
\* until somebody asks for a start.
QuietAfterStop == \A m \in quiet : ~Active(m)

\* A halt is on its way to the control row.
Storing == halt.writing \/ \E c \in Calls : At(c, "halt", "persist")
\* What the halt promises, in the terms of StickyHalt: the process is blocked
\* while the halt is in memory or about to be stored.
Halt == INSTANCE StickyHalt WITH
    up <- mode # "off", trading <- mode \in {"paper", "live"}, flat <- Flat,
    blocked <- halt.mem \/ Storing, durable <- halt.db
\* trading_safety.py, safety_state.py and the acknowledge endpoint implement it.
ImplementsStickyHalt == Halt!Spec
=============================================================================
