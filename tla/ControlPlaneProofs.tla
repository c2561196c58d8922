--------------------------- MODULE ControlPlaneProofs ---------------------------
(***************************************************************************)
(* Proofs about ControlPlane, for any markets, tokens, calls, process      *)
(* starts and faults.                                                      *)
(*                                                                         *)
(* No conjunct of the invariant is inductive alone: a start finds its      *)
(* market without tasks because the start lock has one holder, a market    *)
(* stays quiet because no start for it is in progress, an acknowledgement  *)
(* cannot overtake a trade because the mode of a process never changes.    *)
(* The refinement of StickyHalt uses all of them.                          *)
(***************************************************************************)
EXTENDS ControlPlane, FiniteSetTheorems, TLAPS

VarTypes ==
    /\ mode \in Modes \union {"off"} /\ closing \in BOOLEAN
    /\ halt \in [mem : BOOLEAN, db : BOOLEAN, writing : BOOLEAN]
    /\ status \in [Markets -> {"none", "active", "suspended", "exited"}]
    /\ engine \in [Markets -> [Tokens -> {"none", "running", "suspended", "stopping"}]]
    /\ quiet \subseteq Markets
Ops    == {"none", "start", "stop", "kill", "halt", "ack"}
Places == {"none", "lock", "preflight", "seed", "cancel", "tasks", "wait",
           "status", "next", "persist", "commit", "clear"}
CallRecords == [op : Ops, at : Places, m : Markets, todo : SUBSET Markets,
                targets : SUBSET Markets, active : SUBSET Markets, ok : BOOLEAN]
CallType == call \in [Calls -> CallRecords]
BookType == books \in [Markets -> [resting : BOOLEAN, held : BOOLEAN]]

HoldsLock(c) == call[c].op = "start" /\ call[c].at \in {"preflight", "seed"}
LockInv == \A c, d \in Calls :
               HoldsLock(c) /\ HoldsLock(d) /\ call[c].m = call[d].m => c = d
\* A start past its check under the lock finds no task of its market.
StartInv == \A c \in Calls : HoldsLock(c) => ~Active(call[c].m)
\* A quiet market has no task and nobody about to create one.
QuietInv == \A m \in quiet : ~Active(m) /\ ~Starting(m)
\* Nothing of a process outlives it.
OffInv == mode = "off" => /\ ~halt.mem /\ ~halt.writing /\ ~closing
                          /\ \A m \in Markets : ~Active(m)
                          /\ \A c \in Calls : call[c] = NoCall
\* An acknowledgement in progress runs where nothing trades, over flat books.
AckInv == \A c \in Calls : call[c].op = "ack" => mode = "disabled" /\ Flat
\* A halt to be stored has left memory only through an acknowledgement.
StoreInv == Storing /\ ~halt.mem => mode = "disabled"

TableInv == OneEngine /\ LockInv /\ StartInv /\ QuietInv
ModeInv  == OffInv /\ AckInv /\ StoreInv
IInv == VarTypes /\ CallType /\ BookType /\ TableInv /\ ModeInv

-------------------------------------------------------------------------------
\* NoCall is a call: there is a market to name.
LEMMA NoCallType == NoCall \in CallRecords
  BY ControlAssumption DEF NoCall, AnyMarket, CallRecords, Ops, Places

\* A call that one step replaces by the record r: CallType stays, the others too.
LEMMA CallChange ==
  ASSUME CallType, NEW c \in Calls, NEW r \in CallRecords,
         call' = [call EXCEPT ![c] = r]
  PROVE  CallType' /\ call'[c] = r /\ \A d \in Calls \ {c} : call'[d] = call[d]
  BY DEF CallType

\* What the ways to enter, move and leave a call do to the calls.
LEMMA ReturnMove ==
  ASSUME CallType, NEW c \in Calls, Return(c)
  PROVE  /\ CallType' /\ call'[c] = NoCall
         /\ \A d \in Calls \ {c} : call'[d] = call[d]
  BY CallChange, NoCallType DEF Return

\* A call that begins is where its operation starts; the others do not move.
LEMMA EnterMove ==
  ASSUME CallType, NEW c \in Calls, NEW op \in Ops, NEW place \in Places,
         NEW m \in Markets, Enter(c, op, place, m)
  PROVE  /\ CallType'
         /\ call'[c].op = op /\ call'[c].at = place /\ call'[c].m = m
         /\ \A d \in Calls \ {c} : call'[d] = call[d]
<1> DEFINE r == [NoCall EXCEPT !.op = op, !.at = place, !.m = m]
<1>1. r \in CallRecords /\ r.op = op /\ r.at = place /\ r.m = m
  BY NoCallType DEF CallRecords
<1>2. call' = [call EXCEPT ![c] = r]
  BY DEF Enter
<1> HIDE DEF r
<1> QED
  BY <1>1, <1>2, CallChange

\* A call that moves on keeps its operation and its market.
LEMMA PlaceMove ==
  ASSUME CallType, NEW c \in Calls, NEW place \in Places, MoveTo(c, place)
  PROVE  /\ CallType'
         /\ call'[c].op = call[c].op /\ call'[c].at = place
         /\ call'[c].m = call[c].m
         /\ \A d \in Calls \ {c} : call'[d] = call[d]
<1> DEFINE r == [call[c] EXCEPT !.at = place]
<1>1. r \in CallRecords /\ r.op = call[c].op /\ r.at = place /\ r.m = call[c].m
  BY DEF CallType, CallRecords
<1>2. call' = [call EXCEPT ![c] = r]
  BY DEF MoveTo
<1> HIDE DEF r
<1> QED
  BY <1>1, <1>2, CallChange

-------------------------------------------------------------------------------
\* Types.
LEMMA TypeParts == OneEngine => (TypeOK <=> VarTypes /\ LockInv)
  BY DEF OneEngine, TypeOK, VarTypes, LockInv, HoldsLock

\* A halt that is raised is in memory at once, and its store is on its way.
LEMMA RaisedType ==
  ASSUME VarTypes
  PROVE  /\ Raised \in [mem : BOOLEAN, db : BOOLEAN, writing : BOOLEAN]
         /\ Raised.mem /\ Raised.writing /\ Raised.db = halt.db
  BY DEF VarTypes, Raised

\* A suspend command leaves the same tasks in the table.
LEMMA SuspendStep ==
  ASSUME VarTypes, NEW m \in Markets, Suspend(m)
  PROVE  /\ engine' \in [Markets -> [Tokens -> {"none", "running", "suspended", "stopping"}]]
         /\ \A n \in Markets : Active(n)' <=> Active(n)
<1>1. PICK S \in SUBSET {t \in Tokens : engine[m][t] = "running"} :
        engine' = [engine EXCEPT ![m] =
                    [t \in Tokens |-> IF t \in S THEN "suspended" ELSE @[t]]]
  BY DEF Suspend
<1>2. \A n \in Markets, t \in Tokens :
         engine'[n][t] = IF n = m /\ t \in S THEN "suspended" ELSE engine[n][t]
  BY <1>1 DEF VarTypes
<1>3. engine' \in [Markets -> [Tokens -> {"none", "running", "suspended", "stopping"}]]
  BY <1>1 DEF VarTypes
<1> QED
  BY <1>2, <1>3 DEF VarTypes, Active

\* Where a call stands after its stop_market_tasks.
LEMMA StoppedType ==
  ASSUME CallType, NEW c \in Calls
  PROVE  /\ Stopped(c) \in CallRecords /\ Stopped(c).op = call[c].op
         /\ Stopped(c).m = call[c].m /\ Stopped(c).at \in {"next", "status"}
  BY DEF CallType, CallRecords, Stopped, Places

\* The outcome of HaltUnless in the terms the proofs need.
LEMMA HaltUnlessStep ==
  ASSUME VarTypes, NEW ok \in BOOLEAN, HaltUnless(ok)
  PROVE  /\ halt' \in [mem : BOOLEAN, db : BOOLEAN, writing : BOOLEAN]
         /\ halt'.db = halt.db /\ (halt.mem => halt'.mem)
         /\ ok => halt' = halt
         /\ ~ok => halt'.mem
  BY RaisedType DEF HaltUnless, VarTypes

\* A task that ends is out of the table; the calls that waited for it go on.
LEMMA TaskDoneStep ==
  ASSUME VarTypes, CallType, NEW m \in Markets, NEW t \in Tokens, TaskDone(m, t)
  PROVE  /\ engine' \in [Markets -> [Tokens -> {"none", "running", "suspended", "stopping"}]]
         /\ \A n \in Markets : Active(n)' => Active(n)
         /\ CallType'
         /\ \A d \in Calls : /\ call'[d].op = call[d].op /\ call'[d].m = call[d].m
                             /\ call'[d] = call[d] \/ call'[d].at \in {"next", "status"}
         /\ quiet' \in {quiet, QuietWith(m)}
         /\ quiet' # quiet => ~Active(m)'
<1>1. engine' \in [Markets -> [Tokens -> {"none", "running", "suspended", "stopping"}]]
  BY DEF TaskDone, VarTypes
<1>2. \A n \in Markets, u \in Tokens :
         engine'[n][u] = IF n = m /\ u = t THEN "none" ELSE engine[n][u]
  BY DEF TaskDone, VarTypes
<1>3. CallType'
  BY StoppedType DEF TaskDone, CallType
<1>4. \A d \in Calls : /\ call'[d].op = call[d].op /\ call'[d].m = call[d].m
                       /\ call'[d] = call[d] \/ call'[d].at \in {"next", "status"}
  BY StoppedType DEF TaskDone
<1>5. quiet' \in {quiet, QuietWith(m)}
  BY DEF TaskDone
<1>6. quiet' # quiet => ~Active(m)'
  BY <1>2 DEF TaskDone, Active
<1> QED
  BY <1>1, <1>2, <1>3, <1>4, <1>5, <1>6 DEF Active

\* A cancel goes on to the tasks or, in a halt, to the next market.
LEMMA AfterCancelPlace == \A c \in Calls : AfterCancel(c) \in {"next", "tasks"}
  BY DEF AfterCancel

\* Every step keeps the types.
LEMMA TypeStep ==
  ASSUME VarTypes, CallType, BookType, Next
  PROVE  VarTypes' /\ CallType' /\ BookType'
<1> USE DEF VarTypes, table
<1>0. \A c \in Calls : /\ call[c].m \in Markets /\ call[c].ok \in BOOLEAN
                       /\ call[c].todo \in SUBSET Markets
  BY DEF CallType, CallRecords
<1>1. ASSUME NEW c \in Calls, CallStep(c) PROVE VarTypes' /\ CallType' /\ BookType'
  <2>1. CASE StartLocked(c) \/ StartFails(c) \/ AckCommit(c) \/ AckClear(c)
    <3>1. Return(c) \/ MoveTo(c, "preflight") \/ MoveTo(c, "clear")
      BY <2>1 DEF StartLocked, StartFails, AckCommit, AckClear
    <3>2. CallType'
      BY <3>1, ReturnMove, PlaceMove DEF Places
    <3> QED
      BY <2>1, <3>2 DEF StartLocked, StartFails, AckCommit, AckClear, BookType
  <2>2. CASE StartCommit(c)
    BY <2>2, <1>0, PlaceMove DEF StartCommit, BookType, Places
  <2>3. CASE StartLaunch(c)
    BY <2>3, <1>0, ReturnMove DEF StartLaunch, BookType
  <2>4. CASE HaltPersist(c)
    <3> DEFINE active == {m \in Markets : Active(m)}
               known == active \union {m \in Markets : books[m].resting}
               r == [call[c] EXCEPT !.at = "next", !.todo = known,
                                    !.targets = known, !.active = active]
    <3>1. r \in CallRecords
      BY DEF CallType, CallRecords, Places
    <3>2. call' = [call EXCEPT ![c] = r]
      BY <2>4 DEF HaltPersist, CallType
    <3>3. CallType'
      BY <3>1, <3>2, CallChange
    <3> QED
      BY <2>4, <3>3 DEF HaltPersist, BookType
  <2>5. ASSUME NEW m \in Markets, HaltNext(c, m) PROVE VarTypes' /\ CallType' /\ BookType'
    <3>1. CallType'
      BY <2>5 DEF HaltNext, CallType, CallRecords, Places
    <3> QED
      BY <2>5, <3>1, SuspendStep DEF HaltNext, BookType
  <2>6. CASE HaltReturns(c) \/ StopReturns(c)
    <3>1. CallType'
      BY <2>6, ReturnMove DEF HaltReturns, StopReturns
    <3> QED
      BY <2>6, <3>1, <1>0, HaltUnlessStep DEF HaltReturns, StopReturns, BookType
  <2>7. CASE CancelMarketOrders(c)
    <3>1. PICK ok \in Confirms(call[c].m) :
            /\ books' = IF ok THEN [books EXCEPT ![call[c].m].resting = FALSE] ELSE books
            /\ IF call[c].op = "kill"
               THEN HaltUnless(ok) /\ Return(c)
               ELSE /\ call' = [call EXCEPT ![c].at = AfterCancel(c), ![c].ok = ok]
                    /\ UNCHANGED halt
      BY <2>7 DEF CancelMarketOrders
    <3>2. ok \in BOOLEAN
      BY DEF Confirms
    <3>3. CallType'
      <4>1. CASE Return(c)
        BY <4>1, ReturnMove
      <4>2. CASE call' = [call EXCEPT ![c].at = AfterCancel(c), ![c].ok = ok]
        <5>1. [call[c] EXCEPT !.at = AfterCancel(c), !.ok = ok] \in CallRecords
          BY <3>2, AfterCancelPlace DEF CallType, CallRecords, Places
        <5>2. call' = [call EXCEPT ![c] = [call[c] EXCEPT !.at = AfterCancel(c), !.ok = ok]]
          BY <4>2 DEF CallType
        <5> QED
          BY <5>1, <5>2, CallChange
      <4> QED
        BY <3>1, <4>1, <4>2
    <3>4. BookType'
      BY <3>1, <3>2, <1>0 DEF BookType
    <3> QED
      <4>1. halt' \in [mem : BOOLEAN, db : BOOLEAN, writing : BOOLEAN]
        BY <3>1, <3>2, HaltUnlessStep
      <4> QED
        BY <2>7, <3>3, <3>4, <4>1 DEF CancelMarketOrders
  <2>8. CASE StopTasks(c)
    <3>1. CallType'
      BY <2>8, PlaceMove, StoppedType, CallChange DEF StopTasks, Places
    <3>2. engine' \in [Markets -> [Tokens -> {"none", "running", "suspended", "stopping"}]]
      BY <2>8 DEF StopTasks
    <3>3. quiet' \subseteq Markets
      BY <2>8, <1>0 DEF StopTasks, QuietWith
    <3> QED
      BY <2>8, <3>1, <3>2, <3>3 DEF StopTasks, BookType
  <2> QED
    BY <1>1, <2>1, <2>2, <2>3, <2>4, <2>5, <2>6, <2>7, <2>8 DEF CallStep
<1>2. ASSUME NEW c \in Calls, Request(c) PROVE VarTypes' /\ CallType' /\ BookType'
  <2>1. ASSUME NEW m \in Markets, StartRequest(c, m) \/ StopRequest(c, m) \/ KillSwitch(c, m)
        PROVE  VarTypes' /\ CallType' /\ BookType'
    <3>1. CallType'
      BY <2>1, EnterMove DEF StartRequest, StopRequest, KillSwitch, Ops, Places
    <3>2. engine' \in [Markets -> [Tokens -> {"none", "running", "suspended", "stopping"}]]
      BY <2>1, SuspendStep DEF StartRequest, StopRequest, KillSwitch
    <3> QED
      BY <2>1, <3>1, <3>2, RaisedType DEF StartRequest, StopRequest, KillSwitch, BookType
  <2>2. CASE HaltRequest(c) \/ AckRequest(c)
    <3>1. AnyMarket \in Markets
      BY ControlAssumption DEF AnyMarket
    <3>2. CallType'
      BY <2>2, <3>1, EnterMove DEF HaltRequest, AckRequest, Ops, Places
    <3> QED
      BY <2>2, <3>2, RaisedType DEF HaltRequest, AckRequest, BookType
  <2>3. CASE Wipe(c)
    BY <2>3 DEF Wipe, CallType, BookType
  <2> QED
    BY <1>2, <2>1, <2>2, <2>3 DEF Request
<1>3. ASSUME NEW m \in Markets, MarkRead(m) \/ MarkExited(m)
      PROVE  VarTypes' /\ CallType' /\ BookType'
  BY <1>3 DEF MarkRead, MarkExited, CallType, BookType
<1>4. ASSUME NEW m \in Markets, Trade(m) PROVE VarTypes' /\ CallType' /\ BookType'
  <2>1. CASE books' = [books EXCEPT ![m].resting = TRUE]
    BY <1>4, <2>1 DEF Trade, BookType, CallType
  <2>2. CASE books' = [books EXCEPT ![m].held = FALSE]
    BY <1>4, <2>2 DEF Trade, BookType, CallType
  <2>3. CASE \E h \in {TRUE, books[m].held} :
               books' = [books EXCEPT ![m] = [resting |-> FALSE, held |-> h]]
    <3>1. PICK h \in BOOLEAN : books' = [books EXCEPT ![m] = [resting |-> FALSE, held |-> h]]
      BY <2>3 DEF BookType
    <3>2. BookType'
      BY <3>1 DEF BookType
    <3> QED
      BY <1>4, <3>2 DEF Trade, CallType
  <2> QED
    BY <1>4, <2>1, <2>2, <2>3 DEF Trade
<1>5. ASSUME NEW m \in Markets, NEW t \in Tokens, EngineEnds(m, t)
      PROVE  VarTypes' /\ CallType' /\ BookType'
  <2>1. TaskDone(m, t)
    BY <1>5 DEF EngineEnds
  <2>2. halt' \in [mem : BOOLEAN, db : BOOLEAN, writing : BOOLEAN]
    BY <1>5, HaltUnlessStep DEF EngineEnds
  <2>3. quiet' \subseteq Markets
    BY <2>1, TaskDoneStep DEF QuietWith
  <2> QED
    BY <1>5, <2>1, <2>2, <2>3, TaskDoneStep DEF EngineEnds, BookType
<1>6. CASE HaltRaised \/ PersistHalt
  BY <1>6, RaisedType DEF HaltRaised, PersistHalt, CallType, BookType
<1>7. ASSUME NEW md \in Modes, Boot(md) PROVE VarTypes' /\ CallType' /\ BookType'
  BY <1>7 DEF Boot, CallType, BookType
<1>8. CASE Shutdown
  <2>1. PICK done \in SUBSET {m \in Markets : Active(m) /\ TRUE \in Confirms(m)} :
          /\ HaltUnless(\A m \in Markets : Active(m) => m \in done)
          /\ books' = [m \in Markets |-> [books[m] EXCEPT !.resting = @ /\ m \notin done]]
    BY <1>8 DEF Shutdown
  <2>2. BookType'
    BY <2>1 DEF BookType
  <2>3. halt' \in [mem : BOOLEAN, db : BOOLEAN, writing : BOOLEAN]
    BY <2>1, HaltUnlessStep
  <2>4. engine' \in [Markets -> [Tokens -> {"none", "running", "suspended", "stopping"}]]
    BY <1>8 DEF Shutdown
  <2> QED
    BY <1>8, <2>2, <2>3, <2>4 DEF Shutdown, CallType
<1>9. CASE Exit \/ Crash
  <2>1. Gone
    BY <1>9 DEF Exit, Crash
  <2>2. CallType'
    BY <2>1, NoCallType DEF Gone, CallType
  <2>3. halt' \in [mem : BOOLEAN, db : BOOLEAN, writing : BOOLEAN]
    BY <2>1 DEF Gone
  <2>4. engine' \in [Markets -> [Tokens -> {"none", "running", "suspended", "stopping"}]]
    BY <2>1 DEF Gone, NoTasks
  <2> QED
    BY <2>1, <2>2, <2>3, <2>4 DEF Gone, BookType
<1> QED
  BY <1>1, <1>2, <1>3, <1>4, <1>5, <1>6, <1>7, <1>8, <1>9 DEF Next

-------------------------------------------------------------------------------
\* What keeps them: no start begins or passes its check, no task appears, and
\* a market that becomes quiet has no task and no start.
LEMMA TableFrame ==
  ASSUME VarTypes, CallType, TableInv, ghosts' = ghosts,
         NEW n \in Markets, quiet' \in {quiet, QuietWith(n)},
         quiet' # quiet => ~Active(n)',
         \A m \in Markets : Active(m)' => Active(m),
         \A d \in Calls : call'[d].op = "start" =>
            /\ call[d].op = "start" /\ call'[d].m = call[d].m
            /\ HoldsLock(d)' => HoldsLock(d)
  PROVE  TableInv'
<1>1. \A d \in Calls : HoldsLock(d)' => HoldsLock(d) /\ call'[d].m = call[d].m
  BY DEF HoldsLock
<1>2. \A m \in Markets : Starting(m)' => Starting(m)
  BY DEF Starting
<1>3. OneEngine' /\ LockInv'
  BY <1>1 DEF TableInv, OneEngine, LockInv
<1>4. StartInv'
  BY <1>1 DEF TableInv, StartInv, CallType, CallRecords
<1>5. QuietInv'
  <2>1. CASE quiet' = quiet
    BY <1>2, <2>1 DEF TableInv, QuietInv, VarTypes
  <2>2. CASE quiet' # quiet
    <3>1. ~Starting(n) /\ quiet' = quiet \union {n}
      BY <2>2 DEF QuietWith
    <3> QED
      BY <1>2, <2>2, <3>1 DEF TableInv, QuietInv, VarTypes
  <2> QED
    BY <2>1, <2>2
<1> QED
  BY <1>3, <1>4, <1>5 DEF TableInv

\* What keeps them within a process: no acknowledgement begins, the books of a
\* process that cannot trade do not open, a halt leaves memory there only.
LEMMA ModeFrame ==
  ASSUME ModeInv, mode # "off", mode' = mode,
         \A d \in Calls : call'[d].op = "ack" => call[d].op = "ack",
         mode = "disabled" /\ Flat => Flat',
         Storing' => Storing \/ halt'.mem,
         halt.mem => halt'.mem \/ mode = "disabled"
  PROVE  ModeInv'
  BY DEF ModeInv, OffInv, AckInv, StoreInv

\* A step that leaves the books and the other calls alone, and the halt or raises it.
LEMMA CallFrame ==
  ASSUME ModeInv, NEW c \in Calls, call[c] # NoCall, mode' = mode, books' = books,
         \A d \in Calls \ {c} : call'[d] = call[d],
         call'[c].op = "ack" => call[c].op = "ack",
         ~At(c, "halt", "persist")',
         halt' = halt \/ halt'.mem
  PROVE  ModeInv'
<1>1. mode # "off"
  BY DEF ModeInv, OffInv
<1>2. Storing' => Storing \/ halt'.mem
  BY DEF Storing, At
<1> QED
  BY <1>1, <1>2, ModeFrame DEF Flat

\* A caller that makes no call is at no place.
LEMMA NoCallLemma == NoCall.op = "none" /\ NoCall.at = "none"
  BY DEF NoCall

\* The three steps of a start that TableFrame does not cover.
LEMMA StartRequestTable ==
  ASSUME VarTypes, CallType, TableInv,
         NEW c \in Calls, NEW m \in Markets, StartRequest(c, m)
  PROVE  TableInv'
<1>1. /\ call'[c].op = "start" /\ call'[c].at = "lock" /\ call'[c].m = m
      /\ \A d \in Calls \ {c} : call'[d] = call[d]
  BY EnterMove DEF StartRequest, Ops, Places
<1>2. \A d \in Calls : HoldsLock(d)' => HoldsLock(d) /\ call'[d] = call[d]
  BY <1>1 DEF HoldsLock
<1>3. ghosts' = ghosts /\ (\A n \in Markets : Active(n)' <=> Active(n)) /\ quiet' = quiet \ {m}
  BY DEF StartRequest, table, Active
<1>4. \A n \in Markets \ {m} : Starting(n)' => Starting(n)
  BY <1>1 DEF Starting
<1>5. OneEngine' /\ LockInv'
  BY <1>2, <1>3 DEF TableInv, OneEngine, LockInv
<1>6. StartInv'
  BY <1>2, <1>3 DEF TableInv, StartInv, CallType, CallRecords
<1>7. QuietInv'
  BY <1>3, <1>4 DEF TableInv, QuietInv, VarTypes
<1> QED
  BY <1>5, <1>6, <1>7 DEF TableInv

\* The start under the lock: it has seen that no task of the market runs.
LEMMA StartLockedTable ==
  ASSUME VarTypes, CallType, TableInv, NEW c \in Calls, StartLocked(c)
  PROVE  TableInv'
<1>0. call[c].m \in Markets /\ call[c].op = "start"
  BY DEF CallType, CallRecords, StartLocked, At
<1>1. ghosts' = ghosts /\ quiet' = quiet /\ \A n \in Markets : Active(n)' <=> Active(n)
  BY DEF StartLocked, table, Active
<1>2. CASE Return(c)
  BY <1>0, <1>1, <1>2, ReturnMove, TableFrame, NoCallLemma DEF HoldsLock
<1>3. CASE MoveTo(c, "preflight") /\ ~Active(call[c].m)
  <2>1. /\ call'[c].op = "start" /\ call'[c].at = "preflight" /\ call'[c].m = call[c].m
        /\ \A d \in Calls \ {c} : call'[d] = call[d]
    BY <1>0, <1>3, PlaceMove DEF Places
  <2>2. \A d \in Calls : HoldsLock(d) => call[d].m # call[c].m
    BY DEF StartLocked, Locked, HoldsLock
  <2>3. \A d \in Calls \ {c} : HoldsLock(d)' => HoldsLock(d)
    BY <2>1 DEF HoldsLock
  <2>4. OneEngine' /\ LockInv'
    BY <1>1, <2>1, <2>2, <2>3 DEF TableInv, OneEngine, LockInv
  <2>5. StartInv'
    <3>1. ASSUME NEW d \in Calls, HoldsLock(d)' PROVE ~Active(call[d].m)'
      <4>1. CASE d = c
        BY <1>0, <1>1, <1>3, <2>1, <4>1 DEF Active
      <4>2. CASE d # c
        BY <1>1, <2>1, <2>3, <3>1, <4>2 DEF TableInv, StartInv, CallType, CallRecords, Active
      <4> QED
        BY <4>1, <4>2
    <3> QED
      BY <3>1 DEF StartInv
  <2>6. QuietInv'
    <3>1. \A n \in Markets : Starting(n)' => Starting(n)
      BY <1>0, <2>1 DEF Starting
    <3> QED
      BY <1>1, <3>1 DEF TableInv, QuietInv, VarTypes
  <2> QED
    BY <2>4, <2>5, <2>6 DEF TableInv
<1> QED
  BY <1>2, <1>3 DEF StartLocked

\* The start launches one task for each token, under the lock it still holds.
LEMMA StartLaunchTable ==
  ASSUME VarTypes, CallType, TableInv, NEW c \in Calls, StartLaunch(c)
  PROVE  TableInv'
<1> DEFINE m == call[c].m
<1>0. m \in Markets /\ HoldsLock(c)
  BY DEF CallType, CallRecords, StartLaunch, At, HoldsLock
<1>1. /\ call'[c] = NoCall /\ quiet' = quiet
      /\ \A d \in Calls \ {c} : call'[d] = call[d]
  BY ReturnMove DEF StartLaunch
<1>2. \A d \in Calls : (HoldsLock(d)' => HoldsLock(d) /\ d # c)
                       /\ (call'[d].op = "start" => call[d].op = "start" /\ d # c)
  BY <1>1, NoCallLemma DEF HoldsLock
<1>3. \A n \in Markets \ {m} : Active(n)' <=> Active(n)
  BY DEF StartLaunch, VarTypes, Active
<1>4. OneEngine'
  <2>1. {t \in Tokens : engine[m][t] # "none"} = {}
    BY <1>0 DEF TableInv, StartInv, Active
  <2>2. Cardinality({t \in Tokens : engine[m][t] # "none"}) = 0
    BY <2>1, FS_EmptySet
  <2> QED
    BY <2>2 DEF StartLaunch, TableInv, OneEngine
<1>5. LockInv'
  BY <1>1, <1>2 DEF TableInv, LockInv
<1>6. StartInv'
  <2>1. ASSUME NEW d \in Calls, HoldsLock(d)' PROVE ~Active(call[d].m)'
    <3>1. d # c /\ HoldsLock(d) /\ call'[d] = call[d]
      BY <1>1, <1>2, <2>1
    <3>2. call[d].m \in Markets \ {m} /\ ~Active(call[d].m)
      BY <1>0, <3>1 DEF TableInv, LockInv, StartInv, CallType, CallRecords
    <3> QED
      BY <1>3, <3>1, <3>2 DEF Active
  <2> QED
    BY <2>1 DEF StartInv
<1>7. QuietInv'
  <2>1. m \notin quiet
    BY <1>0 DEF TableInv, QuietInv, Starting, HoldsLock
  <2>2. \A n \in Markets : Starting(n)' => Starting(n)
    BY <1>1, <1>2 DEF Starting
  <2> QED
    BY <1>1, <1>3, <2>1, <2>2 DEF TableInv, QuietInv, VarTypes
<1> QED
  BY <1>4, <1>5, <1>6, <1>7 DEF TableInv

\* Every step keeps the table of tasks.
LEMMA TableStep ==
  ASSUME VarTypes, CallType, TableInv, Next
  PROVE  TableInv'
<1>0. \A c \in Calls : call[c].m \in Markets
  BY DEF CallType, CallRecords
<1>1. ASSUME NEW c \in Calls, CallStep(c) PROVE TableInv'
  <2>1. CASE StartLocked(c) \/ StartLaunch(c)
    BY <2>1, StartLockedTable, StartLaunchTable
  <2>2. CASE StartCommit(c)
    <3>1. call[c].op = "start" /\ call[c].at = "preflight" /\ MoveTo(c, "seed")
      BY <2>2 DEF StartCommit, At
    <3>2. \A d \in Calls : /\ call'[d].op = call[d].op /\ call'[d].m = call[d].m
                           /\ HoldsLock(d)' => HoldsLock(d)
      BY <3>1, PlaceMove DEF Places, HoldsLock
    <3> QED
      BY <2>2, <1>0, <3>2, TableFrame DEF StartCommit, table, Active
  <2>3. CASE StartFails(c) \/ HaltReturns(c) \/ StopReturns(c) \/ AckClear(c)
    <3>1. Return(c) /\ UNCHANGED <<engine, ghosts, quiet>>
      BY <2>3 DEF StartFails, HaltReturns, StopReturns, AckClear, table
    <3> QED
      BY <3>1, <1>0, ReturnMove, TableFrame, NoCallLemma DEF HoldsLock, Active
  <2>4. CASE HaltPersist(c) \/ AckCommit(c)
    <3>1. /\ call[c].op \in {"halt", "ack"} /\ UNCHANGED <<engine, ghosts, quiet>>
          /\ \A d \in Calls \ {c} : call'[d] = call[d]
          /\ call'[c].op # "start"
      <4>1. CASE HaltPersist(c)
        <5>1. PICK known \in SUBSET Markets, active \in SUBSET Markets :
                call' = [call EXCEPT ![c].at = "next", ![c].todo = known,
                                     ![c].targets = known, ![c].active = active]
          BY <4>1 DEF HaltPersist
        <5>2. call[c].op = "halt" /\ UNCHANGED <<engine, ghosts, quiet>>
          BY <4>1 DEF HaltPersist, At, table
        <5>3. call'[c].op = call[c].op /\ \A d \in Calls \ {c} : call'[d] = call[d]
          BY <5>1 DEF CallType, CallRecords
        <5> QED
          BY <5>2, <5>3
      <4>2. CASE AckCommit(c)
        BY <4>2, NoCallLemma, ReturnMove, PlaceMove
        DEF AckCommit, At, table, CallType, CallRecords, Places
      <4> QED
        BY <2>4, <4>1, <4>2
    <3> QED
      BY <3>1, <1>0, TableFrame DEF HoldsLock, Active
  <2>5. ASSUME NEW m \in Markets, HaltNext(c, m) PROVE TableInv'
    <3>1. /\ UNCHANGED <<ghosts, quiet>> /\ (Suspend(m) \/ UNCHANGED engine)
          /\ \A d \in Calls \ {c} : call'[d] = call[d]
          /\ call'[c].op # "start"
      BY <2>5 DEF HaltNext, At, CallType, CallRecords
    <3>2. \A n \in Markets : Active(n)' <=> Active(n)
      BY <3>1, SuspendStep DEF Active
    <3> QED
      BY <3>1, <3>2, TableFrame DEF HoldsLock
  <2>6. CASE CancelMarketOrders(c)
    <3>1. /\ UNCHANGED <<engine, ghosts, quiet>>
          /\ \A d \in Calls \ {c} : call'[d] = call[d]
          /\ call'[c].op = "start" => call[c].op = "start" /\ call'[c].m = call[c].m
          /\ ~HoldsLock(c)'
      <4>1. UNCHANGED table /\ quiet' = quiet /\ call[c].at = "cancel"
        BY <2>6 DEF CancelMarketOrders
      <4>2. CASE Return(c)
        BY <4>1, <4>2, ReturnMove, NoCallLemma DEF table, HoldsLock
      <4>3. ASSUME NEW ok, call' = [call EXCEPT ![c].at = AfterCancel(c), ![c].ok = ok]
            PROVE  /\ \A d \in Calls \ {c} : call'[d] = call[d]
                   /\ call'[c].op = call[c].op /\ call'[c].m = call[c].m
                   /\ call'[c].at \in {"next", "tasks"}
        BY <4>3, AfterCancelPlace DEF CallType, CallRecords
      <4> QED
        BY <2>6, <4>1, <4>2, <4>3 DEF CancelMarketOrders, table, HoldsLock
    <3> QED
      BY <3>1, <1>0, TableFrame DEF HoldsLock, Active
  <2>7. CASE StopTasks(c)
    <3>1. /\ \A d \in Calls \ {c} : call'[d] = call[d]
          /\ call'[c].op = call[c].op /\ call'[c].m = call[c].m
          /\ ~HoldsLock(c)'
      BY <2>7, PlaceMove, StoppedType, CallChange DEF StopTasks, Places, HoldsLock
    <3>2. \A n \in Markets : Active(n)' => Active(n)
      BY <2>7 DEF StopTasks, Active, VarTypes
    <3>3. PICK n \in Markets : n = call[c].m
      BY <1>0
    <3>4. /\ quiet' \in {quiet, QuietWith(n)}
          /\ quiet' # quiet => ~Active(n)'
      BY <2>7, <3>3 DEF StopTasks, Active
    <3> QED
      BY <2>7, <3>1, <3>2, <3>4, TableFrame DEF StopTasks, HoldsLock
  <2> QED
    BY <1>1, <2>1, <2>2, <2>3, <2>4, <2>5, <2>6, <2>7 DEF CallStep
<1>2. ASSUME NEW c \in Calls, Request(c) PROVE TableInv'
  <2>1. ASSUME NEW m \in Markets, StartRequest(c, m) PROVE TableInv'
    BY <2>1, StartRequestTable
  <2>2. ASSUME NEW m \in Markets, StopRequest(c, m) \/ KillSwitch(c, m) PROVE TableInv'
    <3>1. /\ UNCHANGED <<ghosts, quiet>> /\ Suspend(m)
          /\ \A d \in Calls \ {c} : call'[d] = call[d]
          /\ call'[c].op # "start"
      BY <2>2, EnterMove DEF StopRequest, KillSwitch, Ops, Places
    <3> QED
      BY <3>1, SuspendStep, TableFrame DEF HoldsLock
  <2>3. CASE HaltRequest(c) \/ AckRequest(c)
    <3>0. AnyMarket \in Markets
      BY ControlAssumption DEF AnyMarket
    <3>1. /\ UNCHANGED <<engine, ghosts, quiet>>
          /\ \A d \in Calls \ {c} : call'[d] = call[d]
          /\ call'[c].op # "start"
      BY <2>3, <3>0, EnterMove DEF HaltRequest, AckRequest, Ops, Places, table
    <3> QED
      BY <3>0, <3>1, TableFrame DEF HoldsLock, Active
  <2>4. CASE Wipe(c)
    BY <2>4, <1>0, TableFrame DEF Wipe, table, HoldsLock, Active
  <2> QED
    BY <1>2, <2>1, <2>2, <2>3, <2>4 DEF Request
<1>3. ASSUME NEW m \in Markets, NEW t \in Tokens, EngineEnds(m, t) PROVE TableInv'
  <2>1. TaskDone(m, t) /\ ghosts' = ghosts
    BY <1>3 DEF EngineEnds
  <2> QED
    BY <2>1, TaskDoneStep, TableFrame DEF HoldsLock
<1>4. ASSUME \/ \E m \in Markets : MarkRead(m) \/ MarkExited(m) \/ Trade(m)
             \/ HaltRaised \/ PersistHalt \/ \E md \in Modes : Boot(md)
      PROVE TableInv'
  <2>1. UNCHANGED <<engine, ghosts, quiet, call>>
    BY <1>4 DEF MarkRead, MarkExited, Trade, HaltRaised, PersistHalt, Boot, table
  <2> QED
    BY <2>1, ControlAssumption, TableFrame DEF HoldsLock, Active
<1>5. CASE Shutdown
  <2>1. \A n \in Markets : Active(n)' => Active(n)
    BY <1>5 DEF Shutdown, Active
  <2> QED
    BY <1>5, <2>1, ControlAssumption, TableFrame DEF Shutdown, HoldsLock
<1>6. CASE Exit \/ Crash
  <2>1. Gone
    BY <1>6 DEF Exit, Crash
  <2>2. \A m \in Markets : ~Active(m)'
    BY <2>1 DEF Gone, NoTasks, Active
  <2>3. \A d \in Calls : call'[d].op # "start"
    BY <2>1, NoCallLemma DEF Gone
  <2> QED
    BY <2>1, <2>2, <2>3 DEF Gone, TableInv, OneEngine, LockInv, StartInv, QuietInv,
       HoldsLock, Starting, VarTypes
<1> QED
  BY <1>1, <1>2, <1>3, <1>4, <1>5, <1>6 DEF Next

\* No step but those of an acknowledgement lets a halt leave memory, and only
\* HaltPersist and PersistHalt store one.
LEMMA ModeStep ==
  ASSUME VarTypes, CallType, BookType, ModeInv, Next
  PROVE  ModeInv'
<1>0. \A c \in Calls : call[c].m \in Markets
  BY DEF CallType, CallRecords
<1>1. ASSUME NEW c \in Calls, CallStep(c) PROVE ModeInv'
  <2>0. call[c] # NoCall
    BY <1>1, NoCallLemma DEF CallStep, StartLocked, StartCommit, StartLaunch, StartFails,
       HaltPersist, HaltNext, HaltReturns, CancelMarketOrders, StopTasks, StopReturns,
       AckCommit, AckClear, At
  <2>1. CASE StartLocked(c) \/ StartCommit(c) \/ StartLaunch(c) \/ StartFails(c)
    <3>1. Return(c) \/ MoveTo(c, "preflight") \/ MoveTo(c, "seed")
      BY <2>1 DEF StartLocked, StartCommit, StartLaunch, StartFails
    <3>2. /\ UNCHANGED <<mode, books, halt>>
      BY <2>1 DEF StartLocked, StartCommit, StartLaunch, StartFails
    <3> QED
      BY <2>0, <3>1, <3>2, ReturnMove, PlaceMove, NoCallLemma, CallFrame DEF Places, At
  <2>2. CASE HaltReturns(c) \/ StopReturns(c)
    <3>1. Return(c) /\ UNCHANGED <<mode, books>>
      BY <2>2 DEF HaltReturns, StopReturns
    <3>2. halt' = halt \/ halt'.mem
      BY <2>2, RaisedType DEF HaltReturns, StopReturns, HaltUnless
    <3> QED
      BY <2>0, <3>1, <3>2, ReturnMove, NoCallLemma, CallFrame DEF At
  <2>3. ASSUME NEW m \in Markets, HaltNext(c, m) PROVE ModeInv'
    <3>1. /\ UNCHANGED <<mode, books, halt>>
          /\ \A d \in Calls \ {c} : call'[d] = call[d]
          /\ call'[c].op = call[c].op /\ call'[c].at = "cancel"
      BY <2>3 DEF HaltNext, CallType, CallRecords
    <3> QED
      BY <2>0, <3>1, CallFrame DEF At
  <2>4. CASE StopTasks(c)
    <3>1. /\ UNCHANGED <<mode, books, halt>>
          /\ \A d \in Calls \ {c} : call'[d] = call[d]
          /\ call'[c].op = call[c].op /\ call'[c].at \in {"next", "status", "wait"}
      BY <2>4, PlaceMove, StoppedType, CallChange DEF StopTasks, Places
    <3> QED
      BY <2>0, <3>1, CallFrame DEF At
  <2>5. CASE CancelMarketOrders(c)
    <3>1. PICK ok \in Confirms(call[c].m) :
            /\ books' = IF ok THEN [books EXCEPT ![call[c].m].resting = FALSE] ELSE books
            /\ IF call[c].op = "kill"
               THEN HaltUnless(ok) /\ Return(c)
               ELSE /\ call' = [call EXCEPT ![c].at = AfterCancel(c), ![c].ok = ok]
                    /\ UNCHANGED halt
      BY <2>5 DEF CancelMarketOrders
    <3>2. mode' = mode /\ mode # "off" /\ call[c].at = "cancel"
      BY <2>0, <2>5 DEF CancelMarketOrders, ModeInv, OffInv
    <3>3. Flat => Flat'
      BY <3>1, <1>0 DEF Flat, BookType
    <3>4. /\ \A d \in Calls \ {c} : call'[d] = call[d]
          /\ \/ call'[c] = NoCall
             \/ call'[c].op = call[c].op /\ call'[c].at \in {"next", "tasks"}
      <4>1. CASE Return(c)
        BY <4>1, ReturnMove
      <4>2. CASE call' = [call EXCEPT ![c].at = AfterCancel(c), ![c].ok = ok]
        BY <4>2, AfterCancelPlace DEF CallType, CallRecords
      <4> QED
        BY <3>1, <4>1, <4>2
    <3>5. halt' = halt \/ halt'.mem
      BY <3>1, RaisedType DEF HaltUnless
    <3>6. Storing' => Storing \/ halt'.mem
      BY <3>4, <3>5, NoCallLemma DEF Storing, At
    <3> QED
      BY <3>2, <3>3, <3>4, <3>5, <3>6, NoCallLemma, ModeFrame
  <2>6. CASE HaltPersist(c)
    <3>1. /\ UNCHANGED <<mode, books>> /\ halt'.mem = halt.mem
          /\ halt'.writing = halt.writing
          /\ \A d \in Calls \ {c} : call'[d] = call[d]
          /\ call'[c].op = call[c].op /\ call'[c].at = "next"
      BY <2>6 DEF HaltPersist, CallType, CallRecords, VarTypes
    <3>2. mode # "off" /\ (Storing' => Storing)
      BY <2>0, <3>1 DEF Storing, At, ModeInv, OffInv
    <3> QED
      BY <3>1, <3>2, ModeFrame DEF Flat
  <2>7. CASE AckCommit(c) \/ AckClear(c)
    <3>1. /\ UNCHANGED <<mode, books>> /\ halt'.writing = halt.writing
          /\ mode = "disabled"
      BY <2>7 DEF AckCommit, AckClear, At, VarTypes, ModeInv, AckInv
    <3>2. /\ \A d \in Calls \ {c} : call'[d] = call[d]
          /\ call'[c] = NoCall \/ (call'[c].op = call[c].op /\ call'[c].at = "clear")
      BY <2>7, ReturnMove, PlaceMove DEF AckCommit, AckClear, Places
    <3>3. Storing' => Storing
      BY <3>1, <3>2, NoCallLemma DEF Storing, At
    <3> QED
      BY <3>1, <3>2, <3>3, NoCallLemma, ModeFrame DEF Flat
  <2> QED
    BY <1>1, <2>1, <2>2, <2>3, <2>4, <2>5, <2>6, <2>7 DEF CallStep
<1>2. ASSUME NEW c \in Calls, Request(c) PROVE ModeInv'
  <2>0. mode # "off"
    BY <1>2 DEF Request, StartRequest, StopRequest, KillSwitch, HaltRequest, AckRequest,
       Wipe, Up
  <2>1. ASSUME NEW m \in Markets, StartRequest(c, m) \/ StopRequest(c, m) \/ KillSwitch(c, m)
        PROVE  ModeInv'
    <3>1. /\ \A d \in Calls \ {c} : call'[d] = call[d]
          /\ call'[c].op \in {"start", "stop", "kill"}
      BY <2>1, EnterMove DEF StartRequest, StopRequest, KillSwitch, Ops, Places
    <3>2. /\ UNCHANGED <<mode, books>> /\ (halt' = halt \/ halt'.mem)
      BY <2>1, RaisedType DEF StartRequest, StopRequest, KillSwitch
    <3>3. Storing' => Storing \/ halt'.mem
      BY <3>1, <3>2 DEF Storing, At
    <3> QED
      BY <2>0, <3>1, <3>2, <3>3, ModeFrame DEF Flat
  <2>2. CASE HaltRequest(c)
    <3>0. AnyMarket \in Markets
      BY ControlAssumption DEF AnyMarket
    <3>1. /\ \A d \in Calls \ {c} : call'[d] = call[d]
          /\ call'[c].op = "halt"
          /\ UNCHANGED <<mode, books>> /\ halt'.mem
      BY <2>2, <3>0, EnterMove, RaisedType DEF HaltRequest, Ops, Places
    <3> QED
      BY <2>0, <3>1, ModeFrame DEF Flat
  <2>3. CASE AckRequest(c)
    <3>0. AnyMarket \in Markets
      BY ControlAssumption DEF AnyMarket
    <3>1. /\ \A d \in Calls \ {c} : call'[d] = call[d]
          /\ call'[c].op = "ack"
          /\ UNCHANGED <<mode, books, halt>> /\ mode = "disabled" /\ Flat
      BY <2>3, <3>0, EnterMove DEF AckRequest, Disabled, Ops, Places
    <3> QED
      BY <3>1 DEF ModeInv, OffInv, AckInv, StoreInv, Flat
  <2>4. CASE Wipe(c)
    BY <2>0, <2>4, ModeFrame DEF Wipe, Flat, Storing, At
  <2> QED
    BY <1>2, <2>1, <2>2, <2>3, <2>4 DEF Request
<1>3. ASSUME NEW m \in Markets, MarkRead(m) \/ MarkExited(m) PROVE ModeInv'
  <2>1. mode # "off" /\ UNCHANGED <<mode, halt, call, books>>
    BY <1>3 DEF MarkRead, MarkExited, Up
  <2> QED
    BY <2>1, ModeFrame DEF Flat, Storing, At
<1>4. ASSUME NEW m \in Markets, Trade(m) PROVE ModeInv'
  <2>1. mode \in {"paper", "live"} /\ UNCHANGED <<mode, halt, call>>
    BY <1>4 DEF Trade
  <2> QED
    BY <2>1, ModeFrame DEF Storing, At
<1>5. ASSUME NEW m \in Markets, NEW t \in Tokens, EngineEnds(m, t) PROVE ModeInv'
  <2>1. TaskDone(m, t) /\ UNCHANGED <<mode, books>> /\ (halt' = halt \/ halt'.mem)
    BY <1>5, RaisedType DEF EngineEnds, HaltUnless
  <2>2. \A d \in Calls : call'[d].op = call[d].op /\ (At(d, "halt", "persist")' =>
                                                      At(d, "halt", "persist"))
    BY <2>1, TaskDoneStep DEF At
  <2>3. Storing' => Storing \/ halt'.mem
    BY <2>1, <2>2 DEF Storing
  <2>4. mode # "off"
    BY <1>5 DEF EngineEnds, ModeInv, OffInv, Active
  <2> QED
    BY <2>1, <2>2, <2>3, <2>4, ModeFrame DEF Flat
<1>6. CASE HaltRaised
  <2>1. mode # "off" /\ halt'.mem /\ UNCHANGED <<mode, call, books>>
    BY <1>6, RaisedType DEF HaltRaised, Up
  <2> QED
    BY <2>1, ModeFrame DEF Flat
<1>7. CASE PersistHalt
  <2>1. /\ mode # "off" /\ halt'.mem = halt.mem /\ ~halt'.writing
        /\ UNCHANGED <<mode, call, books>>
    BY <1>7 DEF PersistHalt, VarTypes, ModeInv, OffInv
  <2>2. Storing' => Storing
    BY <2>1 DEF Storing, At
  <2> QED
    BY <2>1, <2>2, ModeFrame DEF Flat
<1>8. ASSUME NEW md \in Modes, Boot(md) PROVE ModeInv'
  <2>1. /\ mode' # "off" /\ call' = call /\ ~halt'.writing
        /\ \A c \in Calls : call[c] = NoCall
    BY <1>8, ControlAssumption DEF Boot, VarTypes, ModeInv, OffInv
  <2> QED
    BY <2>1, NoCallLemma DEF ModeInv, OffInv, AckInv, StoreInv, Storing, At
<1>9. CASE Shutdown
  <2>1. PICK done \in SUBSET {m \in Markets : Active(m) /\ TRUE \in Confirms(m)} :
          /\ HaltUnless(\A m \in Markets : Active(m) => m \in done)
          /\ books' = [m \in Markets |-> [books[m] EXCEPT !.resting = @ /\ m \notin done]]
    BY <1>9 DEF Shutdown
  <2>2. mode # "off" /\ UNCHANGED <<mode, call>> /\ (halt' = halt \/ halt'.mem)
    BY <1>9, <2>1, RaisedType DEF Shutdown, Up, HaltUnless
  <2>3. Flat => Flat'
    BY <2>1 DEF Flat, BookType
  <2>4. Storing' => Storing \/ halt'.mem
    BY <2>2 DEF Storing, At
  <2> QED
    BY <2>2, <2>3, <2>4, ModeFrame
<1>10. CASE Exit \/ Crash
  <2>1. Gone
    BY <1>10 DEF Exit, Crash
  <2>2. /\ ~halt'.mem /\ ~halt'.writing /\ ~closing' /\ mode' = "off"
        /\ \A c \in Calls : call'[c] = NoCall
        /\ \A m \in Markets : ~Active(m)'
    BY <2>1 DEF Gone, NoTasks, Active
  <2>3. NoCall' = NoCall
    BY DEF NoCall, AnyMarket
  <2> QED
    BY <2>2, <2>3, NoCallLemma DEF ModeInv, OffInv, AckInv, StoreInv, Storing, At
<1> QED
  BY <1>1, <1>2, <1>3, <1>4, <1>5, <1>6, <1>7, <1>8, <1>9, <1>10 DEF Next

-------------------------------------------------------------------------------
\* The argument holds when the process is not up yet.
LEMMA InvInit == Init => IInv
<1> SUFFICES ASSUME Init PROVE IInv
  OBVIOUS
<1>1. VarTypes /\ BookType
  BY DEF Init, VarTypes, BookType, NoTasks
<1>2. CallType
  BY NoCallType DEF Init, CallType
<1>3. (\A c \in Calls : call[c] = NoCall) /\ \A m \in Markets : ~Active(m)
  BY DEF Init, NoTasks, Active
<1>4. TableInv
  BY <1>3, NoCallLemma DEF Init, TableInv, OneEngine, LockInv, StartInv, QuietInv, HoldsLock
<1>5. ModeInv
  BY <1>3, NoCallLemma DEF Init, ModeInv, OffInv, AckInv, StoreInv, Storing, At
<1> QED
  BY <1>1, <1>2, <1>4, <1>5 DEF IInv

\* Every step keeps the argument.
LEMMA InvStep == IInv /\ [Next]_vars => IInv'
<1>1. CASE IInv /\ Next
  BY <1>1, TypeStep, TableStep, ModeStep DEF IInv
<1>2. CASE IInv /\ UNCHANGED vars
  BY <1>2 DEF vars, table, IInv, VarTypes, TableInv, ModeInv, LockInv, OneEngine, CallType, BookType, StartInv, QuietInv,
     OffInv, AckInv, StoreInv, HoldsLock, Active, Starting, Storing, At, Flat
<1> QED
  BY <1>1, <1>2

\* The argument holds in every reachable state.
LEMMA InvHolds == Spec => []IInv
  BY InvInit, InvStep, PTL DEF Spec

\* The variables keep their types, and a market's start lock has one holder.
THEOREM TypeCorrect == Spec => []TypeOK
<1>1. IInv => TypeOK
  BY TypeParts DEF IInv, TableInv
<1> QED
  BY <1>1, InvHolds, PTL

\* However requests, failing starts, engine exits and crashes interleave, no
\* start replaces a task that still runs: engine_tasks knows every engine.
THEOREM OneEngineHolds == Spec => []OneEngine
<1>1. IInv => OneEngine
  BY DEF IInv, TableInv
<1> QED
  BY <1>1, InvHolds, PTL

\* Once stop_market_tasks has returned with no start in progress, the market
\* runs no engine until a start is requested again.
THEOREM QuietHolds == Spec => []QuietAfterStop
<1>1. IInv => QuietAfterStop
  BY DEF IInv, TableInv, QuietInv, QuietAfterStop
<1> QED
  BY <1>1, InvHolds, PTL

-------------------------------------------------------------------------------
\* The steps of StickyHalt in the variables of ControlPlane.
Blocked == halt.mem \/ Storing
Trading == mode \in {"paper", "live"}

\* What StickyHalt does not see changes nothing in it.
LEMMA StutterMap ==
  ASSUME mode' = mode, Flat' <=> Flat, Blocked' <=> Blocked, halt'.db = halt.db
  PROVE  UNCHANGED Halt!vars
  BY DEF Halt!vars, Blocked

\* A step that leaves new risk blocked, and the stored halt as it is, is a Raise.
LEMMA RaiseMap ==
  ASSUME mode # "off", mode' = mode, Flat' <=> Flat, halt'.db = halt.db, Blocked'
  PROVE  Halt!Next
  BY DEF Halt!Next, Halt!Raise, Blocked

\* A block that ends while trading is disabled is an Unblock.
LEMMA UnblockMap ==
  ASSUME mode = "disabled", mode' = mode, Flat' <=> Flat, halt'.db = halt.db, ~Blocked'
  PROVE  Halt!Next
  BY DEF Halt!Next, Halt!Unblock, Blocked

\* A halt that is stored is a Store.
LEMMA StoreMap ==
  ASSUME mode # "off", mode' = mode, Flat' <=> Flat, halt'.db = TRUE,
         Blocked, Blocked' \/ mode = "disabled"
  PROVE  Halt!Next
  BY DEF Halt!Next, Halt!Store, Blocked

\* The operator's resume is an Acknowledge.
LEMMA AcknowledgeMap ==
  ASSUME mode = "disabled", mode' = mode, Flat, Flat', halt.db = TRUE, halt'.db = FALSE,
         Blocked' <=> Blocked
  PROVE  Halt!Next
  BY DEF Halt!Next, Halt!Acknowledge, Blocked

\* A step that moves the books of a trading process is a Trade.
LEMMA TradeMap ==
  ASSUME Trading, mode' = mode, halt'.db = halt.db, Blocked' <=> Blocked
  PROVE  Halt!Next
  BY DEF Halt!Next, Halt!Trade, Blocked, Trading, Flat

\* A boot is a Start.
LEMMA StartMap ==
  ASSUME mode = "off", mode' # "off", Flat' <=> Flat, halt'.db = halt.db,
         halt'.mem = halt.db, halt.db \in BOOLEAN, ~Storing'
  PROVE  Halt!Next
<1>1. (halt.mem \/ Storing)' = halt.db
  <2>1. CASE halt.db = TRUE
    BY <2>1
  <2>2. CASE halt.db = FALSE
    BY <2>2
  <2> QED
    BY <2>1, <2>2
<1>2. (mode \in {"paper", "live"})' \in BOOLEAN
  OBVIOUS
<1>3. ~(mode # "off") /\ (mode # "off")'
  OBVIOUS
<1>4. Flat' = Flat
  BY DEF Flat
<1> QED
  BY <1>1, <1>2, <1>3, <1>4 DEF Halt!Next, Halt!Start

\* The end of the process is an End.
LEMMA EndMap ==
  ASSUME mode # "off", mode' = "off", Flat' <=> Flat, halt'.db = halt.db, ~Blocked'
  PROVE  Halt!Next
  BY DEF Halt!Next, Halt!End, Blocked

\* A step that leaves mode, books and stored halt alone and does not end a halt
\* is a raise or no step of StickyHalt.
LEMMA KeepMap ==
  ASSUME mode # "off", mode' = mode, Flat' <=> Flat, halt'.db = halt.db,
         Blocked => Blocked'
  PROVE  Halt!Next \/ UNCHANGED Halt!vars
<1>1. CASE Blocked'
  BY <1>1, RaiseMap
<1>2. CASE ~Blocked'
  BY <1>2, StutterMap
<1> QED
  BY <1>1, <1>2

\* The steps of a call: all but the halt's store, the cancels and the
\* acknowledgement leave everything StickyHalt sees, or raise a halt.
LEMMA CallMap ==
  ASSUME IInv, NEW c \in Calls, CallStep(c)
  PROVE  Halt!Next \/ UNCHANGED Halt!vars
<1> USE DEF IInv, Blocked
<1>0. /\ call[c] # NoCall /\ mode # "off" /\ call[c].m \in Markets
      /\ mode' = mode
  <2>1. call[c] # NoCall /\ mode' = mode
    BY NoCallLemma DEF CallStep, StartLocked, StartCommit, StartLaunch, StartFails,
       HaltPersist, HaltNext, HaltReturns, CancelMarketOrders, StopTasks, StopReturns,
       AckCommit, AckClear, At
  <2> QED
    BY <2>1 DEF ModeInv, OffInv, CallType, CallRecords
<1>1. ASSUME ~HaltPersist(c), ~AckCommit(c), ~AckClear(c), ~CancelMarketOrders(c)
      PROVE  Halt!Next \/ UNCHANGED Halt!vars
  <2>1. books' = books /\ (halt' = halt \/ HaltUnless(FALSE))
    BY <1>1 DEF CallStep, StartLocked, StartCommit, StartLaunch, StartFails,
       HaltNext, HaltReturns, StopTasks, StopReturns, HaltUnless
  <2>2. ~At(c, "halt", "persist")
    BY <1>1 DEF CallStep, StartLocked, StartCommit, StartLaunch, StartFails,
       HaltNext, HaltReturns, StopTasks, StopReturns, At
  <2>3. \A d \in Calls \ {c} : call'[d] = call[d]
    BY <1>1, ReturnMove, PlaceMove, StoppedType, CallChange
    DEF CallStep, StartLocked, StartCommit, StartLaunch, StartFails,
        HaltNext, HaltReturns, StopTasks, StopReturns, Places, CallType
  <2>4. Storing => Storing' \/ halt'.mem
    BY <2>1, <2>2, <2>3, HaltUnlessStep DEF Storing, At
  <2> QED
    BY <1>0, <2>1, <2>4, HaltUnlessStep, KeepMap DEF Flat
<1>2. CASE HaltPersist(c)
  <2>1. books' = books /\ halt'.mem = halt.mem /\ halt'.db \in {TRUE, halt.db} /\ Blocked
    BY <1>2 DEF HaltPersist, VarTypes, Storing
  <2>2. CASE halt'.db = TRUE
    <3>1. Blocked' \/ mode = "disabled"
      BY <2>1 DEF ModeInv, StoreInv
    <3> QED
      BY <1>0, <2>1, <2>2, <3>1, StoreMap DEF Flat
  <2>3. CASE halt'.db = halt.db
    <3>1. CASE Blocked'
      BY <1>0, <2>1, <2>3, <3>1, RaiseMap DEF Flat
    <3>2. CASE ~Blocked'
      <4>1. mode = "disabled"
        BY <2>1, <3>2 DEF ModeInv, StoreInv
      <4> QED
        BY <1>0, <2>1, <2>3, <3>2, <4>1, UnblockMap DEF Flat
    <3> QED
      BY <3>1, <3>2
  <2> QED
    BY <2>1, <2>2, <2>3
<1>3. CASE AckCommit(c) \/ AckClear(c)
  <2>1. /\ mode = "disabled" /\ Flat /\ books' = books /\ halt'.writing = halt.writing
    BY <1>3 DEF AckCommit, AckClear, At, VarTypes, ModeInv, AckInv
  <2>2. /\ \A d \in Calls \ {c} : call'[d] = call[d]
        /\ call'[c] = NoCall \/ (call'[c].op = call[c].op /\ call'[c].at = "clear")
    BY <1>3, ReturnMove, PlaceMove DEF AckCommit, AckClear, Places
  <2>3. Storing' <=> Storing
    BY <1>3, <2>1, <2>2, NoCallLemma DEF AckCommit, AckClear, Storing, At
  <2>4. Flat'
    BY <2>1 DEF Flat
  <2>5. CASE AckCommit(c) /\ halt.db = TRUE
    <3>1. halt'.mem = halt.mem /\ halt'.db = FALSE
      BY <2>5 DEF AckCommit, VarTypes
    <3> QED
      BY <1>0, <2>1, <2>3, <2>4, <2>5, <3>1, AcknowledgeMap
  <2>6. CASE AckCommit(c) /\ halt.db # TRUE
    <3>1. halt' = halt
      BY <2>6 DEF AckCommit, VarTypes
    <3> QED
      BY <1>0, <2>1, <2>3, <2>4, <3>1, StutterMap
  <2>7. CASE AckClear(c)
    <3>1. halt'.db = halt.db /\ ~halt'.mem
      BY <2>7 DEF AckClear, VarTypes
    <3>2. CASE Storing
      BY <1>0, <2>1, <2>3, <2>4, <3>1, <3>2, StutterMap
    <3>3. CASE ~Storing
      BY <1>0, <2>1, <2>3, <2>4, <3>1, <3>3, UnblockMap
    <3> QED
      BY <3>2, <3>3
  <2> QED
    BY <1>3, <2>5, <2>6, <2>7
<1>4. CASE CancelMarketOrders(c)
  <2>1. PICK ok \in Confirms(call[c].m) :
          /\ books' = IF ok THEN [books EXCEPT ![call[c].m].resting = FALSE] ELSE books
          /\ IF call[c].op = "kill"
             THEN HaltUnless(ok) /\ Return(c)
             ELSE /\ call' = [call EXCEPT ![c].at = AfterCancel(c), ![c].ok = ok]
                  /\ UNCHANGED halt
    BY <1>4 DEF CancelMarketOrders
  <2>2. /\ \A d \in Calls \ {c} : call'[d] = call[d]
        /\ call'[c] = NoCall \/ call'[c].at \in {"next", "tasks"}
    <3>1. CASE Return(c)
      BY <3>1, ReturnMove
    <3>2. CASE call' = [call EXCEPT ![c].at = AfterCancel(c), ![c].ok = ok]
      BY <3>2, AfterCancelPlace DEF CallType, CallRecords
    <3> QED
      BY <2>1, <3>1, <3>2
  <2>3. ok \in BOOLEAN /\ (ok /\ books[call[c].m].resting => mode # "disabled")
    BY DEF Confirms
  <2>4. CASE books' = books
    <3>1. halt'.db = halt.db /\ (halt.mem => halt'.mem) /\ (halt' = halt \/ halt'.mem)
      BY <2>1, <2>3, RaisedType DEF HaltUnless
    <3>2. Storing => Storing' \/ halt'.mem
      BY <1>4, <2>2, <3>1 DEF CancelMarketOrders, Storing, At
    <3> QED
      BY <1>0, <2>4, <3>1, <3>2, KeepMap DEF Flat
  <2>5. CASE books' # books
    <3>1. ok /\ books[call[c].m].resting
      <4>1. SUFFICES ASSUME ~books[call[c].m].resting
                     PROVE  [books EXCEPT ![call[c].m].resting = FALSE] = books
        BY <2>1, <2>5
      <4>2. [books[call[c].m] EXCEPT !.resting = FALSE] = books[call[c].m]
        BY <1>0, <4>1 DEF BookType
      <4> QED
        BY <1>0, <4>2 DEF BookType
    <3>2. halt' = halt /\ Trading
      BY <1>0, <2>1, <2>3, <3>1, ControlAssumption DEF HaltUnless, VarTypes, Trading
    <3>3. Storing' <=> Storing
      BY <1>4, <2>2, <3>2, NoCallLemma DEF CancelMarketOrders, Storing, At
    <3> QED
      BY <1>0, <3>2, <3>3, TradeMap
  <2> QED
    BY <2>4, <2>5
<1> QED
  BY <1>1, <1>2, <1>3, <1>4

\* The other steps.
LEMMA StepMap ==
  ASSUME IInv, Next
  PROVE  Halt!Next \/ UNCHANGED Halt!vars
<1> USE DEF IInv, Blocked
<1>1. ASSUME NEW c \in Calls, CallStep(c) PROVE Halt!Next \/ UNCHANGED Halt!vars
  BY <1>1, CallMap
<1>2. ASSUME NEW c \in Calls, Request(c) PROVE Halt!Next \/ UNCHANGED Halt!vars
  <2>0. AnyMarket \in Markets
    BY ControlAssumption DEF AnyMarket
  <2>1. mode # "off" /\ UNCHANGED <<mode, books>>
    BY <1>2 DEF Request, StartRequest, StopRequest, KillSwitch, HaltRequest, AckRequest,
       Wipe, Up
  <2>2. /\ call' = call \/ call[c] = NoCall
        /\ \A d \in Calls \ {c} : call'[d] = call[d]
    BY <1>2, <2>0, EnterMove DEF Request, StartRequest, StopRequest, KillSwitch,
       HaltRequest, AckRequest, Wipe, Ops, Places
  <2>3. halt' = halt \/ halt' = Raised
    BY <1>2 DEF Request, StartRequest, StopRequest, KillSwitch, HaltRequest, AckRequest,
       Wipe
  <2>4. Storing => Storing' \/ halt'.mem
    BY <2>2, <2>3, NoCallLemma, RaisedType DEF Storing, At
  <2> QED
    BY <2>1, <2>3, <2>4, RaisedType, KeepMap DEF Flat
<1>3. ASSUME NEW m \in Markets, MarkRead(m) \/ MarkExited(m)
      PROVE  Halt!Next \/ UNCHANGED Halt!vars
  <2>1. UNCHANGED <<mode, halt, call, books>>
    BY <1>3 DEF MarkRead, MarkExited
  <2> QED
    BY <2>1, StutterMap DEF Flat, Storing, At
<1>4. ASSUME NEW m \in Markets, Trade(m) PROVE Halt!Next \/ UNCHANGED Halt!vars
  <2>1. Trading /\ UNCHANGED <<mode, halt, call>>
    BY <1>4 DEF Trade, Trading
  <2> QED
    BY <2>1, TradeMap DEF Storing, At
<1>5. ASSUME NEW m \in Markets, NEW t \in Tokens, EngineEnds(m, t)
      PROVE  Halt!Next \/ UNCHANGED Halt!vars
  <2>1. TaskDone(m, t) /\ UNCHANGED <<mode, books>> /\ (halt' = halt \/ halt' = Raised)
    BY <1>5 DEF EngineEnds, HaltUnless
  <2>2. \A d \in Calls : At(d, "halt", "persist") => At(d, "halt", "persist")'
    BY <2>1 DEF TaskDone, At
  <2>3. Storing => Storing' \/ halt'.mem
    BY <2>1, <2>2, RaisedType DEF Storing
  <2>4. mode # "off"
    BY <1>5 DEF EngineEnds, ModeInv, OffInv, Active
  <2> QED
    BY <2>1, <2>3, <2>4, RaisedType, KeepMap DEF Flat
<1>6. CASE HaltRaised
  <2>1. mode # "off" /\ halt' = Raised /\ UNCHANGED <<mode, call, books>>
    BY <1>6 DEF HaltRaised, Up
  <2> QED
    BY <2>1, RaisedType, RaiseMap DEF Flat
<1>7. CASE PersistHalt
  <2>1. /\ Blocked /\ mode # "off" /\ halt'.mem = halt.mem
        /\ UNCHANGED <<mode, call, books>> /\ halt'.db \in {TRUE, halt.db}
    BY <1>7 DEF PersistHalt, VarTypes, Storing, ModeInv, OffInv
  <2>2. ~Blocked' => mode = "disabled"
    BY <1>7, <2>1 DEF PersistHalt, Storing, ModeInv, StoreInv
  <2>3. CASE halt'.db = TRUE
    BY <2>1, <2>2, <2>3, StoreMap DEF Flat
  <2>4. CASE halt'.db = halt.db /\ Blocked'
    BY <2>1, <2>4, RaiseMap DEF Flat
  <2>5. CASE halt'.db = halt.db /\ ~Blocked'
    BY <2>1, <2>2, <2>5, UnblockMap DEF Flat
  <2> QED
    BY <2>1, <2>3, <2>4, <2>5
<1>8. ASSUME NEW md \in Modes, Boot(md) PROVE Halt!Next \/ UNCHANGED Halt!vars
  <2>1. /\ mode = "off" /\ mode' # "off" /\ UNCHANGED <<call, books>>
        /\ halt'.db = halt.db /\ halt'.mem = halt.db /\ halt.db \in BOOLEAN
        /\ ~halt'.writing
        /\ \A c \in Calls : call[c] = NoCall
    BY <1>8, ControlAssumption DEF Boot, VarTypes, ModeInv, OffInv
  <2>2. ~Storing'
    BY <2>1, NoCallLemma DEF Storing, At
  <2> QED
    BY <2>1, <2>2, StartMap DEF Flat
<1>9. CASE Shutdown
  <2>1. PICK done \in SUBSET {m \in Markets : Active(m) /\ TRUE \in Confirms(m)} :
          /\ \A m \in Markets : Active(m) /\ m \notin done => FALSE \in Confirms(m)
          /\ HaltUnless(\A m \in Markets : Active(m) => m \in done)
          /\ books' = [m \in Markets |-> [books[m] EXCEPT !.resting = @ /\ m \notin done]]
    BY <1>9 DEF Shutdown
  <2>2. mode # "off" /\ UNCHANGED <<mode, call>>
    BY <1>9 DEF Shutdown, Up
  <2>3. CASE \E m \in Markets : Active(m) /\ m \notin done
    <3>1. PICK m \in Markets : m \notin done /\ FALSE \in Confirms(m)
      BY <2>1, <2>3
    <3>2. ~Flat /\ ~Flat'
      BY <2>1, <3>1 DEF Confirms, Flat, BookType
    <3>3. halt' = Raised
      BY <2>1, <2>3 DEF HaltUnless
    <3> QED
      BY <2>2, <3>2, <3>3, RaisedType, RaiseMap
  <2>4. CASE ~\E m \in Markets : Active(m) /\ m \notin done
    <3>1. halt' = halt
      BY <2>1, <2>4 DEF HaltUnless
    <3>2. Storing' <=> Storing
      BY <2>2, <3>1 DEF Storing, At
    <3>3. CASE Trading
      BY <2>2, <3>1, <3>2, <3>3, TradeMap
    <3>4. CASE ~Trading
      <4>1. mode = "disabled"
        BY <2>2, <3>4, ControlAssumption DEF VarTypes, Trading
      <4>2. \A m \in done : ~books[m].resting
        BY <4>1 DEF Confirms
      <4>3. Flat' <=> Flat
        BY <2>1, <4>2 DEF Flat, BookType
      <4> QED
        BY <2>2, <3>1, <3>2, <4>3, StutterMap
    <3> QED
      BY <3>3, <3>4
  <2> QED
    BY <2>3, <2>4
<1>10. CASE Exit \/ Crash
  <2>1. Gone /\ mode # "off"
    BY <1>10 DEF Exit, Crash, ModeInv, OffInv
  <2>2. mode' = "off" /\ books' = books /\ halt'.db = halt.db /\ ~Blocked'
    BY <2>1, NoCallLemma DEF Gone, Storing, At
  <2> QED
    BY <2>1, <2>2, EndMap DEF Flat
<1> QED
  BY <1>1, <1>2, <1>3, <1>4, <1>5, <1>6, <1>7, <1>8, <1>9, <1>10 DEF Next

\* The initial states of the control plane are initial states of StickyHalt.
LEMMA InitMap == Init => Halt!Init
<1> SUFFICES ASSUME Init PROVE Halt!Init
  OBVIOUS
<1>1. mode = "off" /\ ~halt.mem /\ halt.db = FALSE
  BY DEF Init
<1>2. ~Storing
  BY NoCallLemma DEF Init, Storing, At
<1>3. Flat = TRUE
  BY DEF Init, Flat
<1>4. (mode # "off") = FALSE /\ (mode \in {"paper", "live"}) = FALSE
  BY <1>1
<1>5. (halt.mem \/ Storing) = FALSE
  BY <1>1, <1>2
<1> QED
  BY <1>1, <1>3, <1>4, <1>5 DEF Halt!Init

\* The control plane implements StickyHalt: a halt blocks at once, survives
\* restarts once stored, and only an acknowledgement in a disabled process
\* with flat books ends it, whatever interleaves, fails or crashes.
THEOREM HaltRefinement == Spec => ImplementsStickyHalt
<1>1. IInv /\ [Next]_vars => [Halt!Next]_(Halt!vars)
  <2>1. CASE IInv /\ Next
    BY <2>1, StepMap
  <2>2. CASE UNCHANGED vars
    BY <2>2 DEF vars, Halt!vars, Flat, Storing, At
  <2> QED
    BY <2>1, <2>2
<1> QED
  BY <1>1, InitMap, InvHolds, PTL DEF Spec, Halt!Spec, ImplementsStickyHalt
===============================================================================
