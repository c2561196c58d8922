------------------------- MODULE InventoryLedgerProofs -------------------------
(***************************************************************************)
(* Proofs about InventoryLedger, for any outcomes, fills, handlers, prices *)
(* and faults.                                                             *)
(*                                                                         *)
(* The argument is one of versions: every booking is one version more,     *)
(* under the row lock, so a row in anybody's hands is either the committed *)
(* one or has a smaller version.  The one writer that breaks this is the   *)
(* position pass, which shows its row before it commits; it halts first,   *)
(* and a halt is never lifted within a process.                            *)
(***************************************************************************)
EXTENDS InventoryLedger, DataInduction, FiniteSetTheorems

Copies == [expo : [Outcomes -> Nat], capital : [Outcomes -> Nat], version : Nat]
IsSeen(s) == DOMAIN s \in SUBSET Outcomes /\ s \in [DOMAIN s -> Nat]

\* Where each coroutine stands, with what it carries there.
HandlerStates ==
    [pc : {"idle"}] \union [pc : {"process", "failing", "halting", "publish"}, fill : Fills]
      \union [pc : {"apply"}, fill : Fills, row : Copies]
PassStates ==
    [pc : {"idle"}] \union [pc : {"locked"}, row : Rows, safe : BOOLEAN]
      \union [pc : {"report"}, safe : BOOLEAN]
LoadStates == [pc : {"idle"}] \union [pc : {"read"}, row : Copies]

RowType  == ledger \in Rows
BookType ==
    /\ event \in [Fills -> [status : {"none", "RECEIVED", "PROCESSED", "FAILED"},
                            version : Nat]]
    /\ order \in [Fills -> {"none", "open", "matched", "settled"}]
WorldType == /\ chain \in [Outcomes -> Nat] /\ transfers \in 0 .. MaxTransfers
             /\ categorical \in BOOLEAN /\ faults \in 0 .. MaxFaults
FlagType  == /\ phase \in {"down", "held", "run"}
             /\ {recent, halted, booksReady, positionsReady} \subseteq BOOLEAN
MirrorType  == mirror = Absent \/ mirror \in Copies
HandlerType == handler \in [Handlers -> HandlerStates]
PassType == \/ pass \in PassStates
            \/ /\ pass = [pc |-> "fetch", seen |-> pass.seen, safe |-> pass.safe]
              /\ IsSeen(pass.seen) /\ pass.safe \in BOOLEAN
LoadType == load \in LoadStates
CheckType == check.pc \in {"idle", "totals"}
CutType == cut \subseteq [pc : {"process", "apply", "publish", "failing", "halting"},
                          fill : Fills]
Types == /\ RowType /\ BookType /\ WorldType /\ FlagType /\ MirrorType
         /\ HandlerType /\ PassType /\ LoadType /\ CheckType /\ CutType

\* Nothing of a process runs outside phase "run", and a restart finds no entry.
RunInv == /\ phase # "run" => /\ \A h \in Handlers : handler[h] = Idle
                              /\ pass = Idle /\ load = Idle
          /\ phase = "down" => mirror = Absent
          /\ phase = "held" => halted

\* The row under the lock is the committed one, or the pass has halted.
LockInv == pass.pc = "locked" => halted \/ pass.row = ledger

\* A handler that ends in a halt, or was cut off on its way there.
Marked(f) == \E c \in Attempts : c.pc \in {"failing", "halting"} /\ c.fill = f
\* Books that are not complete, in a process that has not halted yet: the handler
\* of the fill that made them so has not finished, or was cut off.
BlockInv ==
    phase = "run" /\ ~halted =>
        /\ ledger.accounting # "v2" => \E f \in Fills \ FeeKnown : Unfinished(f)
        /\ \A f \in Fills : event[f].status = "FAILED" => Marked(f)

\* A row in memory is the committed one or older than it, and then the fill of
\* the committed one has not been applied.  A handler applies the row of its fill.
Behind(row)  == row = Copied(ledger) \/ row.version < ledger.version
Pending(row) == row.version < ledger.version => Unapplied
MirrorInv ==
    ~halted =>
        /\ \A h \in Handlers : handler[h].pc = "apply" =>
              /\ Behind(handler[h].row)
              /\ event[handler[h].fill] = [status |-> "PROCESSED",
                                           version |-> handler[h].row.version]
        /\ mirror # Absent => Behind(mirror) /\ Pending(mirror)
        /\ mirror = Absent /\ load.pc = "read" => Behind(load.row) /\ Pending(load.row)

SafeInv == RunInv /\ LockInv /\ BlockInv /\ MirrorInv

\* While the ledger is v2 no two fills share a version, so that the replay books
\* the fill that was booked; a pass writes it back or takes the v2 away.
OneEach == \A f, g \in Processed : event[f].version = event[g].version => f = g
ReplayInv == /\ IsFiniteSet(Processed)
             /\ ledger.accounting = "v2" =>
                   Contiguous(ledger) /\ OneEach /\ ledger = Replay[ledger.version]
             /\ pass.pc = "locked" => pass.row = ledger \/ pass.row.accounting # "v2"

IInv == Types /\ SafeInv /\ ReplayInv

-------------------------------------------------------------------------------
\* Arithmetic of the books.

\* A part of a cost in proportion to a part of the shares is at most the cost.
LEMMA ShareOfCost ==
  ASSUME NEW cost \in Nat, NEW part \in Nat, NEW whole \in Nat, whole > 0, part <= whole
  PROVE  (cost * part) \div whole \in 0 .. cost
<1> DEFINE q == (cost * part) \div whole
<1>1. cost * part \in Nat /\ cost * part <= cost * whole
  OBVIOUS
<1>2. q \in Nat /\ q * whole <= cost * part
  BY <1>1
<1>3. q <= cost
  <2>1. SUFFICES ASSUME q >= cost + 1 PROVE FALSE
    BY <1>2
  <2>2. q * whole >= (cost + 1) * whole
    BY <1>2, <2>1
  <2>3. (cost + 1) * whole = cost * whole + whole
    OBVIOUS
  <2> QED
    BY <1>1, <1>2, <2>2, <2>3
<1> QED
  BY <1>2, <1>3

\* What a fill may be.
LEMMA TermsType ==
  ASSUME NEW f \in Fills
  PROVE  /\ Terms[f].side \in {"BUY", "SELL"} /\ Terms[f].outcome \in Outcomes
         /\ Terms[f].size \in Nat /\ Terms[f].size > 0
         /\ Terms[f].price \in Nat /\ Terms[f].limit \in Nat
         /\ Fee(f) \in Nat
  BY LedgerAssumption DEF Fee

\* A fill that is not refused leaves a row of the schema.
LEMMA BookedType ==
  ASSUME NEW row \in Rows, NEW f \in Fills,
         Terms[f].side = "SELL" => Terms[f].size <= row.expo[Terms[f].outcome]
  PROVE  /\ Booked(row, f) \in Rows
         /\ Booked(row, f).version = row.version
         /\ Booked(row, f).accounting = row.accounting
<1> DEFINE t == Terms[f]
           o == t.outcome
           removed == (row.capital[o] * t.size) \div row.expo[o]
<1>1. /\ t.side \in {"BUY", "SELL"} /\ o \in Outcomes /\ t.size \in Nat /\ t.size > 0
      /\ t.price \in Nat /\ Fee(f) \in Nat
      /\ row.expo[o] \in Nat /\ row.capital[o] \in Nat /\ row.pnl \in Int
  BY TermsType DEF Rows
<1>2. CASE t.side = "BUY"
  <2> DEFINE e == row.expo[o] + t.size
             c == row.capital[o] + t.size * t.price + Fee(f)
  <2>1. e \in Nat /\ c \in Nat
    BY <1>1
  <2>2. Booked(row, f) = [row EXCEPT !.expo[o] = e, !.capital[o] = c]
    BY <1>2 DEF Booked
  <2> HIDE DEF e, c
  <2>3. Booked(row, f) = [row EXCEPT !.expo = [row.expo EXCEPT ![o] = e],
                                     !.capital = [row.capital EXCEPT ![o] = c]]
    BY <2>2 DEF Rows
  <2>4. /\ [row.expo EXCEPT ![o] = e] \in [Outcomes -> Nat]
        /\ [row.capital EXCEPT ![o] = c] \in [Outcomes -> Nat]
    BY <1>1, <2>1 DEF Rows
  <2> QED
    BY <2>3, <2>4 DEF Rows
<1>3. CASE t.side = "SELL"
  <2> DEFINE e == row.expo[o] - t.size
             c == row.capital[o] - removed
             p == row.pnl + t.size * t.price - Fee(f) - removed
  <2>1. removed \in 0 .. row.capital[o]
    <3>1. row.expo[o] > 0 /\ t.size <= row.expo[o]
      BY <1>1, <1>3
    <3> HIDE DEF t, o
    <3> QED
      BY <1>1, <3>1, ShareOfCost
  <2>2. e \in Nat /\ c \in Nat
    <3> HIDE DEF removed
    <3> QED
      BY <1>1, <1>3, <2>1
  <2>3. p \in Int
    <3>1. removed \in Int
      BY <1>1, <2>1
    <3> HIDE DEF removed
    <3> QED
      BY <1>1, <3>1
  <2>4. Booked(row, f) = [row EXCEPT !.expo[o] = e, !.capital[o] = c, !.pnl = p]
    BY <1>1, <1>3 DEF Booked
  <2> HIDE DEF e, c, p
  <2>5. Booked(row, f) = [row EXCEPT !.expo = [row.expo EXCEPT ![o] = e],
                                     !.capital = [row.capital EXCEPT ![o] = c],
                                     !.pnl = p]
    BY <2>4 DEF Rows
  <2>6. /\ [row.expo EXCEPT ![o] = e] \in [Outcomes -> Nat]
        /\ [row.capital EXCEPT ![o] = c] \in [Outcomes -> Nat]
    BY <1>1, <2>2 DEF Rows
  <2> QED
    BY <2>3, <2>5, <2>6 DEF Rows
<1> QED
  BY <1>1, <1>2, <1>3

\* The row a fill leaves, in ledger and copy.
LEMMA FillRowType ==
  ASSUME RowType, NEW f \in Fills, ~Refuses(f)
  PROVE  /\ FillRow(f) \in Rows /\ FillRow(f).version = ledger.version + 1
         /\ FillRow(f).accounting = IF f \in FeeKnown THEN ledger.accounting
                                    ELSE "v2_fee_incomplete"
         /\ ledger.accounting = "v2"
<1>1. /\ Booked(ledger, f) \in Rows /\ Booked(ledger, f).version = ledger.version
      /\ Booked(ledger, f).accounting = ledger.accounting /\ ledger.version \in Nat
  <2>1. Terms[f].side = "SELL" => Terms[f].size <= ledger.expo[Terms[f].outcome]
    <3>1. Terms[f].size \in Nat /\ ledger.expo[Terms[f].outcome] \in Nat
      BY TermsType DEF RowType, Rows
    <3> QED
      BY <3>1 DEF Refuses
  <2> QED
    BY <2>1, BookedType DEF RowType, Rows
<1>2. ledger.accounting = "v2" /\ ledger.version + 1 \in Nat
  BY <1>1 DEF Refuses
<1> DEFINE b == Booked(ledger, f)
           a == IF f \in FeeKnown THEN b.accounting ELSE "v2_fee_incomplete"
<1>3. FillRow(f) = [b EXCEPT !.version = b.version + 1, !.accounting = a]
  BY <1>1 DEF FillRow, Rows
<1>4. a \in {"v2", "v2_fee_incomplete"}
  BY <1>1, <1>2
<1>5. a = IF f \in FeeKnown THEN ledger.accounting ELSE "v2_fee_incomplete"
  BY <1>1
<1> HIDE DEF a, b
<1> QED
  BY <1>1, <1>2, <1>3, <1>4, <1>5 DEF Rows, b

\* The snapshot of a row is a copy with its version.
LEMMA CopyType ==
  ASSUME NEW row \in Rows
  PROVE  Copied(row) \in Copies /\ Copied(row).version = row.version
  BY DEF Rows, Copies, Copied

\* The capital a reconciliation writes is a natural number.
LEMMA ReconciledType ==
  ASSUME NEW actual \in Nat, NEW size \in Nat, NEW capital \in Nat
  PROVE  ReconciledCapital(actual, size, capital) \in Nat
<1>1. Dollar \in Nat
  BY LedgerAssumption
<1>2. actual * Dollar \in Nat
  BY <1>1
<1>3. CASE actual = 0 \/ size = 0 \/ capital = 0
  BY <1>2, <1>3 DEF ReconciledCapital
<1>4. CASE ~(actual = 0 \/ size = 0 \/ capital = 0) /\ actual <= size
  <2>1. (capital * actual) \div size \in 0 .. capital
    BY <1>4, ShareOfCost
  <2> QED
    BY <1>4, <2>1 DEF ReconciledCapital
<1>5. CASE ~(actual = 0 \/ size = 0 \/ capital = 0) /\ ~(actual <= size)
  <2>1. (actual - size) * Dollar \in Nat
    BY <1>1, <1>5
  <2> QED
    BY <1>5, <2>1 DEF ReconciledCapital
<1> QED
  BY <1>3, <1>4, <1>5

\* The row of an overwrite.
LEMMA OverwrittenType ==
  ASSUME RowType, NEW seen, IsSeen(seen), DOMAIN seen = Outcomes
  PROVE  Overwritten(seen) \in Rows
<1> DEFINE c == [o \in Outcomes |->
                   ReconciledCapital(seen[o], ledger.expo[o], ledger.capital[o])]
<1>1. seen \in [Outcomes -> Nat]
  BY DEF IsSeen
<1>2. c \in [Outcomes -> Nat]
  BY <1>1, ReconciledType DEF RowType, Rows
<1>3. Overwritten(seen) = [ledger EXCEPT !.expo = seen, !.capital = c,
                           !.version = ledger.version + 1,
                           !.accounting = "unverified_external"]
  BY DEF Overwritten, RowType, Rows
<1>4. ledger.version + 1 \in Nat /\ ledger.pnl \in Int
  BY DEF RowType, Rows
<1>5. Overwritten(seen) = [expo |-> seen, capital |-> c, pnl |-> ledger.pnl,
                           version |-> ledger.version + 1,
                           accounting |-> "unverified_external"]
  BY <1>3 DEF RowType, Rows
<1> HIDE DEF c
<1> QED
  BY <1>1, <1>2, <1>4, <1>5 DEF Rows

-------------------------------------------------------------------------------
\* The schema holds through every step.

\* What a handler carries where it stands.
LEMMA HandlerAt ==
  ASSUME HandlerType, NEW h \in Handlers
  PROVE  /\ handler[h] \in HandlerStates
         /\ handler[h].pc \in {"idle", "process", "apply", "failing", "halting", "publish"}
         /\ handler[h].pc # "idle" => handler[h].fill \in Fills
         /\ handler[h].pc = "apply" => handler[h].row \in Copies
         /\ handler[h].pc = "idle" => handler[h] = Idle
  BY DEF HandlerType, HandlerStates, Idle

\* The states a handler moves to are states of a handler.
LEMMA GotoType ==
  ASSUME HandlerType, NEW h \in Handlers, NEW s \in HandlerStates, Goto(h, s)
  PROVE  HandlerType'
  BY DEF HandlerType, Goto

\* The places a handler can go to are handler states.
LEMMA TargetType ==
  ASSUME NEW f \in Fills
  PROVE  /\ Idle \in HandlerStates
         /\ \A p \in {"process", "failing", "halting", "publish"} :
               [pc |-> p, fill |-> f] \in HandlerStates
         /\ \A r \in Copies : [pc |-> "apply", fill |-> f, row |-> r] \in HandlerStates
  BY DEF HandlerStates, Idle

\* An applied row is a copy again.
LEMMA AppliedType ==
  ASSUME RowType, MirrorType, NEW r \in Copies
  PROVE  Applied(r) \in Copies
<1>1. Copied(ledger) \in Copies
  BY CopyType DEF RowType
<1> QED
  BY <1>1 DEF Applied, MirrorType

\* The initial states have the types.
LEMMA TypesInit == Init => Types
<1> SUFFICES ASSUME Init PROVE Types
  OBVIOUS
<1>1. Zero \in [Outcomes -> Nat]
  BY DEF Zero
<1>2. RowType
  BY <1>1 DEF Init, RowType, Rows, Empty
<1>3. BookType /\ FlagType /\ MirrorType
  BY DEF Init, BookType, FlagType, MirrorType
<1>4. WorldType
  <2>1. MaxTransfers \in Nat /\ MaxFaults \in Nat
    BY LedgerAssumption
  <2>2. chain = Zero /\ transfers = 0 /\ categorical = FALSE /\ faults = 0
    BY DEF Init
  <2>3. 0 \in 0 .. MaxTransfers /\ 0 \in 0 .. MaxFaults
    BY <2>1
  <2> QED
    BY <1>1, <2>2, <2>3 DEF WorldType
<1>5. HandlerType /\ PassType /\ LoadType
  BY DEF Init, HandlerType, HandlerStates, PassType, PassStates, LoadType, LoadStates, Idle
<1>6. CheckType /\ CutType
  BY DEF Init, CheckType, CutType, Idle
<1> QED
  BY <1>2, <1>3, <1>4, <1>5, <1>6 DEF Types

\* The steps of the orders, the market and the wallet.
LEMMA TypesWorld ==
  ASSUME Types,
         \/ \E f \in Fills : Place(f) \/ Match(f) \/ Settle(f)
         \/ \E o \in Outcomes : Transfer(o)
         \/ ResolveOutcomes \/ BufferExpires \/ CheckTotals
  PROVE  Types'
<1> USE DEF Types, RowType, BookType, WorldType, FlagType, MirrorType, HandlerType,
            PassType, LoadType, CheckType, CutType, books, world, memory, tasks, flags, trace
<1>1. ASSUME NEW f \in Fills, Place(f) \/ Match(f) PROVE Types'
  BY <1>1 DEF Place, Match
<1>2. ASSUME NEW f \in Fills, Settle(f) PROVE Types'
  <2> DEFINE t == Terms[f]
             n == chain[t.outcome] + (IF t.side = "BUY" THEN t.size ELSE - t.size)
  <2>1. n \in Nat
    BY <1>2, TermsType DEF Settle
  <2>2. chain' = [chain EXCEPT ![t.outcome] = n]
    BY <1>2 DEF Settle
  <2>3. chain' \in [Outcomes -> Nat]
    <3> HIDE DEF n
    <3> QED
      BY <2>1, <2>2
  <2> QED
    BY <1>2, <2>3 DEF Settle
<1>3. ASSUME NEW o \in Outcomes, Transfer(o) PROVE Types'
  <2>1. PICK n \in {-1, 1} : chain[o] + n >= 0 /\ chain' = [chain EXCEPT ![o] = @ + n]
    BY <1>3 DEF Transfer
  <2>2. chain' \in [Outcomes -> Nat]
    BY <2>1
  <2>3. transfers' \in 0 .. MaxTransfers
    BY <1>3, LedgerAssumption DEF Transfer
  <2> QED
    BY <1>3, <2>2, <2>3 DEF Transfer
<1>4. CASE ResolveOutcomes
  BY <1>4 DEF ResolveOutcomes
<1>5. CASE BufferExpires
  BY <1>5 DEF BufferExpires
<1>6. CASE CheckTotals
  BY <1>6 DEF CheckTotals
<1> QED
  BY <1>1, <1>2, <1>3, <1>4, <1>5, <1>6

\* The steps of the fill processor.
LEMMA TypesHandle ==
  ASSUME Types, NEW h \in Handlers,
         Handle(h) \/ HandlerCanceled(h) \/ \E f \in Fills : Receive(h, f)
  PROVE  Types'
<1> DEFINE F == handler[h].fill
<1>1. /\ handler[h].pc # "idle" => F \in Fills
      /\ handler[h].pc = "apply" => handler[h].row \in Copies
  BY HandlerAt DEF Types
<1>2. ASSUME NEW s \in HandlerStates, Goto(h, s) PROVE HandlerType'
  BY <1>2, GotoType DEF Types
<1> USE DEF Types, RowType, BookType, WorldType, FlagType, MirrorType, PassType,
            LoadType, CheckType, CutType, books, world, memory, tasks, flags, trace, At
<1>3. ASSUME NEW f \in Fills, Receive(h, f) PROVE Types'
  <2>1. HandlerType'
    BY <1>2, <1>3, TargetType DEF Receive
  <2>2. event' \in [Fills -> [status : {"none", "RECEIVED", "PROCESSED", "FAILED"},
                              version : Nat]]
    BY <1>3 DEF Receive
  <2> QED
    BY <1>3, <2>1, <2>2 DEF Receive
<1>4. CASE Duplicate(h)
  <2>1. HandlerType'
    BY <1>1, <1>2, <1>4, TargetType DEF Duplicate
  <2> QED
    BY <1>4, <2>1 DEF Duplicate
<1>5. ASSUME InTransaction(h), Booking(F)
      PROVE  /\ F \in Fills /\ FillRow(F) \in Rows /\ ledger' \in Rows
             /\ Copied(FillRow(F)) \in Copies
             /\ event' \in [Fills -> [status : {"none", "RECEIVED", "PROCESSED", "FAILED"},
                                      version : Nat]]
  <2>1. F \in Fills
    BY <1>1, <1>5 DEF InTransaction
  <2>2. FillRow(F) \in Rows /\ FillRow(F).version = ledger.version + 1
    BY <1>5, <2>1, FillRowType DEF Booking
  <2>3. Copied(FillRow(F)) \in Copies /\ ledger.version + 1 \in Nat
    BY <2>2, CopyType DEF Rows
  <2>4. ledger' = FillRow(F)
    BY <1>5 DEF Booking
  <2>5. event' = [event EXCEPT ![F] = [status |-> "PROCESSED",
                                       version |-> ledger.version + 1]]
    BY <1>5 DEF Booking
  <2> QED
    BY <2>1, <2>2, <2>3, <2>4, <2>5
<1>6. CASE FillCommit(h)
  <2>1. InTransaction(h) /\ Booking(F)
    BY <1>6 DEF FillCommit
  <2>2. HandlerType'
    BY <1>2, <1>5, <1>6, <2>1, TargetType DEF FillCommit
  <2> QED
    BY <1>5, <1>6, <2>1, <2>2 DEF FillCommit
<1>7. CASE FillCommitRaises(h)
  <2>1. InTransaction(h) /\ Booking(F)
    BY <1>7 DEF FillCommitRaises
  <2>2. HandlerType'
    BY <1>2, <1>5, <1>7, <2>1, TargetType DEF FillCommitRaises
  <2>3. faults' \in 0 .. MaxFaults
    BY <1>7, LedgerAssumption DEF FillCommitRaises, Fault
  <2> QED
    BY <1>5, <1>7, <2>1, <2>2, <2>3 DEF FillCommitRaises
<1>8. CASE FillRefused(h)
  <2>1. HandlerType'
    BY <1>1, <1>2, <1>8, TargetType DEF FillRefused, InTransaction
  <2>2. faults' \in 0 .. MaxFaults
    BY <1>8, LedgerAssumption DEF FillRefused, Fault
  <2> QED
    BY <1>8, <2>1, <2>2 DEF FillRefused
<1>9. Failed(F) \in [Fills -> [status : {"none", "RECEIVED", "PROCESSED", "FAILED"},
                               version : Nat]]
  BY <1>1 DEF Failed
<1>10. CASE MarkFailed(h)
  <2>1. HandlerType'
    BY <1>1, <1>2, <1>10, TargetType DEF MarkFailed
  <2> QED
    BY <1>9, <1>10, <2>1 DEF MarkFailed
<1>11. CASE HaltFailed(h)
  <2>1. HandlerType'
    BY <1>1, <1>2, <1>11, TargetType DEF HaltFailed
  <2> QED
    BY <1>11, <2>1 DEF HaltFailed
<1>12. CASE FillApply(h)
  <2>1. HandlerType'
    BY <1>1, <1>2, <1>12, TargetType DEF FillApply
  <2>2. mirror' \in Copies
    BY <1>1, <1>12, AppliedType DEF FillApply
  <2>3. recent' \in BOOLEAN
    BY <1>12 DEF FillApply
  <2> QED
    BY <1>12, <2>1, <2>2, <2>3 DEF FillApply
<1>13. CASE Publish(h)
  <2>1. HandlerType'
    BY <1>1, <1>2, <1>13, TargetType DEF Publish
  <2>2. booksReady' \in BOOLEAN /\ halted' \in BOOLEAN
    BY <1>13 DEF Publish
  <2> QED
    BY <1>13, <2>1, <2>2 DEF Publish
<1>14. ASSUME CutOff(h), handler[h].pc # "idle" PROVE HandlerType' /\ CutType'
  <2>1. HandlerType'
    BY <1>1, <1>2, <1>14, TargetType DEF CutOff
  <2>2. handler[h].pc \in {"process", "apply", "publish", "failing", "halting"}
    BY <1>14, HandlerAt
  <2> QED
    BY <1>1, <1>14, <2>1, <2>2 DEF CutOff
<1>15. ASSUME NEW k, Fault(k) PROVE faults' \in 0 .. MaxFaults
  BY <1>15, LedgerAssumption DEF Fault
<1>16. ASSUME Raises(h), handler[h].pc # "idle"
       PROVE  HandlerType' /\ CutType' /\ halted' \in BOOLEAN
  BY <1>14, <1>16 DEF Raises
<1>17. CASE MarkFailedRaises(h)
  <2>1. Raises(h) /\ handler[h].pc = "failing" /\ faults' \in 0 .. MaxFaults
    BY <1>15, <1>17 DEF MarkFailedRaises
  <2>2. HandlerType' /\ CutType' /\ halted' \in BOOLEAN
    BY <1>16, <2>1
  <2>3. BookType'
    BY <1>9, <1>17 DEF MarkFailedRaises
  <2> QED
    BY <1>17, <2>1, <2>2, <2>3 DEF MarkFailedRaises
<1>18. CASE FillApplyRaises(h) \/ PublishRaises(h)
  <2>1. Raises(h) /\ handler[h].pc # "idle" /\ faults' \in 0 .. MaxFaults
    BY <1>15, <1>18 DEF FillApplyRaises, PublishRaises
  <2>2. HandlerType' /\ CutType' /\ halted' \in BOOLEAN
    BY <1>16, <2>1
  <2> QED
    BY <1>18, <2>1, <2>2 DEF FillApplyRaises, PublishRaises
<1>19. CASE HandlerCanceled(h)
  <2>1. CutOff(h) /\ handler[h].pc # "idle" /\ faults' \in 0 .. MaxFaults
    BY <1>15, <1>19, HandlerAt DEF HandlerCanceled
  <2>2. HandlerType' /\ CutType'
    BY <1>14, <2>1
  <2> QED
    BY <1>19, <2>1, <2>2 DEF HandlerCanceled
<1> QED
  BY <1>3, <1>4, <1>6, <1>7, <1>8, <1>10, <1>11, <1>12, <1>13, <1>17, <1>18, <1>19
     DEF Handle

\* The steps of the position pass.
LEMMA TypesPass ==
  ASSUME Types, Pass
  PROVE  Types'
<1> USE DEF Types, RowType, BookType, WorldType, FlagType, MirrorType, HandlerType,
            LoadType, CheckType, CutType, books, world, memory, tasks, flags, trace
<1>1. CASE PassStart
  <2>1. PassType'
    BY <1>1 DEF PassStart, PassType, IsSeen
  <2> QED
    BY <1>1, <2>1 DEF PassStart
<1>2. ASSUME NEW o \in Outcomes, PassFetch(o) PROVE Types'
  <2>1. /\ pass = [pc |-> "fetch", seen |-> pass.seen, safe |-> pass.safe]
        /\ IsSeen(pass.seen) /\ pass.safe \in BOOLEAN
    BY <1>2 DEF PassFetch, PassType, PassStates
  <2> DEFINE s == [p \in DOMAIN pass.seen \cup {o} |->
                      IF p = o THEN chain[o] ELSE pass.seen[p]]
  <2>2. pass' = [pass EXCEPT !.seen = s]
    BY <1>2 DEF PassFetch
  <2>3. IsSeen(s)
    BY <2>1 DEF IsSeen
  <2> HIDE DEF s
  <2>4. pass' = [pc |-> "fetch", seen |-> s, safe |-> pass.safe]
    BY <2>1, <2>2
  <2>5. PassType'
    BY <2>1, <2>3, <2>4 DEF PassType
  <2> QED
    BY <1>2, <2>5 DEF PassFetch
<1>3. CASE PassFetchFails \/ PassCommitFails \/ PassCanceled
  <2>1. PassType'
    BY <1>3 DEF PassFetchFails, PassCommitFails, PassCanceled, PassType, PassStates, Idle
  <2>2. faults' \in 0 .. MaxFaults
    BY <1>3, LedgerAssumption DEF PassFetchFails, PassCommitFails, PassCanceled, Fault
  <2> QED
    BY <1>3, <2>1, <2>2 DEF PassFetchFails, PassCommitFails, PassCanceled
<1>4. ASSUME NEW r \in Rows, NEW b \in BOOLEAN, Lock(r, b) PROVE PassType'
  BY <1>4 DEF Lock, PassType, PassStates
<1>5. CASE PassAgrees \/ PassDefers
  <2>1. pass.safe \in BOOLEAN
    BY <1>5 DEF PassAgrees, PassDefers, Locking, PassType, PassStates
  <2>2. PassType'
    BY <1>4, <1>5, <2>1 DEF PassAgrees, PassDefers
  <2> QED
    BY <1>5, <2>2 DEF PassAgrees, PassDefers
<1>6. CASE PassOverwrites
  <2>1. IsSeen(pass.seen) /\ DOMAIN pass.seen = Outcomes
    BY <1>6 DEF PassOverwrites, Locking, PassType, PassStates
  <2>2. Overwritten(pass.seen) \in Rows
    BY <2>1, OverwrittenType
  <2>3. PassType'
    BY <1>4, <1>6, <2>2 DEF PassOverwrites
  <2>4. mirror' \in Copies
    BY <1>6, <2>2, CopyType, AppliedType DEF PassOverwrites
  <2> QED
    BY <1>6, <2>3, <2>4 DEF PassOverwrites
<1>7. CASE PassCommit
  <2>1. pass.row \in Rows /\ pass.safe \in BOOLEAN
    BY <1>7 DEF PassCommit, PassType, PassStates
  <2>2. PassType'
    BY <1>7, <2>1 DEF PassCommit, PassType, PassStates
  <2> QED
    BY <1>7, <2>1, <2>2 DEF PassCommit
<1>8. CASE PassReport
  <2>1. pass.safe \in BOOLEAN
    BY <1>8 DEF PassReport, PassType, PassStates
  <2>2. PassType'
    BY <1>8 DEF PassReport, PassType, PassStates, Idle
  <2> QED
    BY <1>8, <2>1, <2>2 DEF PassReport
<1>9. CASE PassFindsUnknown
  <2>1. PICK seen : /\ pass = [pc |-> "fetch", seen |-> seen, safe |-> pass.safe]
                    /\ IsSeen(seen)
    BY <1>9 DEF PassFindsUnknown, Locking, PassType, PassStates
  <2>2. pass' = [pass EXCEPT !.safe = FALSE]
    BY <1>9 DEF PassFindsUnknown
  <2>3. ASSUME NEW b PROVE [pass EXCEPT !.safe = b] = [pc |-> "fetch", seen |-> seen, safe |-> b]
    BY <2>1
  <2>4. pass' = [pc |-> "fetch", seen |-> seen, safe |-> FALSE]
    BY <2>2, <2>3, Zenon
  <2>5. PassType'
    BY <2>1, <2>4 DEF PassType
  <2>6. faults' \in 0 .. MaxFaults
    BY <1>9, LedgerAssumption DEF PassFindsUnknown, Fault
  <2> QED
    BY <1>9, <2>5, <2>6 DEF PassFindsUnknown
<1> QED
  BY <1>1, <1>2, <1>3, <1>5, <1>6, <1>7, <1>8, <1>9 DEF Pass

\* The readers of the entry in memory, and the process.
LEMMA TypesProcess ==
  ASSUME Types, LoadRead \/ LoadStore \/ CheckVerdict \/ Crash \/ Boot
  PROVE  Types'
<1>0. Copied(ledger) \in Copies
  BY CopyType DEF Types, RowType
<1> USE DEF Types, RowType, BookType, WorldType, FlagType, MirrorType,
            CheckType, CutType, books, world, memory, tasks, flags, trace
<1>1. CASE LoadRead
  <2>1. LoadType'
    BY <1>0, <1>1 DEF LoadRead, LoadType, LoadStates
  <2> QED
    BY <1>1, <2>1 DEF LoadRead, HandlerType, PassType
<1>2. CASE LoadStore
  <2>1. load.row \in Copies
    BY <1>2 DEF LoadStore, LoadType, LoadStates
  <2>2. LoadType' /\ MirrorType'
    BY <1>2, <2>1 DEF LoadStore, LoadType, LoadStates, Idle
  <2> QED
    BY <1>2, <2>2 DEF LoadStore, HandlerType, PassType
<1>3. CASE CheckVerdict
  <2>1. MirrorType'
    BY <1>0, <1>3 DEF CheckVerdict
  <2>2. check'.pc = "idle"
    BY <1>3 DEF CheckVerdict, Idle
  <2>3. halted' \in BOOLEAN
    BY <1>3 DEF CheckVerdict
  <2> QED
    BY <1>3, <2>1, <2>2, <2>3 DEF CheckVerdict, HandlerType, PassType, LoadType
<1>4. CASE Crash
  <2>1. HandlerType' /\ PassType' /\ LoadType'
    BY <1>4 DEF Crash, HandlerType, HandlerStates, PassType, PassStates, LoadType,
                LoadStates, Idle
  <2>2. faults' \in 0 .. MaxFaults
    BY <1>4, LedgerAssumption DEF Crash, Fault
  <2>3. CheckType' /\ CutType'
    BY <1>4 DEF Crash, Idle
  <2> QED
    BY <1>4, <2>1, <2>2, <2>3 DEF Crash
<1>5. CASE Boot
  <2>1. AuditPasses(ledger) \in BOOLEAN
    BY DEF AuditPasses
  <2>2. booksReady' \in BOOLEAN /\ halted' \in BOOLEAN
    BY <1>5, <2>1 DEF Boot
  <2> QED
    BY <1>0, <1>5, <2>2 DEF Boot, HandlerType, PassType, LoadType
<1> QED
  BY <1>1, <1>2, <1>3, <1>4, <1>5

\* Every step keeps the types.
LEMMA TypesStep ==
  ASSUME Types, [Next]_vars
  PROVE  Types'
<1>1. CASE UNCHANGED vars
  BY <1>1 DEF Types, RowType, BookType, WorldType, FlagType, MirrorType, HandlerType,
              PassType, LoadType, CheckType, CutType, trace, vars, books, world, memory, tasks, flags
<1> QED
  BY <1>1, TypesWorld, TypesHandle, TypesPass, TypesProcess DEF Next, Check

\* The schema of the books and the states of every coroutine, after any
\* interleaving of fills, passes, transfers and crashes: no position and no
\* cost ever goes below zero.
THEOREM TypeCorrect == Spec => []TypeOK
<1>1. Types => TypeOK
  <2>1. SUFFICES ASSUME Types PROVE TypeOK
    OBVIOUS
  <2>2. \A h \in Handlers : handler[h].pc \in {"idle", "process", "apply", "failing",
                                               "halting", "publish"}
    BY <2>1, HandlerAt DEF Types
  <2>3. pass.pc \in {"idle", "fetch", "locked", "report"} /\ load.pc \in {"idle", "read"}
    BY <2>1 DEF Types, PassType, PassStates, LoadType, LoadStates
  <2> QED
    BY <2>1, <2>2, <2>3 DEF Types, RowType, BookType, WorldType, FlagType, MirrorType,
                            CheckType, CutType, TypeOK, Copies
<1> QED
  BY <1>1, TypesInit, TypesStep, PTL DEF Spec

-------------------------------------------------------------------------------
\* Blocking and the entry in memory.

\* A copy is never the absent entry.
LEMMA PresentCopy ==
  ASSUME NEW r \in Copies
  PROVE  r # Absent /\ r.version \in Nat
  BY DEF Copies, Absent

\* In a running process that has halted nothing is left to show.
LEMMA SafeHalted ==
  ASSUME phase' = "run", halted'
  PROVE  SafeInv'
  BY DEF SafeInv, RunInv, LockInv, BlockInv, MirrorInv

\* A step that leaves books, entry and handlers alone.
LEMMA SafeFrame ==
  ASSUME SafeInv, halted => halted', LockInv', phase = "run" \/ pass' = pass,
         UNCHANGED <<ledger, event, phase, mirror, handler, load, cut>>
  PROVE  SafeInv'
<1>1. RunInv'
  BY DEF SafeInv, RunInv
<1>2. BlockInv'
  BY DEF SafeInv, BlockInv, Unfinished, Marked, Attempts
<1>3. MirrorInv'
  BY DEF SafeInv, MirrorInv, Behind, Pending, Unapplied, Attempts
<1> QED
  BY <1>1, <1>2, <1>3 DEF SafeInv

\* The argument about blocks holds initially.
LEMMA SafeInit == Init => SafeInv
  BY DEF Init, SafeInv, RunInv, LockInv, BlockInv, MirrorInv, Idle, Empty

\* Orders, the wallet, and the start of the exposure check.
LEMMA SafeWorld ==
  ASSUME Types, SafeInv,
         \/ \E f \in Fills : Place(f) \/ Match(f) \/ Settle(f)
         \/ \E o \in Outcomes : Transfer(o)
         \/ ResolveOutcomes \/ BufferExpires \/ CheckTotals
  PROVE  SafeInv'
<1>1. UNCHANGED <<ledger, event, phase, mirror, handler, load, pass, halted, cut>>
  <2> USE DEF books, world, memory, tasks, flags, trace
  <2>1. ASSUME NEW f \in Fills, Place(f) \/ Match(f) \/ Settle(f)
        PROVE  UNCHANGED <<ledger, event, phase, mirror, handler, load, pass, halted, cut>>
    BY <2>1 DEF Place, Match, Settle
  <2>2. ASSUME NEW o \in Outcomes, Transfer(o)
        PROVE  UNCHANGED <<ledger, event, phase, mirror, handler, load, pass, halted, cut>>
    BY <2>2 DEF Transfer
  <2>3. CASE ResolveOutcomes \/ BufferExpires \/ CheckTotals
    BY <2>3 DEF ResolveOutcomes, BufferExpires, CheckTotals
  <2> QED
    BY <2>1, <2>2, <2>3
<1>2. LockInv'
  BY <1>1 DEF SafeInv, LockInv
<1> QED
  BY <1>1, <1>2, SafeFrame

\* A reconciliation pass keeps the argument.
LEMMA SafePass ==
  ASSUME Types, SafeInv, Pass
  PROVE  SafeInv'
<1> USE DEF books, world, memory, tasks, flags, trace
<1>1. CASE PassStart \/ (\E o \in Outcomes : PassFetch(o)) \/ PassFetchFails
           \/ PassCommitFails \/ PassCanceled \/ PassReport
  <2>1. /\ UNCHANGED <<ledger, event, phase, mirror, handler, load, halted, cut>>
        /\ phase = "run"
    BY <1>1 DEF PassStart, PassFetch, PassFetchFails, PassCommitFails, PassCanceled,
                PassReport
  <2>2. pass'.pc # "locked"
    <3>1. ASSUME NEW o \in Outcomes, PassFetch(o) PROVE pass'.pc = "fetch"
      <4>1. pass = [pc |-> "fetch", seen |-> pass.seen, safe |-> pass.safe]
        BY <3>1 DEF PassFetch, Types, PassType, PassStates
      <4> QED
        BY <3>1, <4>1 DEF PassFetch
    <3> QED
      BY <1>1, <3>1 DEF PassStart, PassFetchFails, PassCommitFails, PassCanceled,
                       PassReport, Idle
  <2> QED
    BY <2>1, <2>2, SafeFrame DEF LockInv
<1>2. CASE PassAgrees \/ PassDefers
  <2>1. /\ UNCHANGED <<ledger, event, phase, mirror, handler, load, halted, cut>>
        /\ phase = "run" /\ pass'.row = ledger
    BY <1>2 DEF PassAgrees, PassDefers, Locking, Lock
  <2> QED
    BY <2>1, SafeFrame DEF LockInv
<1>3. CASE PassOverwrites \/ PassFindsUnknown
  BY <1>3, SafeHalted DEF PassOverwrites, PassFindsUnknown, Locking
<1>4. CASE PassCommit
  <2>1. CASE halted
    BY <1>4, <2>1, SafeHalted DEF PassCommit
  <2>2. CASE ~halted
    <3>1. pass.row = ledger
      BY <1>4, <2>2 DEF PassCommit, SafeInv, LockInv
    <3> QED
      BY <1>4, <2>2, <3>1, SafeFrame DEF PassCommit, LockInv
  <2> QED
    BY <2>1, <2>2
<1> QED
  BY <1>1, <1>2, <1>3, <1>4 DEF Pass

\* The load, the watchdog, a crash and a boot keep the argument.
LEMMA SafeProcess ==
  ASSUME Types, SafeInv, LoadRead \/ LoadStore \/ CheckVerdict \/ Crash \/ Boot
  PROVE  SafeInv'
<1> USE DEF books, world, memory, tasks, flags, trace
<1>0. /\ Copied(ledger) \in Copies /\ Copied(ledger).version = ledger.version
      /\ ledger.version \in Nat
  BY CopyType DEF Types, RowType, Rows
<1>1. CASE LoadRead
  <2>1. RunInv' /\ LockInv' /\ BlockInv'
    BY <1>1 DEF LoadRead, SafeInv, RunInv, LockInv, BlockInv, Unfinished, Marked, Attempts
  <2>2. load'.row = Copied(ledger) /\ mirror = Absent
    BY <1>1 DEF LoadRead
  <2>3. ~halted' =>
          \A g \in Handlers : handler[g].pc = "apply" =>
             /\ Behind(handler[g].row)
             /\ event[handler[g].fill] = [status |-> "PROCESSED",
                                          version |-> handler[g].row.version]
    BY <1>1 DEF LoadRead, SafeInv, MirrorInv
  <2>4. UNCHANGED <<ledger, event, handler, mirror>>
    BY <1>1 DEF LoadRead
  <2>5. ~(load'.row.version < ledger.version)
    BY <1>0, <2>2
  <2>6. MirrorInv'
    BY <2>2, <2>3, <2>4, <2>5 DEF MirrorInv, Behind, Pending
  <2> QED
    BY <2>1, <2>6 DEF SafeInv
<1>2. CASE LoadStore
  <2>1. RunInv' /\ LockInv' /\ BlockInv'
    BY <1>2 DEF LoadStore, SafeInv, RunInv, LockInv, BlockInv, Unfinished, Marked, Attempts
  <2>2. UNCHANGED <<ledger, event, handler, halted, cut>> /\ load' = Idle
    BY <1>2 DEF LoadStore
  <2>3. mirror' = IF mirror = Absent THEN load.row ELSE mirror
    BY <1>2 DEF LoadStore
  <2>4. load.pc = "read"
    BY <1>2 DEF LoadStore
  <2>5. ASSUME ~halted PROVE Behind(mirror') /\ Pending(mirror')
    BY <2>3, <2>4, <2>5 DEF SafeInv, MirrorInv
  <2>6. MirrorInv'
    BY <2>2, <2>5 DEF SafeInv, MirrorInv, Behind, Pending, Unapplied, Attempts, Idle
  <2> QED
    BY <2>1, <2>6 DEF SafeInv
<1>3. CASE CheckVerdict
  <2>1. CASE halted'
    BY <1>3, <2>1, SafeHalted DEF CheckVerdict
  <2>2. CASE ~halted'
    <3>0. ~halted
      BY <1>3, <2>2 DEF CheckVerdict
    <3>1. RunInv' /\ LockInv' /\ BlockInv'
      BY <1>3, <2>2, <3>0 DEF CheckVerdict, SafeInv, RunInv, LockInv, BlockInv, Unfinished, Marked, Attempts
    <3>2. UNCHANGED <<ledger, event, handler, load, cut>>
      BY <1>3 DEF CheckVerdict
    <3>3. mirror' = IF mirror = Absent THEN Copied(ledger) ELSE mirror
      BY <1>3 DEF CheckVerdict
    <3>4. mirror' # Absent
      BY <1>0, <3>3, PresentCopy
    <3>5. Behind(mirror') /\ Pending(mirror')
      BY <1>0, <3>0, <3>3 DEF SafeInv, MirrorInv, Behind, Pending
    <3>6. MirrorInv'
      BY <3>0, <3>2, <3>4, <3>5 DEF SafeInv, MirrorInv, Behind, Pending, Unapplied,
                                         Attempts
    <3> QED
      BY <3>1, <3>6 DEF SafeInv
  <2> QED
    BY <2>1, <2>2
<1>4. CASE Crash
  BY <1>4 DEF Crash, SafeInv, RunInv, LockInv, BlockInv, MirrorInv, Idle
<1>5. CASE Boot
  <2>1. pass = Idle /\ load = Idle /\ \A h \in Handlers : handler[h] = Idle
    BY <1>5 DEF Boot, SafeInv, RunInv
  <2>2. /\ UNCHANGED <<ledger, event, handler, pass, load>>
        /\ mirror' = Copied(ledger)
        /\ phase' = IF halted' THEN "held" ELSE "run"
    BY <1>5 DEF Boot
  <2>3. ~halted' => /\ ledger.accounting = "v2"
                    /\ \A f \in Fills : event[f].status # "FAILED"
    BY <1>5 DEF Boot, AuditPasses
  <2>4. RunInv' /\ LockInv'
    BY <2>1, <2>2 DEF RunInv, LockInv, Idle
  <2>5. BlockInv'
    BY <2>2, <2>3 DEF BlockInv
  <2>6. MirrorInv'
    BY <1>0, <2>1, <2>2 DEF MirrorInv, Behind, Pending, Idle
  <2> QED
    BY <2>4, <2>5, <2>6 DEF SafeInv
<1> QED
  BY <1>1, <1>2, <1>3, <1>4, <1>5

\* Who answers for a fill after a step of a handler: everyone who did, unless the
\* handler itself went on.
LEMMA AttemptsKept ==
  ASSUME HandlerType, NEW h \in Handlers, NEW s, Goto(h, s), cut \subseteq cut'
  PROVE  /\ s \in Attempts'
         /\ \A c \in Attempts : c # handler[h] => c \in Attempts'
         /\ \A g \in Handlers : g # h => handler'[g] = handler[g]
         /\ handler'[h] = s
<1>1. /\ \A g \in Handlers : g # h => handler'[g] = handler[g]
      /\ handler'[h] = s
  BY DEF Goto, HandlerType
<1> QED
  BY <1>1 DEF Attempts

\* A handler that moves on: what it stood for, it or its trace still stands for.
LEMMA SafeHandlerFrame ==
  ASSUME Types, SafeInv, NEW h \in Handlers, NEW s \in HandlerStates, Goto(h, s),
         UNCHANGED <<ledger, phase, mirror, pass, load, halted>>, phase = "run",
         cut \subseteq cut', s.pc # "apply",
         \/ handler[h].pc \in {"idle", "process"}
         \/ \E c \in Attempts' : /\ c.fill = handler[h].fill
                                 /\ \/ c.pc = handler[h].pc
                                    \/ c.pc = "halting" /\ handler[h].pc = "failing"
         \/ handler[h].pc = "publish" /\ handler[h].fill \in FeeKnown,
         \A f \in Fills : event[f].status = "PROCESSED" => event'[f] = event[f],
         \A f \in Fills : event'[f].status = "FAILED" =>
            event[f].status = "FAILED" \/ Marked(f)'
  PROVE  SafeInv'
<1>1. /\ \A c \in Attempts : c # handler[h] => c \in Attempts'
      /\ \A g \in Handlers : g # h => handler'[g] = handler[g]
      /\ handler'[h] = s
  BY AttemptsKept DEF Types
<1>2. RunInv' /\ LockInv'
  BY DEF SafeInv, RunInv, LockInv
<1>3. ASSUME NEW c \in Attempts, c.pc \in AfterBooking,
             c.pc # "publish" \/ c.fill \notin FeeKnown
      PROVE  \E d \in Attempts' : /\ d.fill = c.fill
                                  /\ \/ d.pc = c.pc
                                     \/ d.pc = "halting" /\ c.pc = "failing"
  BY <1>1, <1>3 DEF AfterBooking
<1>4. ASSUME ~halted PROVE BlockInv'
  <2>1. ASSUME ledger.accounting # "v2"
        PROVE  \E f \in Fills \ FeeKnown : Unfinished(f)'
    <3>1. PICK f \in Fills \ FeeKnown : Unfinished(f)
      BY <1>4, <2>1 DEF SafeInv, BlockInv
    <3>2. Unfinished(f)'
      BY <1>3, <3>1 DEF Unfinished, AfterBooking
    <3> QED
      BY <3>1, <3>2
  <2>2. ASSUME NEW f \in Fills, event'[f].status = "FAILED"
        PROVE  Marked(f)'
    <3>1. CASE Marked(f)
      BY <1>3, <3>1 DEF Marked, AfterBooking
    <3>2. CASE ~Marked(f)
      BY <1>4, <2>2, <3>2 DEF SafeInv, BlockInv
    <3> QED
      BY <3>1, <3>2
  <2> QED
    BY <2>1, <2>2 DEF BlockInv
<1>5. ASSUME ~halted PROVE MirrorInv'
  <2>1. Unapplied => Unapplied'
    <3>1. SUFFICES ASSUME NEW c \in Attempts, c.pc \in {"apply", "failing", "halting"},
                          event[c.fill] = [status |-> "PROCESSED",
                                           version |-> ledger.version]
                   PROVE  Unapplied'
      BY DEF Unapplied
    <3>2. PICK d \in Attempts' : /\ d.fill = c.fill
                                /\ \/ d.pc = c.pc
                                   \/ d.pc = "halting" /\ c.pc = "failing"
      BY <1>3, <3>1 DEF AfterBooking
    <3>3. c.fill \in Fills
      BY <3>1, HandlerAt DEF Attempts, Types, CutType
    <3>4. event'[d.fill] = [status |-> "PROCESSED", version |-> ledger.version]
      BY <3>1, <3>2, <3>3
    <3> QED
      BY <3>1, <3>2, <3>4 DEF Unapplied
  <2>2. ASSUME NEW g \in Handlers, handler'[g].pc = "apply"
        PROVE  /\ handler'[g] = handler[g] /\ Behind(handler[g].row)'
               /\ event'[handler[g].fill] = [status |-> "PROCESSED",
                                             version |-> handler[g].row.version]
    <3>1. handler'[g] = handler[g] /\ handler[g].fill \in Fills
      BY <1>1, <2>2, HandlerAt DEF Types
    <3>2. /\ Behind(handler[g].row)
          /\ event[handler[g].fill] = [status |-> "PROCESSED",
                                       version |-> handler[g].row.version]
      BY <1>5, <2>2, <3>1 DEF SafeInv, MirrorInv
    <3> QED
      BY <3>1, <3>2 DEF Behind
  <2>3. (Behind(mirror) => Behind(mirror)') /\ (Behind(load.row) => Behind(load.row)')
    BY DEF Behind
  <2>4. (Pending(mirror) => Pending(mirror)') /\ (Pending(load.row) => Pending(load.row)')
    BY <2>1 DEF Pending
  <2> QED
    BY <1>5, <2>2, <2>3, <2>4 DEF SafeInv, MirrorInv
<1>6. CASE halted
  BY <1>6, SafeHalted
<1> QED
  BY <1>2, <1>4, <1>5, <1>6 DEF SafeInv

\* A handler that is cut off leaves its trace.
LEMMA SafeCutOff ==
  ASSUME Types, SafeInv, NEW h \in Handlers, CutOff(h), handler[h].pc # "idle",
         UNCHANGED <<ledger, phase, mirror, pass, load>>, phase = "run",
         halted' \in {halted, TRUE},
         event' = event \/ (handler[h].pc = "failing" /\ event' = Failed(handler[h].fill))
  PROVE  SafeInv'
<1>0. PICK F \in Fills : F = handler[h].fill
  BY HandlerAt DEF Types
<1>1. Goto(h, Idle) /\ cut \subseteq cut' /\ [pc |-> handler[h].pc, fill |-> F] \in cut'
  BY <1>0 DEF CutOff
<1>2. \E c \in Attempts' : c.fill = F /\ c.pc = handler[h].pc
  BY <1>1 DEF Attempts
<1>3. Idle \in HandlerStates /\ Idle.pc = "idle"
  BY DEF HandlerStates, Idle
<1>4. \A f \in Fills : /\ event[f].status = "PROCESSED" => event'[f] = event[f]
                       /\ event'[f].status = "FAILED" =>
                             event[f].status = "FAILED" \/ Marked(f)'
  <2>1. CASE event' = event
    BY <2>1
  <2>2. CASE handler[h].pc = "failing" /\ event' = Failed(F)
    <3>1. Marked(F)'
      BY <1>2, <2>2 DEF Marked
    <3>2. \A f \in Fills : f = F \/ event'[f] = event[f]
      BY <1>0, <2>2 DEF Failed, Types, BookType
    <3>3. event[F].status = "PROCESSED" => event' = event
      BY <2>2 DEF Failed
    <3> QED
      BY <3>1, <3>2, <3>3
  <2> QED
    BY <1>0, <2>1, <2>2
<1>5. CASE halted' = TRUE
  BY <1>5, SafeHalted
<1>6. CASE halted' = halted
  BY <1>0, <1>1, <1>2, <1>3, <1>4, <1>6, SafeHandlerFrame
<1> QED
  BY <1>5, <1>6

\* A booking: every row is older now, and the handler that holds the new one,
\* or will halt, answers for them.
LEMMA SafeBooking ==
  ASSUME Types, SafeInv, NEW h \in Handlers, NEW s \in HandlerStates, Goto(h, s),
         InTransaction(h), Booking(handler[h].fill),
         UNCHANGED <<phase, mirror, pass, load, halted, cut>>,
         \/ s = [pc |-> "apply", fill |-> handler[h].fill,
                 row |-> Copied(FillRow(handler[h].fill))]
         \/ s = [pc |-> "failing", fill |-> handler[h].fill]
  PROVE  SafeInv'
<1> DEFINE F == handler[h].fill
<1>1. /\ \A g \in Handlers : g # h => handler'[g] = handler[g]
      /\ handler'[h] = s /\ s \in Attempts'
      /\ \A c \in Attempts : c # handler[h] => c \in Attempts'
  BY AttemptsKept DEF Types
<1>2. phase = "run" /\ handler[h].pc = "process" /\ F \in Fills /\ pass.pc # "locked"
      /\ event[F].status = "RECEIVED"
  BY HandlerAt DEF InTransaction, At, Types
<1>3. RunInv' /\ LockInv'
  BY <1>2 DEF SafeInv, RunInv, LockInv
<1>4. /\ FillRow(F) \in Rows /\ FillRow(F).version = ledger.version + 1
      /\ F \in FeeKnown => FillRow(F).accounting = "v2"
      /\ ledger' = FillRow(F) /\ ledger.version \in Nat
      /\ event' = [event EXCEPT ![F] = [status |-> "PROCESSED",
                                        version |-> ledger.version + 1]]
  BY <1>2, FillRowType DEF Booking, Types, RowType, Rows
<1>5. CASE halted
  BY <1>2, <1>5, SafeHalted
<1>6. ASSUME ~halted PROVE BlockInv'
  <2>1. ASSUME ledger'.accounting # "v2"
        PROVE  \E f \in Fills \ FeeKnown : Unfinished(f)'
    <3>1. F \in Fills \ FeeKnown /\ s.fill = F /\ s.pc \in AfterBooking
      BY <1>2, <1>4, <2>1 DEF AfterBooking
    <3> QED
      BY <1>1, <3>1 DEF Unfinished
  <2>2. ASSUME NEW f \in Fills, event'[f].status = "FAILED"
        PROVE  Marked(f)'
    <3>1. event[f].status = "FAILED"
      BY <1>2, <1>4, <2>2 DEF Types, BookType
    <3>2. Marked(f)
      BY <1>2, <1>6, <3>1 DEF SafeInv, BlockInv
    <3> QED
      BY <1>1, <1>2, <3>2 DEF Marked
  <2> QED
    BY <1>2, <2>1, <2>2 DEF BlockInv
<1>7. ASSUME ~halted PROVE MirrorInv'
  <2>1. /\ Copied(ledger).version = ledger.version
        /\ Copied(ledger').version = ledger.version + 1
    BY <1>4 DEF Copied
  <2>2. ASSUME NEW row, row.version \in Nat, Behind(row) PROVE row.version < ledger'.version
    BY <1>4, <2>1, <2>2 DEF Behind
  <2>3. event'[F] = [status |-> "PROCESSED", version |-> ledger'.version]
    BY <1>2, <1>4 DEF Types, BookType
  <2>4. ASSUME NEW g \in Handlers, handler'[g].pc = "apply"
        PROVE  /\ Behind(handler[g].row)'
               /\ event'[handler'[g].fill] = [status |-> "PROCESSED",
                                              version |-> handler'[g].row.version]
    <3>1. CASE g = h
      <4>1. handler'[g].fill = F /\ handler'[g].row = Copied(ledger')
        BY <1>1, <1>4, <2>4, <3>1
      <4> QED
        BY <1>4, <2>1, <2>3, <4>1 DEF Behind
    <3>2. CASE g # h
      <4>1. handler'[g] = handler[g] /\ handler[g].pc = "apply"
        BY <1>1, <2>4, <3>2
      <4>2. handler[g].row \in Copies /\ handler[g].fill \in Fills
        BY <4>1, HandlerAt DEF Types
      <4>3. /\ handler[g].row.version < ledger'.version
            /\ event[handler[g].fill] = [status |-> "PROCESSED",
                                         version |-> handler[g].row.version]
        BY <1>7, <2>2, <4>1, <4>2, PresentCopy DEF SafeInv, MirrorInv
      <4>4. handler[g].fill # F
        BY <1>2, <4>3
      <4>5. event'[handler[g].fill] = event[handler[g].fill]
        BY <1>4, <4>2, <4>4 DEF Types, BookType
      <4> QED
        BY <4>1, <4>3, <4>5 DEF Behind
    <3> QED
      BY <3>1, <3>2
  <2>5. mirror' # Absent => Behind(mirror)'
    <3>1. mirror # Absent => mirror \in Copies /\ mirror.version \in Nat
      BY PresentCopy DEF Types, MirrorType
    <3> QED
      BY <1>7, <2>2, <3>1 DEF SafeInv, MirrorInv, Behind
  <2>6. mirror' = Absent /\ load'.pc = "read" => Behind(load.row)'
    <3>1. load.pc = "read" => load.row \in Copies /\ load.row.version \in Nat
      BY PresentCopy DEF Types, LoadType, LoadStates
    <3> QED
      BY <1>7, <2>2, <3>1 DEF SafeInv, MirrorInv, Behind
  <2>7. Unapplied'
    <3>1. s.pc \in {"apply", "failing"} /\ s.fill = F
      OBVIOUS
    <3> QED
      BY <1>1, <2>3, <3>1 DEF Unapplied
  <2>8. Pending(mirror)' /\ Pending(load.row)'
    BY <2>7 DEF Pending
  <2> QED
    BY <2>4, <2>5, <2>6, <2>8 DEF MirrorInv
<1> QED
  BY <1>3, <1>5, <1>6, <1>7 DEF SafeInv

\* The newer of two rows is applied.  If it is not the committed one, the handler
\* that answered for the entry is not the one that applied.
LEMMA SafeApply ==
  ASSUME Types, SafeInv, NEW h \in Handlers, FillApply(h)
  PROVE  SafeInv'
<1> DEFINE F == handler[h].fill
           R == handler[h].row
           s == [pc |-> "publish", fill |-> F]
<1>1. /\ phase = "run" /\ handler[h].pc = "apply" /\ F \in Fills /\ R \in Copies
      /\ R.version \in Nat
  BY HandlerAt, PresentCopy DEF FillApply, At, Types
<1>2. /\ UNCHANGED <<ledger, event, phase, pass, load, halted, cut>> /\ Goto(h, s)
      /\ mirror' = Applied(R)
  BY DEF FillApply, books, world, tasks, flags, trace
<1>3. /\ \A g \in Handlers : g # h => handler'[g] = handler[g]
      /\ handler'[h] = s /\ s \in Attempts'
      /\ \A c \in Attempts : c # handler[h] => c \in Attempts'
  BY <1>2, AttemptsKept DEF Types
<1>5. /\ Copied(ledger) \in Copies /\ Copied(ledger).version = ledger.version
      /\ ledger.version \in Nat
  BY CopyType DEF Types, RowType, Rows
<1>6. RunInv' /\ LockInv'
  BY <1>1, <1>2 DEF SafeInv, RunInv, LockInv
<1>7. CASE halted
  BY <1>1, <1>2, <1>7, SafeHalted
<1>8. ASSUME ~halted PROVE BlockInv'
  <2>1. \A f \in Fills : Unfinished(f) => Unfinished(f)'
    <3> SUFFICES ASSUME NEW f \in Fills, NEW c \in Attempts,
                        c.pc \in AfterBooking, c.fill = f
                 PROVE  Unfinished(f)'
      BY DEF Unfinished
    <3>1. CASE c = handler[h]
      BY <1>3, <3>1 DEF Unfinished, AfterBooking
    <3>2. CASE c # handler[h]
      BY <1>3, <3>2 DEF Unfinished
    <3> QED
      BY <3>1, <3>2
  <2>2. \A f \in Fills : Marked(f) => Marked(f)'
    BY <1>1, <1>3 DEF Marked
  <2> QED
    BY <1>1, <1>2, <1>8, <2>1, <2>2 DEF SafeInv, BlockInv
<1>9. ASSUME ~halted PROVE MirrorInv'
  <2>1. /\ Behind(R) /\ (mirror # Absent => Behind(mirror) /\ Pending(mirror))
        /\ event[F] = [status |-> "PROCESSED", version |-> R.version]
    BY <1>1, <1>9 DEF SafeInv, MirrorInv
  <2>2. mirror # Absent => mirror \in Copies /\ mirror.version \in Nat
    BY PresentCopy DEF Types, MirrorType
  <2>3. mirror' \in {R, mirror, Copied(ledger)} /\ mirror' \in Copies
    BY <1>1, <1>2, AppliedType DEF Applied, Types
  <2>4. mirror' # Absent /\ (Behind(mirror') \/ mirror' = Absent)
    BY <2>1, <2>3, PresentCopy DEF Behind
  <2>5. ASSUME mirror'.version < ledger.version
        PROVE  mirror # Absent /\ mirror.version < ledger.version
               /\ R.version # ledger.version
    <3>1. CASE mirror = Absent
      BY <1>1, <1>2, <1>5, <2>5, <3>1 DEF Applied
    <3>2. CASE mirror # Absent /\ R.version < mirror.version
      <4>1. mirror' = mirror
        BY <1>2, <3>2 DEF Applied
      <4> QED
        BY <1>1, <1>5, <2>2, <2>5, <3>2, <4>1
    <3>3. CASE mirror # Absent /\ ~(R.version < mirror.version)
      <4>1. mirror' = R
        BY <1>2, <3>3 DEF Applied
      <4> QED
        BY <1>1, <1>5, <2>2, <2>5, <3>3, <4>1
    <3> QED
      BY <3>1, <3>2, <3>3
  <2>6. ASSUME mirror'.version < ledger.version
        PROVE  Unapplied'
    <3>1. PICK c \in Attempts :
             /\ c.pc \in {"apply", "failing", "halting"}
             /\ event[c.fill] = [status |-> "PROCESSED", version |-> ledger.version]
      BY <2>1, <2>5, <2>6 DEF Pending, Unapplied
    <3>2. c # handler[h]
      BY <2>1, <2>5, <2>6, <3>1
    <3> QED
      BY <1>2, <1>3, <3>1, <3>2 DEF Unapplied
  <2>7. ASSUME NEW g \in Handlers, handler'[g].pc = "apply"
        PROVE  /\ handler'[g] = handler[g] /\ Behind(handler[g].row)'
               /\ event'[handler[g].fill] = [status |-> "PROCESSED",
                                             version |-> handler[g].row.version]
    <3>1. handler'[g] = handler[g]
      BY <1>3, <2>7
    <3> QED
      BY <1>2, <1>9, <2>7, <3>1 DEF SafeInv, MirrorInv, Behind
  <2>8. Behind(mirror)' /\ Pending(mirror)'
    BY <1>2, <2>4, <2>6 DEF Behind, Pending
  <2> QED
    BY <2>4, <2>7, <2>8 DEF MirrorInv
<1> QED
  BY <1>6, <1>7, <1>8, <1>9 DEF SafeInv

\* The steps of a fill handler keep the argument.
LEMMA SafeHandle ==
  ASSUME Types, SafeInv, NEW h \in Handlers,
         Handle(h) \/ HandlerCanceled(h) \/ \E f \in Fills : Receive(h, f)
  PROVE  SafeInv'
<1> DEFINE F == handler[h].fill
<1> USE DEF books, world, memory, tasks, flags, trace, At
<1>1. handler[h].pc # "idle" => F \in Fills
  BY HandlerAt DEF Types
<1>2. ASSUME NEW f \in Fills, Receive(h, f) PROVE SafeInv'
  <2>1. \A g \in Fills : /\ event'[g].status = "FAILED" => event[g].status = "FAILED"
                         /\ event[g].status = "PROCESSED" => event'[g] = event[g]
    BY <1>2 DEF Receive, Types, BookType
  <2> DEFINE s == [pc |-> "process", fill |-> f]
  <2>2. s \in HandlerStates /\ s.pc = "process"
    BY TargetType
  <2>3. /\ UNCHANGED <<ledger, phase, mirror, pass, load, halted, cut>> /\ Goto(h, s)
        /\ phase = "run" /\ handler[h].pc = "idle"
    BY <1>2 DEF Receive
  <2> HIDE DEF s
  <2> QED
    BY <2>1, <2>2, <2>3, SafeHandlerFrame
<1>3. CASE Duplicate(h)
  <2>1. Idle \in HandlerStates /\ Idle.pc = "idle"
    BY DEF Idle, HandlerStates
  <2>2. /\ UNCHANGED <<ledger, event, phase, mirror, pass, load, halted, cut>> /\ Goto(h, Idle)
        /\ phase = "run" /\ handler[h].pc = "process"
    BY <1>3 DEF Duplicate
  <2> QED
    BY <2>1, <2>2, SafeHandlerFrame
<1>4. CASE FillRefused(h)
  <2> DEFINE s == [pc |-> "failing", fill |-> F]
  <2>1. /\ UNCHANGED <<ledger, event, phase, mirror, pass, load, halted, cut>> /\ Goto(h, s)
        /\ phase = "run" /\ handler[h].pc = "process"
    BY <1>4 DEF FillRefused, InTransaction
  <2>2. s \in HandlerStates /\ s.pc = "failing"
    BY <1>1, <2>1, TargetType
  <2> HIDE DEF s
  <2> QED
    BY <2>1, <2>2, SafeHandlerFrame
<1>5. CASE MarkFailed(h)
  <2>1. PICK f0 \in Fills : f0 = F
    BY <1>1, <1>5 DEF MarkFailed
  <2> DEFINE s == [pc |-> "halting", fill |-> f0]
  <2>2. /\ UNCHANGED <<ledger, phase, mirror, pass, load, halted, cut>> /\ Goto(h, s)
        /\ phase = "run" /\ handler[h].pc = "failing" /\ event' = Failed(f0)
    BY <1>5, <2>1 DEF MarkFailed
  <2>3. s \in HandlerStates /\ s.pc = "halting" /\ s.fill = f0
    BY TargetType
  <2> HIDE DEF s
  <2>4. s \in Attempts'
    BY <2>2, AttemptsKept DEF Types
  <2>5. Marked(f0)'
    BY <2>3, <2>4 DEF Marked
  <2>6. \A f \in Fills : /\ event[f].status = "PROCESSED" => event'[f] = event[f]
                         /\ f # f0 => event'[f] = event[f]
    <3>1. CASE event[f0].status = "PROCESSED"
      BY <2>2, <3>1 DEF Failed
    <3>2. CASE event[f0].status # "PROCESSED"
      <4>1. event' = [event EXCEPT ![f0].status = "FAILED"]
        BY <2>2, <3>2 DEF Failed
      <4> QED
        BY <3>2, <4>1 DEF Types, BookType
    <3> QED
      BY <3>1, <3>2
  <2>7. \A f \in Fills : event'[f].status = "FAILED" =>
           event[f].status = "FAILED" \/ Marked(f)'
    BY <2>5, <2>6
  <2> QED
    BY <2>1, <2>2, <2>3, <2>4, <2>6, <2>7, SafeHandlerFrame
<1>6. CASE FillCommit(h)
  <2>1. /\ InTransaction(h) /\ Booking(F)
        /\ Goto(h, [pc |-> "apply", fill |-> F, row |-> Copied(FillRow(F))])
        /\ UNCHANGED <<phase, mirror, pass, load, halted, cut>>
    BY <1>6 DEF FillCommit
  <2>2. F \in Fills /\ FillRow(F) \in Rows
    BY <1>1, <2>1, FillRowType DEF InTransaction, Booking, Types
  <2>3. [pc |-> "apply", fill |-> F, row |-> Copied(FillRow(F))] \in HandlerStates
    BY <2>2, CopyType, TargetType
  <2> QED
    BY <2>1, <2>3, SafeBooking
<1>7. CASE FillCommitRaises(h)
  <2>1. /\ InTransaction(h) /\ Booking(F) /\ Goto(h, [pc |-> "failing", fill |-> F])
        /\ UNCHANGED <<phase, mirror, pass, load, halted, cut>>
    BY <1>7 DEF FillCommitRaises
  <2>2. [pc |-> "failing", fill |-> F] \in HandlerStates
    BY <1>1, <2>1, TargetType DEF InTransaction
  <2> QED
    BY <2>1, <2>2, SafeBooking
<1>8. CASE FillApply(h)
  BY <1>8, SafeApply
<1>9. CASE HaltFailed(h)
  BY <1>9, SafeHalted DEF HaltFailed
<1>10. CASE Publish(h)
  <2>1. CASE F \in FeeKnown /\ ~halted
    <3>1. /\ UNCHANGED <<ledger, event, phase, mirror, pass, load, cut>> /\ Goto(h, Idle)
          /\ phase = "run" /\ handler[h].pc = "publish"
      BY <1>10 DEF Publish
    <3>2. halted' = halted
      BY <1>10, <2>1 DEF Publish, Types, FlagType
    <3>3. Idle \in HandlerStates /\ Idle.pc = "idle"
      BY DEF Idle, HandlerStates
    <3> QED
      BY <2>1, <3>1, <3>2, <3>3, SafeHandlerFrame
  <2>2. CASE F \notin FeeKnown \/ halted
    BY <1>10, <2>2, SafeHalted DEF Publish
  <2> QED
    BY <2>1, <2>2
<1>11. CASE MarkFailedRaises(h) \/ FillApplyRaises(h) \/ PublishRaises(h)
  <2>1. /\ UNCHANGED <<ledger, phase, mirror, pass, load>> /\ phase = "run"
        /\ handler[h].pc # "idle" /\ CutOff(h) /\ halted' \in {halted, TRUE}
    BY <1>11 DEF MarkFailedRaises, FillApplyRaises, PublishRaises, Raises
  <2>2. event' = event \/ (handler[h].pc = "failing" /\ event' = Failed(F))
    BY <1>11 DEF MarkFailedRaises, FillApplyRaises, PublishRaises
  <2> QED
    BY <2>1, <2>2, SafeCutOff
<1>12. CASE HandlerCanceled(h)
  <2>1. /\ UNCHANGED <<ledger, event, phase, mirror, pass, load, halted>>
        /\ phase = "run" /\ CutOff(h) /\ handler[h].pc # "idle"
    BY <1>12, HandlerAt DEF HandlerCanceled, Types
  <2> QED
    BY <2>1, SafeCutOff
<1> QED
  BY <1>2, <1>3, <1>4, <1>5, <1>6, <1>7, <1>8, <1>9, <1>10, <1>11, <1>12 DEF Handle

\* Every step keeps the argument.
LEMMA SafeStep ==
  ASSUME Types, SafeInv, [Next]_vars
  PROVE  SafeInv'
<1>1. CASE UNCHANGED vars
  <2>1. UNCHANGED <<ledger, event, phase, mirror, handler, load, pass, halted, cut>>
    BY <1>1 DEF vars, books, world, memory, tasks, flags, trace
  <2>2. LockInv'
    BY <2>1 DEF SafeInv, LockInv
  <2> QED
    BY <2>1, <2>2, SafeFrame
<1> QED
  BY <1>1, SafeWorld, SafeHandle, SafePass, SafeProcess DEF Next, Check

\* While new risk is allowed, the books are complete, but for a fill whose handler
\* is still at it or was cut off in this process: for any number of fills and
\* handlers, whatever fails or is canceled and however often the process restarts,
\* since the audit of the start finds what a lost halt, or none, forgot.
THEOREM BlockHolds == Spec => []IncompleteBooksBlock
<1>1. Types /\ SafeInv => IncompleteBooksBlock
  <2>1. \A f : Marked(f) => Unfinished(f)
    BY DEF Marked, Unfinished, AfterBooking
  <2> QED
    BY <2>1 DEF SafeInv, BlockInv, IncompleteBooksBlock, NewRiskAllowed, ReduceOnlyAllowed
<1> QED
  BY <1>1, TypesInit, TypesStep, SafeInit, SafeStep, PTL DEF Spec

\* While new risk is allowed, the entry in memory is the committed row, unless the
\* very fill that made this row is not applied yet or its handler was cut off: a
\* late or doubled delivery, a racing load and a deferred pass never leave an
\* older row there, and one that a cut off handler leaves does not outlive the
\* next fill.
THEOREM MirrorHolds == Spec => []MirrorCurrent
<1>1. Types /\ SafeInv => MirrorCurrent
  <2>1. SUFFICES ASSUME Types, SafeInv, ~halted, mirror # Absent
                 PROVE  mirror = Copied(ledger) \/ Unapplied
    BY DEF MirrorCurrent, NewRiskAllowed
  <2>2. Behind(mirror) /\ Pending(mirror)
    BY <2>1 DEF SafeInv, MirrorInv
  <2> QED
    BY <2>2 DEF Behind, Pending
<1> QED
  BY <1>1, TypesInit, TypesStep, SafeInit, SafeStep, PTL DEF Spec

-------------------------------------------------------------------------------
\* The replay of the processed fills.

\* The defining equation of the replay: a solution exists up to every version,
\* and two of them agree, so that one exists for all versions.
LEMMA ReplayUnfolds ==
  Replay = [n \in Nat |->
              IF n = 0 THEN Empty
              ELSE [Booked(Replay[n - 1], BookedAt(n)) EXCEPT !.version = n]]
<1> DEFINE Row(r, n) == IF n = 0 THEN Empty
                        ELSE [Booked(r, BookedAt(n)) EXCEPT !.version = n]
           Solves(f, k) == f = [n \in 0 .. k |-> Row(f[n - 1], n)]
           H == {k \in Nat : \E f : Solves(f, k)}
<1> HIDE DEF Row
<1>1. \A a, b : Row(a, 0) = Row(b, 0)
  BY DEF Row
<1>2. 0 \in H
  <2> DEFINE f == [n \in 0 .. 0 |-> Row(Empty, n)]
  <2>1. f = [n \in 0 .. 0 |-> Row(f[n - 1], n)]
    BY <1>1
  <2> QED
    BY <2>1
<1>3. ASSUME NEW k \in Nat, k \in H PROVE k + 1 \in H
  <2>1. PICK f : Solves(f, k)
    BY <1>3
  <2> DEFINE g == [n \in 0 .. k + 1 |-> Row(f[n - 1], n)]
  <2>2. ASSUME NEW n \in 0 .. k PROVE g[n] = f[n]
    <3>1. f[n] = Row(f[n - 1], n) /\ n \in 0 .. k + 1
      BY <2>1
    <3> QED
      BY <3>1
  <2>3. ASSUME NEW n \in 0 .. k + 1 PROVE Row(f[n - 1], n) = Row(g[n - 1], n)
    <3>1. CASE n = 0
      BY <1>1, <3>1
    <3>2. CASE n # 0
      <4>1. n - 1 \in 0 .. k
        BY <3>2
      <4> QED
        BY <2>2, <4>1
    <3> QED
      BY <3>1, <3>2
  <2>4. g = [n \in 0 .. k + 1 |-> Row(g[n - 1], n)]
    BY <2>3
  <2> HIDE DEF g
  <2>5. Solves(g, k + 1)
    BY <2>4
  <2> HIDE DEF Solves
  <2> QED
    BY <2>5
<1>4. \A k \in Nat : \E f : Solves(f, k)
  <2>1. Nat \subseteq H
    <3> HIDE DEF H
    <3> QED
      BY <1>2, <1>3, SetInduction
  <2> QED
    BY <2>1
<1> DEFINE S(k) == CHOOSE f : Solves(f, k)
<1>5. \A k \in Nat : Solves(S(k), k)
  <2> HIDE DEF Solves
  <2> QED
    BY <1>4
<1>6. \A k \in Nat : \A n \in 0 .. k : S(k)[n] = Row(S(k)[n - 1], n)
  <2> SUFFICES ASSUME NEW k \in Nat, NEW n \in 0 .. k
               PROVE  S(k)[n] = Row(S(k)[n - 1], n)
    OBVIOUS
  <2>1. S(k) = [m \in 0 .. k |-> Row(S(k)[m - 1], m)]
    BY <1>5
  <2> HIDE DEF S
  <2> QED
    BY <2>1
<1> HIDE DEF S, Solves
<1>7. ASSUME NEW k \in Nat, NEW j \in Nat
      PROVE  \A n \in Nat : n <= k /\ n <= j => S(k)[n] = S(j)[n]
  <2> DEFINE A == {n \in Nat : n <= k /\ n <= j => S(k)[n] = S(j)[n]}
  <2>1. 0 \in A
    <3>1. S(k)[0] = Row(S(k)[0 - 1], 0) /\ S(j)[0] = Row(S(j)[0 - 1], 0)
      BY <1>6
    <3> QED
      BY <1>1, <3>1
  <2>2. ASSUME NEW n \in Nat, n \in A PROVE n + 1 \in A
    <3>1. SUFFICES ASSUME n + 1 <= k, n + 1 <= j PROVE S(k)[n + 1] = S(j)[n + 1]
      OBVIOUS
    <3>2. /\ S(k)[n + 1] = Row(S(k)[(n + 1) - 1], n + 1)
          /\ S(j)[n + 1] = Row(S(j)[(n + 1) - 1], n + 1)
      BY <1>6, <3>1
    <3>3. (n + 1) - 1 = n /\ S(k)[n] = S(j)[n]
      BY <2>2, <3>1
    <3> QED
      BY <3>2, <3>3
  <2>3. Nat \subseteq A
    <3> HIDE DEF A
    <3> QED
      BY <2>1, <2>2, SetInduction
  <2> QED
    BY <2>3
<1> DEFINE R == [n \in Nat |-> S(n)[n]]
<1>8. ASSUME NEW n \in Nat PROVE R[n] = Row(R[n - 1], n)
  <2>1. S(n)[n] = Row(S(n)[n - 1], n)
    BY <1>6
  <2>2. CASE n = 0
    BY <1>1, <2>1, <2>2
  <2>3. CASE n # 0
    <3>1. n - 1 \in Nat /\ n - 1 <= n
      BY <2>3
    <3>2. S(n)[n - 1] = S(n - 1)[n - 1]
      BY <1>7, <3>1
    <3> QED
      BY <2>1, <3>1, <3>2
  <2> QED
    BY <2>2, <2>3
<1>9. R = [n \in Nat |-> Row(R[n - 1], n)]
  BY <1>8
<1> HIDE DEF R
<1>10. Replay = CHOOSE f : f = [n \in Nat |-> Row(f[n - 1], n)]
  BY DEF Replay, Row
<1>11. Replay = [n \in Nat |-> Row(Replay[n - 1], n)]
  BY <1>9, <1>10
<1> QED
  BY <1>11 DEF Row

\* Later fills leave the replay of the earlier versions as it was.
LEMMA ReplayAgrees ==
  ASSUME NEW v \in Nat, OneEach, OneEach', Processed \subseteq Processed',
         \A f \in Processed : event'[f].version = event[f].version,
         \A n \in 1 .. v : \E f \in Processed : event[f].version = n
  PROVE  Replay'[v] = Replay[v]
<1>1. ASSUME NEW n \in 1 .. v PROVE BookedAt(n)' = BookedAt(n)
  <2>1. PICK f \in Processed : event[f].version = n
    OBVIOUS
  <2>2. BookedAt(n) \in Processed /\ event[BookedAt(n)].version = n
    BY <2>1 DEF BookedAt
  <2>3. BookedAt(n) = f
    BY <2>1, <2>2 DEF OneEach
  <2>4. BookedAt(n)' \in Processed' /\ event'[BookedAt(n)'].version = n
    BY <2>1 DEF BookedAt
  <2>5. BookedAt(n)' = f
    BY <2>1, <2>4 DEF OneEach
  <2> QED
    BY <2>3, <2>5
<1>2. (Replay = [n \in Nat |->
                   IF n = 0 THEN Empty
                   ELSE [Booked(Replay[n - 1], BookedAt(n)) EXCEPT !.version = n]])'
  BY ReplayUnfolds, PTL
<1>3. Replay'[0] = Empty /\ Replay[0] = Empty
  BY <1>2, ReplayUnfolds
<1>4. ASSUME NEW n \in Nat
      PROVE  /\ Replay[n + 1] = [Booked(Replay[n], BookedAt(n + 1)) EXCEPT !.version = n + 1]
             /\ Replay'[n + 1] = [Booked(Replay'[n], BookedAt(n + 1)')
                                    EXCEPT !.version = n + 1]
  <2>1. n + 1 \in Nat /\ n + 1 # 0 /\ (n + 1) - 1 = n
    OBVIOUS
  <2>2. Replay[n + 1] = [Booked(Replay[(n + 1) - 1], BookedAt(n + 1))
                           EXCEPT !.version = n + 1]
    BY <2>1, ReplayUnfolds
  <2>3. Replay'[n + 1] = [Booked(Replay'[(n + 1) - 1], BookedAt(n + 1)')
                            EXCEPT !.version = n + 1]
    BY <1>2, <2>1
  <2> QED
    BY <2>1, <2>2, <2>3
<1> DEFINE A == {n \in Nat : n <= v => Replay'[n] = Replay[n]}
<1>5. 0 \in A
  BY <1>3
<1>6. ASSUME NEW n \in Nat, n \in A PROVE n + 1 \in A
  <2>1. SUFFICES ASSUME n + 1 <= v PROVE Replay'[n + 1] = Replay[n + 1]
    OBVIOUS
  <2>2. Replay'[n] = Replay[n] /\ n + 1 \in 1 .. v
    BY <1>6, <2>1
  <2>3. BookedAt(n + 1)' = BookedAt(n + 1)
    BY <1>1, <2>2
  <2> QED
    BY <1>4, <2>2, <2>3
<1>7. Nat \subseteq A
  <2> HIDE DEF A
  <2> QED
    BY <1>5, <1>6, SetInduction
<1> QED
  BY <1>7

\* A step that books nothing: the processed fills and their versions stay.
LEMMA ReplayFrame ==
  ASSUME Types, ReplayInv, ledger' = ledger \/ ledger'.accounting # "v2",
         Processed' = Processed,
         \A f \in Processed : event'[f].version = event[f].version,
         pass'.pc = "locked" => pass'.row = ledger' \/ pass'.row.accounting # "v2"
  PROVE  ReplayInv'
<1>1. SUFFICES ASSUME ledger' = ledger, ledger.accounting = "v2"
               PROVE  (Contiguous(ledger) /\ OneEach /\ ledger = Replay[ledger.version])'
  BY DEF ReplayInv
<1>2. Contiguous(ledger) /\ OneEach /\ ledger = Replay[ledger.version]
  BY <1>1 DEF ReplayInv
<1>3. {event'[f].version : f \in Processed'} = {event[f].version : f \in Processed}
  OBVIOUS
<1>4. Contiguous(ledger)'
  BY <1>1, <1>2, <1>3 DEF Contiguous
<1>5. OneEach'
  BY <1>2 DEF OneEach
<1>6. ledger.version \in Nat
  BY DEF Types, RowType, Rows
<1>7. \A n \in 1 .. ledger.version : \E f \in Processed : event[f].version = n
  BY <1>2 DEF Contiguous
<1>8. Replay'[ledger.version] = Replay[ledger.version]
  BY <1>2, <1>5, <1>6, <1>7, ReplayAgrees
<1> QED
  BY <1>1, <1>2, <1>4, <1>5, <1>8

\* A booking adds the next version to the replay.
LEMMA ReplayBooking ==
  ASSUME Types, ReplayInv, NEW h \in Handlers, InTransaction(h),
         Booking(handler[h].fill), pass' = pass
  PROVE  ReplayInv'
<1> DEFINE F == handler[h].fill
<1>0. PICK v \in Nat : v = ledger.version
  BY DEF Types, RowType, Rows
<1>1. /\ F \in Fills /\ pass.pc # "locked" /\ event[F].status = "RECEIVED"
      /\ ~Refuses(F)
  BY HandlerAt DEF InTransaction, At, Booking, Types
<1>2. /\ ledger' = FillRow(F) /\ FillRow(F) \in Rows /\ FillRow(F).version = v + 1
      /\ ledger.accounting = "v2" /\ v \in Nat
      /\ FillRow(F).accounting = IF F \in FeeKnown THEN ledger.accounting
                                 ELSE "v2_fee_incomplete"
      /\ event' = [event EXCEPT ![F] = [status |-> "PROCESSED", version |-> v + 1]]
  BY <1>0, <1>1, FillRowType DEF Booking, Types, RowType, Rows
<1>3. Processed' = Processed \union {F} /\ F \notin Processed
  BY <1>1, <1>2 DEF Processed, Types, BookType
<1>4. IsFiniteSet(Processed')
  BY <1>3, FS_AddElement DEF ReplayInv
<1>5. Contiguous(ledger) /\ OneEach /\ ledger = Replay[v]
  BY <1>0, <1>2 DEF ReplayInv
<1>6. /\ \A f \in Processed : event'[f].version = event[f].version
      /\ event'[F].version = v + 1
  BY <1>1, <1>2, <1>3 DEF Processed, Types, BookType
<1>7. {event[f].version : f \in Processed} = 1 .. v /\ Cardinality(Processed) = v
  BY <1>0, <1>5 DEF Contiguous
<1>8. \A f \in Processed : event[f].version \in 1 .. v
  BY <1>7
<1>9. SUFFICES ASSUME ledger'.accounting = "v2"
               PROVE  (Contiguous(ledger) /\ OneEach /\ ledger = Replay[ledger.version])'
  BY <1>1, <1>4 DEF ReplayInv
<1>10. Contiguous(ledger)'
  <2>1. {event'[f].version : f \in Processed'} = (1 .. v) \union {v + 1}
    BY <1>3, <1>6, <1>7
  <2>2. (1 .. v) \union {v + 1} = 1 .. v + 1
    BY <1>2
  <2>3. Cardinality(Processed') = v + 1
    BY <1>3, <1>7, FS_AddElement DEF ReplayInv
  <2> QED
    BY <1>2, <2>1, <2>2, <2>3 DEF Contiguous
<1>11. OneEach'
  <2> SUFFICES ASSUME NEW f \in Processed', NEW g \in Processed',
                      event'[f].version = event'[g].version
               PROVE  f = g
    BY DEF OneEach
  <2>1. CASE f \in Processed /\ g \in Processed
    BY <1>5, <1>6, <2>1 DEF OneEach
  <2>2. \A x \in Processed : event'[x].version < v + 1
    BY <1>2, <1>6, <1>8
  <2> QED
    BY <1>2, <1>3, <1>6, <2>1, <2>2
<1>12. Replay'[v] = Replay[v]
  <2>1. Processed \subseteq Processed'
    BY <1>3
  <2>2. \A n \in 1 .. v : \E f \in Processed : event[f].version = n
    BY <1>7
  <2> QED
    BY <1>2, <1>5, <1>6, <1>11, <2>1, <2>2, ReplayAgrees
<1>13. BookedAt(v + 1)' = F
  <2>1. F \in Processed' /\ event'[F].version = v + 1
    BY <1>3, <1>6
  <2>2. BookedAt(v + 1)' \in Processed' /\ event'[BookedAt(v + 1)'].version = v + 1
    BY <2>1 DEF BookedAt
  <2> QED
    BY <1>11, <2>1, <2>2 DEF OneEach
<1>14. Replay'[v + 1] = [Booked(Replay'[v], BookedAt(v + 1)') EXCEPT !.version = v + 1]
  <2>1. (Replay = [n \in Nat |->
                     IF n = 0 THEN Empty
                     ELSE [Booked(Replay[n - 1], BookedAt(n)) EXCEPT !.version = n]])'
    BY ReplayUnfolds, PTL
  <2>2. v + 1 \in Nat /\ v + 1 # 0 /\ (v + 1) - 1 = v
    BY <1>2
  <2>3. Replay'[v + 1] = [Booked(Replay'[(v + 1) - 1], BookedAt(v + 1)')
                            EXCEPT !.version = v + 1]
    BY <2>1, <2>2
  <2> QED
    BY <2>2, <2>3
<1>15. Replay'[v + 1] = [Booked(ledger, F) EXCEPT !.version = v + 1]
  BY <1>5, <1>12, <1>13, <1>14
<1>16. FillRow(F) = [Booked(ledger, F) EXCEPT !.version = v + 1]
  <2> DEFINE b == Booked(ledger, F)
  <2>1. b \in Rows /\ b.version = v
    <3>1. Terms[F].side = "SELL" => Terms[F].size <= ledger.expo[Terms[F].outcome]
      <4>1. Terms[F].size \in Nat /\ ledger.expo[Terms[F].outcome] \in Nat
        BY <1>1, TermsType DEF Types, RowType, Rows
      <4> QED
        BY <1>1, <4>1 DEF Refuses
    <3> QED
      BY <1>0, <1>1, <3>1, BookedType DEF Types, RowType
  <2>2. F \in FeeKnown
    BY <1>2, <1>9
  <2>3. FillRow(F) = [b EXCEPT !.version = b.version + 1, !.accounting = b.accounting]
    BY <2>2 DEF FillRow
  <2> HIDE DEF b
  <2>4. FillRow(F) = [b EXCEPT !.version = v + 1]
    BY <2>1, <2>3 DEF Rows
  <2> QED
    BY <2>4 DEF b
<1> QED
  BY <1>2, <1>10, <1>11, <1>15, <1>16

\* Initially there is nothing to replay.
LEMMA ReplayInit == Init => ReplayInv
<1> SUFFICES ASSUME Init PROVE ReplayInv
  OBVIOUS
<1>1. Processed = {}
  BY DEF Init, Processed
<1>2. ledger = Empty /\ ledger.version = 0 /\ pass = Idle
  BY DEF Init, Empty
<1>3. Replay[0] = Empty
  BY ReplayUnfolds
<1>4. Contiguous(ledger)
  <2>1. 1 .. 0 = {} /\ {event[f].version : f \in {}} = {}
    OBVIOUS
  <2> QED
    BY <1>1, <1>2, <2>1, FS_EmptySet DEF Contiguous
<1> QED
  BY <1>1, <1>2, <1>3, <1>4, FS_EmptySet DEF ReplayInv, OneEach, Idle

\* Every step keeps the replay of the fills in the order they were booked.
LEMMA ReplayStep ==
  ASSUME Types, ReplayInv, [Next]_vars
  PROVE  ReplayInv'
<1> USE DEF books, world, memory, tasks, flags, trace
<1>1. ASSUME UNCHANGED <<ledger, event>>,
             pass'.pc = "locked" => pass' = pass \/ pass'.row = ledger
                                                 \/ pass'.row.accounting # "v2"
      PROVE  ReplayInv'
  BY <1>1, ReplayFrame DEF ReplayInv, Processed
<1>2. ASSUME NEW f \in Fills, Place(f) \/ Match(f) \/ Settle(f) PROVE ReplayInv'
  BY <1>1, <1>2 DEF Place, Match, Settle
<1>3. ASSUME NEW o \in Outcomes, Transfer(o) PROVE ReplayInv'
  BY <1>1, <1>3 DEF Transfer
<1>4. CASE ResolveOutcomes \/ BufferExpires \/ LoadRead \/ LoadStore
  BY <1>1, <1>4 DEF ResolveOutcomes, BufferExpires, LoadRead, LoadStore
<1>5. CASE Check
  BY <1>1, <1>5 DEF Check, CheckTotals, CheckVerdict
<1>7. CASE Crash \/ Boot
  BY <1>1, <1>7 DEF Crash, Boot, Idle
<1>8. CASE Pass
  <2>1. CASE PassStart \/ PassFetchFails \/ PassCommitFails \/ PassCanceled \/ PassReport
    BY <1>1, <2>1
       DEF PassStart, PassFetchFails, PassCommitFails, PassCanceled, PassReport, Idle
  <2>2. ASSUME NEW o \in Outcomes, PassFetch(o) PROVE ReplayInv'
    <3>1. pass = [pc |-> "fetch", seen |-> pass.seen, safe |-> pass.safe]
      BY <2>2 DEF PassFetch, Types, PassType, PassStates
    <3>2. pass'.pc # "locked"
      BY <2>2, <3>1 DEF PassFetch
    <3> QED
      BY <1>1, <2>2, <3>2 DEF PassFetch
  <2>3. CASE PassAgrees \/ PassDefers
    BY <1>1, <2>3 DEF PassAgrees, PassDefers, Lock
  <2>4. CASE PassOverwrites
    <3>1. IsSeen(pass.seen) /\ DOMAIN pass.seen = Outcomes
      BY <2>4 DEF PassOverwrites, Locking, Types, PassType, PassStates
    <3>2. Overwritten(pass.seen).accounting = "unverified_external"
      BY DEF Overwritten, Types, RowType, Rows
    <3> QED
      BY <1>1, <2>4, <3>2 DEF PassOverwrites, Lock
  <2>5. CASE PassCommit
    BY <2>5, ReplayFrame DEF PassCommit, ReplayInv, Processed
  <2>6. CASE PassFindsUnknown
    <3>1. pass.pc = "fetch" /\ pass' = [pass EXCEPT !.safe = FALSE]
      BY <2>6 DEF PassFindsUnknown, Locking
    <3>2. pass'.pc # "locked"
      BY <3>1 DEF Types, PassType, PassStates
    <3> QED
      BY <1>1, <2>6, <3>2 DEF PassFindsUnknown
  <2> QED
    BY <1>8, <2>1, <2>2, <2>3, <2>4, <2>5, <2>6 DEF Pass
<1>9. ASSUME NEW h \in Handlers, NEW f \in Fills, Receive(h, f) PROVE ReplayInv'
  <2>1. UNCHANGED <<ledger, pass>>
    BY <1>9 DEF Receive
  <2>2. \A g \in Fills : /\ event'[g].status = "PROCESSED" <=> event[g].status = "PROCESSED"
                         /\ event'[g].version = event[g].version
    BY <1>9 DEF Receive, Types, BookType
  <2> QED
    BY <2>1, <2>2, ReplayFrame DEF Processed, ReplayInv
<1>10. ASSUME NEW h \in Handlers, Handle(h) \/ HandlerCanceled(h) PROVE ReplayInv'
  <2>1. CASE Duplicate(h) \/ FillRefused(h) \/ HaltFailed(h) \/ Publish(h)
    BY <1>1, <2>1 DEF Duplicate, FillRefused, HaltFailed, Publish
  <2>2. CASE FillApply(h)
    BY <1>1, <2>2 DEF FillApply
  <2>3. CASE FillCommit(h) \/ FillCommitRaises(h)
    BY <2>3, ReplayBooking DEF FillCommit, FillCommitRaises
  <2>4. CASE MarkFailed(h) \/ MarkFailedRaises(h)
    <3>1. UNCHANGED <<ledger, pass>> /\ event' \in {event, Failed(handler[h].fill)}
      BY <2>4 DEF MarkFailed, MarkFailedRaises
    <3>2. \A g \in Fills : /\ event'[g].status = "PROCESSED" <=> event[g].status = "PROCESSED"
                           /\ event'[g].version = event[g].version
      BY <3>1 DEF Failed, Types, BookType
    <3> QED
      BY <3>1, <3>2, ReplayFrame DEF Processed, ReplayInv
  <2>5. CASE FillApplyRaises(h) \/ PublishRaises(h) \/ HandlerCanceled(h)
    BY <1>1, <2>5 DEF FillApplyRaises, PublishRaises, HandlerCanceled
  <2> QED
    BY <1>10, <2>1, <2>2, <2>3, <2>4, <2>5 DEF Handle
<1>11. CASE UNCHANGED vars
  BY <1>1, <1>11 DEF vars
<1> QED
  BY <1>2, <1>3, <1>4, <1>5, <1>7, <1>8, <1>9, <1>10, <1>11 DEF Next

\* A ledger that calls itself v2 is the replay of the processed fills, one version
\* each: for any number of fills and handlers, and whatever overwrote it, raced
\* it, failed or was delivered twice.
THEOREM ReplayHolds == Spec => []BooksReplay
<1>1. Types /\ ReplayInv => BooksReplay
  BY DEF ReplayInv, BooksReplay
<1> QED
  BY <1>1, TypesInit, TypesStep, ReplayInit, ReplayStep, PTL DEF Spec
===============================================================================
