------------------------- MODULE OrderLifecycleProofs -------------------------
(***************************************************************************)
(* Covered holds in every execution of OrderLifecycle without a crash, and *)
(* the lemmas OrderReconciliationProofs needs for the same with crashes    *)
(* and reconciliation: LInv is the invariant under which Covered is        *)
(* inductive, kept by every action of the order path.                      *)
(***************************************************************************)
EXTENDS OrderLifecycle, DataInduction, FiniteSetTheorems, TLAPS

\* An order is a finite set of lots, and so is every part of it.
LEMMA LotsFinite ==
  ASSUME NEW o \in Orders
  PROVE  /\ IsFiniteSet(LotsOf(o))
         /\ Size(o) \in Nat
         /\ \A S : S \subseteq LotsOf(o) =>
               IsFiniteSet(S) /\ Cardinality(S) \in Nat /\ Cardinality(S) <= Size(o)
<1>1. IsFiniteSet(LotsOf(o))
  BY ConstantsAssumption, FS_Subset DEF LotsOf
<1>2. Size(o) \in Nat
  BY <1>1, FS_CardinalityType DEF Size
<1>3. ASSUME NEW S, S \subseteq LotsOf(o)
      PROVE  IsFiniteSet(S) /\ Cardinality(S) \in Nat /\ Cardinality(S) <= Size(o)
  BY <1>1, <1>3, FS_Subset, FS_CardinalityType DEF Size
<1> QED
  BY <1>1, <1>2, <1>3

\* The journal and the reservation table, as LTypeOK types them.
JournalType == [Orders -> [status : JournalStatuses, xid : BOOLEAN, filled : Nat]]
ResvType    == [Orders -> [status : ResvStatuses, rem : Nat]]

\* What replacing fields of one row leaves of the table.
LEMMA ResvStatus ==
  ASSUME NEW r \in ResvType, NEW o \in Orders, NEW st \in ResvStatuses
  PROVE  /\ [r EXCEPT ![o].status = st] \in ResvType
         /\ \A p \in Orders :
               /\ [r EXCEPT ![o].status = st][p].rem = r[p].rem
               /\ [r EXCEPT ![o].status = st][p].status = IF p = o THEN st ELSE r[p].status
  BY DEF ResvType

\* The same for the journal.
LEMMA JournalStatus ==
  ASSUME NEW j \in JournalType, NEW o \in Orders, NEW st \in JournalStatuses
  PROVE  /\ [j EXCEPT ![o].status = st] \in JournalType
         /\ \A p \in Orders : [j EXCEPT ![o].status = st][p].filled = j[p].filled
  BY DEF JournalType

\* The order row after PersistOutcome, and after a fill or cancel_order's write-back.
WriteOutcome(o, st, x) == journal' = [journal EXCEPT ![o].status = st, ![o].xid = x]
WriteFilled(o, st, n)  == journal' = [journal EXCEPT ![o].status = st, ![o].filled = n]

\* What these writes leave of the table.
LEMMA JournalOutcome ==
  ASSUME journal \in JournalType, NEW o \in Orders, NEW st \in JournalStatuses,
         NEW x \in BOOLEAN, WriteOutcome(o, st, x)
  PROVE  /\ journal' \in JournalType
         /\ \A p \in Orders : journal'[p].filled = journal[p].filled
  BY DEF JournalType, WriteOutcome

\* A write of filled_size reaches one row.
LEMMA JournalFilled ==
  ASSUME journal \in JournalType, NEW o \in Orders, NEW st \in JournalStatuses,
         NEW n \in Nat, WriteFilled(o, st, n)
  PROVE  /\ journal' \in JournalType
         /\ \A p \in Orders : journal'[p].filled = IF p = o THEN n ELSE journal[p].filled
  BY DEF JournalType, WriteFilled

\* The same for the cancel_order coroutines.
CancelType == [Orders -> [pc : {"idle", "sent", "found", "matched"}, seen : Nat]]

\* The step of one cancel_order coroutine changes ...
LEMMA CancelPc ==
  ASSUME NEW c \in CancelType, NEW o \in Orders,
         NEW pc \in {"idle", "sent", "found", "matched"}
  PROVE  /\ [c EXCEPT ![o].pc = pc] \in CancelType
         /\ \A p \in Orders : [c EXCEPT ![o].pc = pc][p].seen = c[p].seen
  BY DEF CancelType

\* ... and its reset, with what it read, changes no other.
LEMMA CancelSet ==
  ASSUME NEW c \in CancelType, NEW o \in Orders,
         NEW pc \in {"idle", "sent", "found", "matched"}, NEW n \in Nat
  PROVE  /\ [c EXCEPT ![o] = [pc |-> pc, seen |-> n]] \in CancelType
         /\ \A p \in Orders : [c EXCEPT ![o] = [pc |-> pc, seen |-> n]][p].seen =
                                 IF p = o THEN n ELSE c[p].seen
  BY DEF CancelType

\* Marking a reservation changes no amount; releasing one frees all of it.
LEMMA MarkLemma ==
  ASSUME resv \in ResvType, NEW o \in Orders, NEW st \in ActiveStatuses, Mark(o, st)
  PROVE  /\ resv' \in ResvType
         /\ \A p \in Orders : Held(p)' = Held(p)
<1>1. st \in ResvStatuses
  BY DEF ResvStatuses
<1>2. CASE Active(o)
  <2> DEFINE r == [resv EXCEPT ![o].status = st]
  <2>1. resv' = r
    BY <1>2 DEF Mark
  <2>2. /\ r \in ResvType
        /\ \A p \in Orders : /\ r[p].rem = resv[p].rem
                             /\ r[p].status = IF p = o THEN st ELSE resv[p].status
    BY <1>1, ResvStatus
  <2> HIDE DEF r
  <2>3. \A p \in Orders : /\ resv'[p].rem = resv[p].rem
                          /\ resv'[p].status = IF p = o THEN st ELSE resv[p].status
    BY <2>1, <2>2
  <2>4. \A p \in Orders : Active(p)' = Active(p)
    BY <1>2, <2>3 DEF Active
  <2> QED
    BY <2>1, <2>2, <2>3, <2>4 DEF Held
<1>3. CASE ~Active(o)
  BY <1>3 DEF Mark, Held, Active
<1> QED
  BY <1>2, <1>3

\* Releasing a reservation frees all of it and touches no other.
LEMMA ReleaseLemma ==
  ASSUME resv \in ResvType, NEW o \in Orders, NEW st \in TerminalStatuses, Release(o, st)
  PROVE  /\ resv' \in ResvType
         /\ \A p \in Orders : p # o => Held(p)' = Held(p)
         /\ Held(o)' = 0
  BY DEF Release, ResvType, ResvStatuses, TerminalStatuses, ActiveStatuses, Held, Active

-------------------------------------------------------------------------------
(* Types *)

\* Each action keeps the types: create_order ...
LEMMA TypeCreate ==
  ASSUME LTypeOK, NEW o \in Orders, CreateOrderStep(o)
  PROVE  LTypeOK'
<1> USE LotsFinite DEF LTypeOK, GoTo, db, inbox, market, process, flags, control
<1> DEFINE Rest ==
      /\ shares' \in [Markets -> Nat]
      /\ event' \in [Lots -> {"none", "RECEIVED", "PROCESSED", "FAILED"}]
<1>1. CASE Admit(o) \/ ReserveFails(o) \/ JournalFails(o) \/ PersistFails(o)
  BY <1>1 DEF Admit, ReserveFails, JournalFails, PersistFails
<1>2. CASE Reserve(o)
  <2>1. resv' \in [Orders -> [status : ResvStatuses, rem : Nat]]
    BY <1>2 DEF Reserve, ResvStatuses, ActiveStatuses
  <2>2. /\ task' = [task EXCEPT ![o] = "reserved"]
        /\ UNCHANGED <<journal, shares, inbox, market, outcome, cancel, marking,
                       flags, control>>
    BY <1>2 DEF Reserve
  <2> QED
    BY <2>1, <2>2
<1>3. CASE JournalPending(o)
  <2>1. journal' \in [Orders -> [status : JournalStatuses, xid : BOOLEAN, filled : Nat]]
    <3>1. /\ journal \in JournalType /\ "PENDING" \in JournalStatuses
          /\ journal' = [journal EXCEPT ![o].status = "PENDING"]
      BY <1>3 DEF JournalPending, JournalType, JournalStatuses, OpenJournalStatuses
    <3>2. journal' \in JournalType
      BY ONLY <3>1, o \in Orders, JournalStatus
    <3> QED
      BY ONLY <3>2 DEF JournalType
  <2>2. /\ task' = [task EXCEPT ![o] = "journaled"]
        /\ UNCHANGED <<resv, cached, shares, inbox, market, outcome, cancel, marking,
                       flags, control>>
    BY <1>3 DEF JournalPending
  <2> QED
    BY <2>1, <2>2
<1>4. CASE ReleaseUnjournaled(o)
  <2>1. resv' \in ResvType
    BY <1>4, ReleaseLemma DEF ReleaseUnjournaled, TerminalStatuses, ResvType
  <2>2. \E pc \in {"done", "abandoned"} : task' = [task EXCEPT ![o] = pc]
    BY <1>4 DEF ReleaseUnjournaled
  <2>3. UNCHANGED <<journal, shares, inbox, market, outcome, cancel, marking, flags, control>>
    BY <1>4 DEF ReleaseUnjournaled
  <2> QED
    BY <2>1, <2>2, <2>3 DEF ResvType
<1>5. CASE Submit(o)
  BY <1>5 DEF Submit, VenueStatuses
<1>6. CASE NotSubmitted(o) \/ SubmitAmbiguous(o) \/ SubmitRejected(o)
  BY <1>6 DEF NotSubmitted, SubmitAmbiguous, SubmitRejected, Replied
<1>7. CASE SubmitAccepted(o) \/ SubmitMatched(o)
  BY <1>7 DEF SubmitAccepted, SubmitMatched, Replied
<1>8. CASE PersistOutcome(o)
  <2> DEFINE st == IF outcome[o] = "MATCHED" THEN "UNKNOWN" ELSE outcome[o]
             x  == journal[o].xid \/ outcome[o] \in {"OPEN", "MATCHED"}
  <2>1. st \in JournalStatuses
    BY DEF JournalStatuses, OpenJournalStatuses
  <2>2. x \in BOOLEAN
    OBVIOUS
  <2>3. WriteOutcome(o, st, x)
    BY <1>8 DEF PersistOutcome, WriteOutcome
  <2>4. journal \in JournalType
    BY DEF JournalType
  <2> HIDE DEF st, x
  <2>5. journal' \in JournalType
    BY <2>1, <2>2, <2>3, <2>4, JournalOutcome
  <2> QED
    BY <1>8, <2>5 DEF PersistOutcome, JournalType
<1>9. CASE MarkUnpersisted(o)
  BY <1>9, MarkLemma DEF MarkUnpersisted, EndTask, ActiveStatuses, ResvType
<1>10. CASE SettleReservation(o)
  <2>1. resv' \in ResvType
    <3>1. CASE outcome[o] = "OPEN"
      <4> DEFINE r == [resv EXCEPT ![o].status = "OPEN"]
      <4>1. resv' = IF resv[o].status \in {"RESERVED", "OPEN"} THEN r ELSE resv
        BY <1>10, <3>1 DEF SettleReservation
      <4>2. r \in ResvType /\ resv \in ResvType
        BY ResvStatus DEF ResvStatuses, ActiveStatuses, ResvType
      <4> QED
        BY <4>1, <4>2
    <3>2. CASE outcome[o] \in {"MATCHED", "UNKNOWN"}
      BY <1>10, <3>2, MarkLemma DEF SettleReservation, ActiveStatuses, ResvType
    <3>3. CASE outcome[o] = "FAILED"
      BY <1>10, <3>3, ReleaseLemma DEF SettleReservation, TerminalStatuses, ResvType
    <3> QED
      BY <1>10, <3>1, <3>2, <3>3 DEF SettleReservation
  <2> QED
    BY <1>10, <2>1 DEF SettleReservation, EndTask, ResvType
<1>11. CASE SettleFails(o) \/ AbandonCreate(o)
  BY <1>11 DEF SettleFails, AbandonCreate, EndTask
<1> QED
  BY <1>1, <1>2, <1>3, <1>4, <1>5, <1>6, <1>7, <1>8, <1>9, <1>10, <1>11
     DEF CreateOrderStep

\* ... cancel_order and the stream event, ...
LEMMA TypeCancel ==
  ASSUME LTypeOK, NEW o \in Orders, CancelStep(o)
  PROVE  LTypeOK'
<1> USE DEF db, inbox, market, process, flags, control
<1>0. journal \in JournalType /\ resv \in ResvType /\ cancel \in CancelType
  BY DEF LTypeOK, JournalType, ResvType, CancelType
<1>1. CASE CancelSend(o)
  <2>1. cancel' \in CancelType
    BY <1>0, <1>1, CancelPc DEF CancelSend
  <2> QED
    BY <1>1, <2>1 DEF CancelSend, LTypeOK, CancelType
<1>2. CASE CancelFails(o)
  <2>1. cancel' \in CancelType
    BY <1>0, <1>2, CancelSet DEF CancelFails, NoCancel
  <2> QED
    BY <1>2, <2>1 DEF CancelFails, LTypeOK, CancelType
<1>3. CASE CancelFoundMatched(o)
  <2>1. journal[o].filled \in Nat
    BY DEF LTypeOK
  <2>2. cancel' \in CancelType
    BY <1>0, <1>3, <2>1, CancelSet DEF CancelFoundMatched
  <2> QED
    BY <1>3, <2>2 DEF CancelFoundMatched, LTypeOK, CancelType
<1>4. CASE CancelConfirmed(o)
  <2>1. journal' = [journal EXCEPT ![o].status = "CANCELED"]
    BY <1>4 DEF CancelConfirmed
  <2>2. journal' \in JournalType
    BY <1>0, <2>1, JournalStatus DEF JournalStatuses
  <2>3. cancel' \in CancelType
    BY <1>0, <1>4, CancelSet DEF CancelConfirmed, NoCancel
  <2> QED
    BY <1>4, <2>2, <2>3 DEF CancelConfirmed, LTypeOK, CancelType, JournalType
<1>5. CASE StreamCancel(o)
  <2>1. journal' = [journal EXCEPT ![o].status = "CANCELED"]
    BY <1>5 DEF StreamCancel
  <2>2. journal' \in JournalType
    BY <1>0, <2>1, JournalStatus DEF JournalStatuses
  <2> QED
    BY <1>5, <2>2 DEF StreamCancel, LTypeOK, JournalType
<1>6. CASE CommitMatched(o)
  <2>1. cancel[o].seen \in Nat
    BY DEF LTypeOK
  <2>2. WriteFilled(o, "UNKNOWN", cancel[o].seen)
    BY <1>6 DEF CommitMatched, WriteFilled
  <2>3. journal' \in JournalType
    BY <1>0, <2>1, <2>2, JournalFilled DEF JournalStatuses, OpenJournalStatuses
  <2>4. cancel' \in CancelType
    BY <1>0, <1>6, CancelSet DEF CommitMatched
  <2> QED
    BY <1>6, <2>3, <2>4 DEF CommitMatched, LTypeOK, CancelType, JournalType
<1>7. CASE MarkMatchedUnknown(o)
  <2>1. resv' \in ResvType
    BY <1>0, <1>7, MarkLemma DEF MarkMatchedUnknown, ActiveStatuses
  <2>2. cancel' \in CancelType
    BY <1>0, <1>7, CancelSet DEF MarkMatchedUnknown, NoCancel
  <2> QED
    BY <1>7, <2>1, <2>2 DEF MarkMatchedUnknown, LTypeOK, CancelType, ResvType
<1>8. ASSUME NEW handler \in {"oms", "stream"}, MarkCancelPending(o, handler)
      PROVE  LTypeOK'
  <2>1. resv' \in ResvType
    BY <1>0, <1>8, MarkLemma DEF MarkCancelPending, ActiveStatuses
  <2> QED
    BY <1>8, <2>1 DEF MarkCancelPending, LTypeOK, ResvType
<1> QED
  BY <1>1, <1>2, <1>3, <1>4, <1>5, <1>6, <1>7, <1>8 DEF CancelStep

\* ... the fill handlers, ...
LEMMA TypeFill ==
  ASSUME LTypeOK, NEW l \in Lots, FillStep(l)
  PROVE  LTypeOK'
<1> USE ConstantsAssumption DEF LTypeOK, db, inbox, market, process, flags, control
<1>1. CASE RecordFill(l)
  BY <1>1 DEF RecordFill, InsertReceived
<1>2. CASE FailFill(l) \/ AbandonFill(l) \/ FlagFee(l)
  BY <1>2 DEF FailFill, AbandonFill, FlagFee
<1>3. CASE ProcessFill(l)
  <2>1. journal' \in JournalType
    <3> DEFINE n  == journal[OrderOf[l]].filled + 1
               st == IF n = Size(OrderOf[l]) THEN "FILLED" ELSE "OPEN"
    <3>1. n \in Nat /\ st \in JournalStatuses /\ OrderOf[l] \in Orders
      BY DEF JournalStatuses, OpenJournalStatuses
    <3>2. WriteFilled(OrderOf[l], st, n)
      BY <1>3 DEF ProcessFill, WriteFilled
    <3>3. journal \in JournalType
      BY DEF JournalType
    <3> HIDE DEF n, st
    <3> QED
      BY <3>1, <3>2, <3>3, JournalFilled
  <2>2. resv' \in ResvType
    BY <1>3 DEF ProcessFill, FillAccepted, FillFits, ResvStatuses, TerminalStatuses,
                ActiveStatuses, ResvType
  <2>3. shares' \in [Markets -> Nat]
    <3> DEFINE m == MarketOf[OrderOf[l]]
    <3>1. OrderOf[l] \in Orders /\ m \in Markets /\ shares \in [Markets -> Nat]
      OBVIOUS
    <3>2. Side[OrderOf[l]] = "SELL" => shares[m] >= 1
      BY <1>3 DEF ProcessFill, FillAccepted, FillFits
    <3>3. shares' = IF Side[OrderOf[l]] = "BUY" THEN [shares EXCEPT ![m] = @ + 1]
                    ELSE [shares EXCEPT ![m] = @ - 1]
      BY <1>3 DEF ProcessFill
    <3>4. Side[OrderOf[l]] \in {"BUY", "SELL"}
      BY <3>1
    <3> HIDE DEF m, LTypeOK
    <3> QED
      BY <3>1, <3>2, <3>3, <3>4
  <2>4. /\ event' \in [Lots -> {"none", "RECEIVED", "PROCESSED", "FAILED"}]
        /\ accounting' \subseteq Lots
    BY <1>3 DEF ProcessFill
  <2>5. UNCHANGED <<market, process, flags, control>>
    BY <1>3 DEF ProcessFill
  <2> QED
    BY <2>1, <2>2, <2>3, <2>4, <2>5 DEF JournalType, ResvType
<1> QED
  BY <1>1, <1>2, <1>3 DEF FillStep

\* ... the venue, ...
LEMMA TypeVenue ==
  ASSUME LTypeOK, VenueStep
  PROVE  LTypeOK'
<1> USE ConstantsAssumption
    DEF LTypeOK, VenueStatuses, db, inbox, market, process, flags, control
<1>1. ASSUME NEW o \in Orders, VenueReceive(o) \/ VenueRefuse(o) \/ VenueCancel(o)
      PROVE  LTypeOK'
  <2>1. CASE VenueReceive(o)
    BY <2>1 DEF VenueReceive
  <2>2. CASE VenueRefuse(o)
    BY <2>2 DEF VenueRefuse
  <2>3. CASE VenueCancel(o)
    BY <2>3 DEF VenueCancel
  <2> QED
    BY <1>1, <2>1, <2>2, <2>3
<1>2. ASSUME NEW l \in Lots, SettleConfirm(l) \/ SettleFail(l)
      PROVE  LTypeOK'
  <2>1. CASE SettleConfirm(l)
    BY <2>1 DEF SettleConfirm
  <2>2. CASE SettleFail(l)
    BY <2>2 DEF SettleFail
  <2> QED
    BY <1>2, <2>1, <2>2
<1>3. ASSUME NEW l \in Lots, VenueMatch(l)
      PROVE  LTypeOK'
  <2>1. OrderOf[l] \in Orders
    OBVIOUS
  <2>2. /\ trade' \in [Lots -> {"none", "matched", "confirmed"}]
        /\ venue' \in [Orders -> VenueStatuses]
    BY <1>3, <2>1 DEF VenueMatch
  <2> QED
    BY <1>3, <2>2 DEF VenueMatch
<1> QED
  BY <1>1, <1>2, <1>3 DEF VenueStep

\* ... halt, crash and restart.
LEMMA TypeLife ==
  ASSUME LTypeOK, PersistHalt \/ Crash \/ Restart \/ Rebuild
  PROVE  LTypeOK'
<1> USE ConstantsAssumption
    DEF LTypeOK, db, inbox, market, process, flags, control, NoCancel
<1>1. CASE PersistHalt
  BY <1>1 DEF PersistHalt
<1>2. CASE Crash
  BY <1>2 DEF Crash
<1>3. CASE Restart
  BY <1>3 DEF Restart
<1>4. CASE Rebuild
  BY <1>4 DEF Rebuild, RebuildSafe
<1> QED
  BY <1>1, <1>2, <1>3, <1>4

\* The initial state is well typed.
LEMMA TypeInit == LInit => LTypeOK
<1> SUFFICES ASSUME LInit PROVE LTypeOK
  OBVIOUS
<1> USE ConstantsAssumption DEF LInit
<1>1. journal \in [Orders -> [status : JournalStatuses, xid : BOOLEAN, filled : Nat]]
  BY DEF JournalStatuses
<1>2. resv \in [Orders -> [status : ResvStatuses, rem : Nat]]
  BY DEF ResvStatuses
<1>3. cancel \in [Orders -> [pc : {"idle", "sent", "found", "matched"}, seen : Nat]]
  BY DEF NoCancel
<1> QED
  BY <1>1, <1>2, <1>3 DEF LTypeOK, VenueStatuses

-------------------------------------------------------------------------------
(* The invariant under which Covered is inductive *)

\* Only CONFIRMED trades reach the inbox, and a handler past its insert finds
\* the row as it left it.
EventConfirmed == \A l \in Lots : event[l] # "none" => trade[l] = "confirmed"
InboxOpen      == \A l \in accounting : event[l] = "RECEIVED"

\* The venue knows an order only after Submit, and trades only what it accepted.
NotSentYet ==
    \A o \in Orders :
        task[o] \in {"idle", "admitted", "reserved", "unjournaled", "journaled"}
        => venue[o] = "none"
TradesAtVenue ==
    \A l \in Lots :
        trade[l] # "none" => venue[OrderOf[l]] \in {"live", "canceled", "matched"}

\* create_order only calls an order FAILED that the venue does not have.
FailedNotAtVenue ==
    \A o \in Orders :
        outcome[o] = "FAILED" => /\ venue[o] \in {"none", "rejected"}
                                 /\ task[o] \in {"replied", "persisted", "unpersisted"}

\* filled_size may lose a fill to cancel_order's write-back, never gain one.
FilledBound ==
    \A o \in Orders : /\ journal[o].filled <= Cardinality(Accounted(o))
                      /\ cancel[o].seen <= Cardinality(Accounted(o))

AtVenue == EventConfirmed /\ InboxOpen /\ NotSentYet /\ TradesAtVenue /\ FailedNotAtVenue
LInv    == LTypeOK /\ AtVenue /\ FilledBound /\ Covered

\* create_order sends before the venue knows, and fails what it does not have.
LEMMA AtVenueCreate ==
  ASSUME LInv, NEW o \in Orders, CreateOrderStep(o)
  PROVE  AtVenue'
<1>1. UNCHANGED <<event, accounting, trade>>
  BY DEF CreateOrderStep, Admit, Reserve, ReserveFails, JournalPending, JournalFails,
         ReleaseUnjournaled, AbandonCreate, Submit, NotSubmitted, SubmitAmbiguous, SubmitRejected,
         SubmitAccepted, SubmitMatched, PersistOutcome, PersistFails, MarkUnpersisted,
         SettleReservation, SettleFails, db, inbox, market
<1>2. /\ task \in [Orders -> {"idle", "admitted", "reserved", "unjournaled", "journaled",
                            "sent", "replied", "persisted", "unpersisted", "done",
                             "abandoned"}]
      /\ outcome \in [Orders -> {"none", "OPEN", "MATCHED", "FAILED", "UNKNOWN"}]
      /\ venue \in [Orders -> VenueStatuses]
      /\ OrderOf \in [Lots -> Orders]
  BY ConstantsAssumption DEF LInv, LTypeOK
<1>3. NotSentYet /\ FailedNotAtVenue /\ TradesAtVenue
  BY DEF LInv, AtVenue
<1> USE <1>2, <1>3 DEF NotSentYet, FailedNotAtVenue, TradesAtVenue, GoTo, market, process
<1>4. ASSUME Admit(o)
      PROVE  NotSentYet' /\ FailedNotAtVenue' /\ TradesAtVenue'
  BY <1>1, <1>4 DEF Admit
<1>5. ASSUME Reserve(o)
      PROVE  NotSentYet' /\ FailedNotAtVenue' /\ TradesAtVenue'
  BY <1>1, <1>5 DEF Reserve
<1>6. ASSUME ReserveFails(o)
      PROVE  NotSentYet' /\ FailedNotAtVenue' /\ TradesAtVenue'
  BY <1>1, <1>6 DEF ReserveFails
<1>7. ASSUME JournalPending(o)
      PROVE  NotSentYet' /\ FailedNotAtVenue' /\ TradesAtVenue'
  BY <1>1, <1>7 DEF JournalPending
<1>8. ASSUME JournalFails(o)
      PROVE  NotSentYet' /\ FailedNotAtVenue' /\ TradesAtVenue'
  BY <1>1, <1>8 DEF JournalFails
<1>9. ASSUME ReleaseUnjournaled(o)
      PROVE  NotSentYet' /\ FailedNotAtVenue' /\ TradesAtVenue'
  BY <1>1, <1>9 DEF ReleaseUnjournaled
<1>10. ASSUME Submit(o)
      PROVE  NotSentYet' /\ FailedNotAtVenue' /\ TradesAtVenue'
  BY <1>1, <1>10 DEF Submit
<1>11. ASSUME NotSubmitted(o)
      PROVE  NotSentYet' /\ FailedNotAtVenue' /\ TradesAtVenue'
  BY <1>1, <1>11 DEF NotSubmitted, Replied
<1>12. ASSUME SubmitAmbiguous(o)
      PROVE  NotSentYet' /\ FailedNotAtVenue' /\ TradesAtVenue'
  BY <1>1, <1>12 DEF SubmitAmbiguous, Replied
<1>13. ASSUME SubmitRejected(o)
      PROVE  NotSentYet' /\ FailedNotAtVenue' /\ TradesAtVenue'
  BY <1>1, <1>13 DEF SubmitRejected, Replied
<1>14. ASSUME SubmitAccepted(o)
      PROVE  NotSentYet' /\ FailedNotAtVenue' /\ TradesAtVenue'
  BY <1>1, <1>14 DEF SubmitAccepted, Replied
<1>15. ASSUME SubmitMatched(o)
      PROVE  NotSentYet' /\ FailedNotAtVenue' /\ TradesAtVenue'
  BY <1>1, <1>15 DEF SubmitMatched, Replied
<1>16. ASSUME PersistOutcome(o)
      PROVE  NotSentYet' /\ FailedNotAtVenue' /\ TradesAtVenue'
  BY <1>1, <1>16 DEF PersistOutcome
<1>17. ASSUME PersistFails(o)
      PROVE  NotSentYet' /\ FailedNotAtVenue' /\ TradesAtVenue'
  BY <1>1, <1>17 DEF PersistFails
<1>18. ASSUME MarkUnpersisted(o)
      PROVE  NotSentYet' /\ FailedNotAtVenue' /\ TradesAtVenue'
  BY <1>1, <1>18 DEF MarkUnpersisted, EndTask
<1>19. ASSUME SettleReservation(o)
      PROVE  NotSentYet' /\ FailedNotAtVenue' /\ TradesAtVenue'
  BY <1>1, <1>19 DEF SettleReservation, EndTask
<1>20. ASSUME SettleFails(o)
      PROVE  NotSentYet' /\ FailedNotAtVenue' /\ TradesAtVenue'
  BY <1>1, <1>20 DEF SettleFails, EndTask
<1>22. ASSUME AbandonCreate(o)
      PROVE  NotSentYet' /\ FailedNotAtVenue' /\ TradesAtVenue'
  BY <1>1, <1>22 DEF AbandonCreate
<1>21. EventConfirmed' /\ InboxOpen'
  BY <1>1 DEF LInv, AtVenue, EventConfirmed, InboxOpen
<1> QED
  BY <1>4, <1>5, <1>6, <1>7, <1>8, <1>9, <1>10, <1>11, <1>12, <1>13, <1>14, <1>15,
     <1>16, <1>17, <1>18, <1>19, <1>20, <1>21, <1>22 DEF CreateOrderStep, AtVenue

\* Cancels and fills leave the venue and create_order alone.
LEMMA CancelFrame ==
  ASSUME NEW o \in Orders, CancelStep(o)
  PROVE  UNCHANGED <<event, accounting, venue, trade, task, outcome>>
BY DEF CancelStep, CancelSend, CancelFails, CancelConfirmed, CancelFoundMatched,
       CommitMatched, MarkMatchedUnknown, StreamCancel, MarkCancelPending,
       db, inbox, market, process

\* The fill handlers touch no coroutine and nothing at the venue.
LEMMA FillFrame ==
  ASSUME NEW l \in Lots, FillStep(l)
  PROVE  UNCHANGED <<venue, trade, task, outcome, cancel>>
BY DEF FillStep, RecordFill, ProcessFill, FailFill, AbandonFill, FlagFee, market, process

\* The inbox after a fill handler's step.
LEMMA AtVenueInbox ==
  ASSUME LInv, NEW l \in Lots, UNCHANGED <<venue, trade, task, outcome>>,
         \/ InsertReceived(l) /\ trade[l] = "confirmed"
         \/ /\ l \in accounting /\ accounting' = accounting \ {l}
            /\ \/ event' = [event EXCEPT ![l] = "PROCESSED"]
               \/ event' = [event EXCEPT ![l] = "FAILED"]
  PROVE  AtVenue'
<1> USE DEF LInv, LTypeOK, AtVenue
<1>1. NotSentYet' /\ FailedNotAtVenue' /\ TradesAtVenue'
  BY DEF NotSentYet, FailedNotAtVenue, TradesAtVenue
<1>2. EventConfirmed' /\ InboxOpen'
  BY DEF EventConfirmed, InboxOpen, InsertReceived
<1> QED
  BY <1>1, <1>2

\* The venue trades what it accepted and un-trades only unsettled lots.
LEMMA AtVenueVenue ==
  ASSUME LInv, VenueStep
  PROVE  AtVenue'
<1>1. UNCHANGED <<event, accounting, task, outcome>>
  BY DEF VenueStep, VenueReceive, VenueRefuse, VenueCancel, VenueMatch, SettleConfirm,
         SettleFail, db, inbox, process
<1>2. /\ trade \in [Lots -> {"none", "matched", "confirmed"}]
      /\ venue \in [Orders -> VenueStatuses]
      /\ OrderOf \in [Lots -> Orders]
  BY ConstantsAssumption DEF LInv, LTypeOK
<1>3. AtVenue
  BY DEF LInv
<1> USE <1>1, <1>2, <1>3 DEF AtVenue, NotSentYet, FailedNotAtVenue, TradesAtVenue,
                             EventConfirmed, InboxOpen
<1>4. ASSUME NEW o \in Orders, VenueReceive(o)  PROVE AtVenue'
  BY <1>4 DEF VenueReceive
<1>5. ASSUME NEW o \in Orders, VenueRefuse(o)  PROVE AtVenue'
  BY <1>5 DEF VenueRefuse
<1>6. ASSUME NEW o \in Orders, VenueCancel(o)  PROVE AtVenue'
  BY <1>6 DEF VenueCancel
<1>7. ASSUME NEW l \in Lots, VenueMatch(l)  PROVE AtVenue'
  BY <1>7 DEF VenueMatch
<1>8. ASSUME NEW l \in Lots, SettleConfirm(l)  PROVE AtVenue'
  BY <1>8 DEF SettleConfirm
<1>9. ASSUME NEW l \in Lots, SettleFail(l)  PROVE AtVenue'
  BY <1>9 DEF SettleFail
<1> QED
  BY <1>4, <1>5, <1>6, <1>7, <1>8, <1>9 DEF VenueStep

\* A crash leaves inbox and venue as they are and ends every coroutine.
LEMMA AtVenueCrash ==
  ASSUME LInv, Crash
  PROVE  AtVenue'
<1> USE DEF LInv, AtVenue
<1>1. UNCHANGED <<event, venue, trade>> /\ accounting' = {}
  BY DEF Crash, market
<1>2. EventConfirmed' /\ InboxOpen' /\ TradesAtVenue'
  BY <1>1 DEF EventConfirmed, InboxOpen, TradesAtVenue
<1>3. /\ task' = [o \in Orders |-> IF task[o] = "idle" THEN "idle" ELSE "done"]
      /\ outcome' = [o \in Orders |-> "none"]
  BY DEF Crash
<1>4. NotSentYet'
  <2> SUFFICES ASSUME NEW o \in Orders, task'[o] # "done"
               PROVE  venue'[o] = "none"
    BY DEF NotSentYet
  <2>1. task[o] = "idle"
    BY <1>3
  <2> QED
    BY <1>1, <2>1 DEF NotSentYet
<1>5. FailedNotAtVenue'
  BY <1>3 DEF FailedNotAtVenue
<1> QED
  BY <1>2, <1>4, <1>5

-------------------------------------------------------------------------------
(* Filled sizes *)

\* Accounting more fills keeps every bound by what is accounted.
LEMMA AccountedMore ==
  ASSUME NEW o \in Orders, Accounted(o) \subseteq Accounted(o)'
  PROVE  /\ Cardinality(Accounted(o)) \in Nat
         /\ Cardinality(Accounted(o)') \in Nat
         /\ Cardinality(Accounted(o)) <= Cardinality(Accounted(o)')
<1>1. Accounted(o) \subseteq LotsOf(o) /\ Accounted(o)' \subseteq LotsOf(o)
  BY DEF Accounted, LotsOf
<1>2. IsFiniteSet(Accounted(o)) /\ IsFiniteSet(Accounted(o)')
  BY <1>1, LotsFinite
<1> QED
  BY <1>2, FS_Subset, FS_CardinalityType

\* Writing back a filled size that was read earlier keeps the bound.
LEMMA FilledKept ==
  ASSUME LInv, \A o \in Orders : Accounted(o) \subseteq Accounted(o)',
         \A o \in Orders : /\ journal'[o].filled \in {journal[o].filled, cancel[o].seen}
                           /\ cancel'[o].seen \in {0, cancel[o].seen, journal[o].filled}
  PROVE  FilledBound'
<1> SUFFICES ASSUME NEW o \in Orders
             PROVE  /\ journal'[o].filled <= Cardinality(Accounted(o)')
                    /\ cancel'[o].seen <= Cardinality(Accounted(o)')
  BY DEF FilledBound
<1>1. /\ Cardinality(Accounted(o)) \in Nat
      /\ Cardinality(Accounted(o)') \in Nat
      /\ Cardinality(Accounted(o)) <= Cardinality(Accounted(o)')
  BY AccountedMore
<1>2. journal[o].filled \in Nat /\ cancel[o].seen \in Nat
  BY DEF LInv, LTypeOK
<1>3. /\ journal[o].filled <= Cardinality(Accounted(o))
      /\ cancel[o].seen <= Cardinality(Accounted(o))
  BY DEF LInv, FilledBound
<1> QED
  BY <1>1, <1>2, <1>3

\* create_order never writes filled_size ...
LEMMA FilledCreate ==
  ASSUME LInv, NEW o \in Orders, CreateOrderStep(o)
  PROVE  FilledBound'
<1>0. journal \in JournalType
  BY DEF LInv, LTypeOK, JournalType
<1>1. UNCHANGED <<event, cancel>>
  BY DEF CreateOrderStep, Admit, Reserve, ReserveFails, JournalPending, JournalFails,
         ReleaseUnjournaled, AbandonCreate, Submit, NotSubmitted, SubmitAmbiguous, SubmitRejected,
         SubmitAccepted, SubmitMatched, PersistOutcome, PersistFails, MarkUnpersisted,
         SettleReservation, SettleFails, db, inbox, market, process
<1>2. \A p \in Orders : journal'[p].filled = journal[p].filled
  <2>1. CASE JournalPending(o)
    <3>1. journal' = [journal EXCEPT ![o].status = "PENDING"]
      BY <2>1 DEF JournalPending
    <3> QED
      BY <1>0, <3>1, JournalStatus DEF JournalStatuses, OpenJournalStatuses
  <2>2. CASE PersistOutcome(o)
    <3> DEFINE st == IF outcome[o] = "MATCHED" THEN "UNKNOWN" ELSE outcome[o]
               x  == journal[o].xid \/ outcome[o] \in {"OPEN", "MATCHED"}
    <3>1. st \in JournalStatuses /\ x \in BOOLEAN
      BY DEF LInv, LTypeOK, JournalStatuses, OpenJournalStatuses
    <3>2. WriteOutcome(o, st, x)
      BY <2>2 DEF PersistOutcome, WriteOutcome
    <3> HIDE DEF st, x
    <3> QED
      BY <1>0, <3>1, <3>2, JournalOutcome
  <2>3. CASE UNCHANGED journal
    BY <2>3
  <2> QED
    BY <2>1, <2>2, <2>3
       DEF CreateOrderStep, Admit, Reserve, ReserveFails, JournalFails,
           ReleaseUnjournaled, AbandonCreate, Submit, NotSubmitted, SubmitAmbiguous, SubmitRejected,
           SubmitAccepted, SubmitMatched, PersistFails, MarkUnpersisted,
           SettleReservation, SettleFails, db
<1>3. \A p \in Orders : Accounted(p) \subseteq Accounted(p)'
  BY <1>1 DEF Accounted
<1> QED
  BY <1>1, <1>2, <1>3, FilledKept

\* ... cancel_order writes one it read ...
LEMMA FilledCancel ==
  ASSUME LInv, NEW o \in Orders, CancelStep(o)
  PROVE  FilledBound'
<1>0. journal \in JournalType /\ cancel \in CancelType
  BY DEF LInv, LTypeOK, JournalType, CancelType
<1>1. \A p \in Orders : Accounted(p) \subseteq Accounted(p)'
  BY CancelFrame DEF Accounted
<1> USE DEF db, process
<1> DEFINE Seen   == \A p \in Orders : cancel'[p].seen \in {0, cancel[p].seen}
           Filled == \A p \in Orders : journal'[p].filled = journal[p].filled
<1>2. CASE CancelSend(o)
  <2>1. Seen
    BY <1>0, <1>2, CancelPc DEF CancelSend
  <2> QED
    BY <1>1, <1>2, <2>1, FilledKept DEF CancelSend
<1>3. CASE CancelFails(o)
  <2>1. Seen
    BY <1>0, <1>3, CancelSet DEF CancelFails, NoCancel
  <2> QED
    BY <1>1, <1>3, <2>1, FilledKept DEF CancelFails
<1>4. CASE CancelConfirmed(o)
  <2>1. Seen
    BY <1>0, <1>4, CancelSet DEF CancelConfirmed, NoCancel
  <2>2. journal' = [journal EXCEPT ![o].status = "CANCELED"]
    BY <1>4 DEF CancelConfirmed
  <2>3. Filled
    BY <1>0, <2>2, JournalStatus DEF JournalStatuses
  <2> QED
    BY <1>1, <2>1, <2>3, FilledKept
<1>5. CASE CancelFoundMatched(o)
  <2>1. journal[o].filled \in Nat
    BY DEF LInv, LTypeOK
  <2>2. \A p \in Orders : cancel'[p].seen \in {cancel[p].seen, journal[p].filled}
    BY <1>0, <1>5, <2>1, CancelSet DEF CancelFoundMatched
  <2> QED
    BY <1>1, <1>5, <2>2, FilledKept DEF CancelFoundMatched
<1>6. CASE CommitMatched(o)
  <2>1. cancel[o].seen \in Nat
    BY DEF LInv, LTypeOK
  <2>2. Seen
    BY <1>0, <1>6, CancelSet DEF CommitMatched
  <2>3. WriteFilled(o, "UNKNOWN", cancel[o].seen)
    BY <1>6 DEF CommitMatched, WriteFilled
  <2>4. \A p \in Orders :
           journal'[p].filled = IF p = o THEN cancel[o].seen ELSE journal[p].filled
    BY <1>0, <2>1, <2>3, JournalFilled DEF JournalStatuses, OpenJournalStatuses
  <2> QED
    BY <1>1, <2>2, <2>4, FilledKept
<1>7. CASE MarkMatchedUnknown(o)
  <2>1. Seen
    BY <1>0, <1>7, CancelSet DEF MarkMatchedUnknown, NoCancel
  <2> QED
    BY <1>1, <1>7, <2>1, FilledKept DEF MarkMatchedUnknown
<1>8. CASE StreamCancel(o)
  <2>1. journal' = [journal EXCEPT ![o].status = "CANCELED"]
    BY <1>8 DEF StreamCancel
  <2>2. Filled
    BY <1>0, <2>1, JournalStatus DEF JournalStatuses
  <2> QED
    BY <1>1, <1>8, <2>2, FilledKept DEF StreamCancel
<1>9. ASSUME NEW h \in {"oms", "stream"}, MarkCancelPending(o, h)  PROVE FilledBound'
  BY <1>1, <1>9, FilledKept DEF MarkCancelPending
<1> QED
  BY <1>2, <1>3, <1>4, <1>5, <1>6, <1>7, <1>8, <1>9 DEF CancelStep

\* A fill adds the same lot to the filled size and to what is accounted.
LEMMA FillAccounts ==
  ASSUME LInv, NEW l \in Lots, ProcessFill(l)
  PROVE  /\ l \in Unaccounted(OrderOf[l]) /\ l \notin Accounted(OrderOf[l])
         /\ OrderOf[l] \in Orders
         /\ \A o \in Orders :
               Accounted(o)' = IF o = OrderOf[l] THEN Accounted(o) \cup {l} ELSE Accounted(o)
<1>1. /\ l \in accounting /\ event' = [event EXCEPT ![l] = "PROCESSED"]
      /\ event \in [Lots -> {"none", "RECEIVED", "PROCESSED", "FAILED"}]
      /\ OrderOf \in [Lots -> Orders]
  BY ConstantsAssumption DEF ProcessFill, LInv, LTypeOK
<1>2. event[l] = "RECEIVED" /\ trade[l] = "confirmed"
  BY <1>1 DEF LInv, AtVenue, InboxOpen, EventConfirmed
<1>3. l \in Unaccounted(OrderOf[l]) /\ l \notin Accounted(OrderOf[l])
  BY <1>2 DEF Unaccounted, Accounted, Matched, LotsOf
<1> QED
  BY <1>1, <1>3 DEF Accounted, LotsOf

\* ... and a processed fill raises both sides by one.
LEMMA FilledFill ==
  ASSUME LInv, NEW l \in Lots, FillStep(l)
  PROVE  FilledBound'
<1>0. journal \in JournalType /\ event \in [Lots -> {"none", "RECEIVED", "PROCESSED", "FAILED"}]
  BY DEF LInv, LTypeOK, JournalType
<1>1. UNCHANGED cancel
  BY FillFrame
<1>2. CASE RecordFill(l)
  <2>1. \A o \in Orders : Accounted(o) \subseteq Accounted(o)'
    BY <1>0, <1>2 DEF RecordFill, InsertReceived, Accounted
  <2> QED
    BY <1>1, <1>2, <2>1, FilledKept DEF RecordFill
<1>3. CASE FailFill(l)
  <2>1. event[l] = "RECEIVED"
    BY <1>3 DEF FailFill, LInv, AtVenue, InboxOpen
  <2>2. \A o \in Orders : Accounted(o) \subseteq Accounted(o)'
    BY <1>0, <1>3, <2>1 DEF FailFill, Accounted
  <2> QED
    BY <1>1, <1>3, <2>2, FilledKept DEF FailFill
<1>4. CASE ProcessFill(l)
  <2> DEFINE o == OrderOf[l]
             n == journal[o].filled + 1
             st == IF n = Size(o) THEN "FILLED" ELSE "OPEN"
  <2>1. o \in Orders /\ n \in Nat /\ st \in JournalStatuses
    BY <1>4, FillAccounts DEF LInv, LTypeOK, JournalStatuses, OpenJournalStatuses
  <2>2. WriteFilled(o, st, n)
    BY <1>4 DEF ProcessFill, WriteFilled
  <2> HIDE DEF st, n
  <2>3. \A p \in Orders : journal'[p].filled = IF p = o THEN n ELSE journal[p].filled
    BY <1>0, <2>1, <2>2, JournalFilled
  <2> SUFFICES ASSUME NEW p \in Orders
               PROVE  /\ journal'[p].filled <= Cardinality(Accounted(p)')
                      /\ cancel'[p].seen <= Cardinality(Accounted(p)')
    BY DEF FilledBound
  <2>4. /\ Accounted(p) \subseteq Accounted(p)'
        /\ p = o => Accounted(p)' = Accounted(p) \cup {l} /\ l \notin Accounted(p)
    BY <1>4, FillAccounts
  <2>5. IsFiniteSet(Accounted(p))
    <3>1. Accounted(p) \subseteq LotsOf(p)
      BY DEF Accounted
    <3> QED
      BY <3>1, LotsFinite
  <2>6. p = o => Cardinality(Accounted(p)') = Cardinality(Accounted(p)) + 1
    BY <2>4, <2>5, FS_AddElement
  <2>7. /\ Cardinality(Accounted(p)) \in Nat /\ Cardinality(Accounted(p)') \in Nat
        /\ Cardinality(Accounted(p)) <= Cardinality(Accounted(p)')
    BY <2>4, AccountedMore
  <2>8. /\ journal[p].filled \in Nat /\ cancel[p].seen \in Nat
        /\ journal[p].filled <= Cardinality(Accounted(p))
        /\ cancel[p].seen <= Cardinality(Accounted(p))
    BY DEF LInv, LTypeOK, FilledBound
  <2> QED
    BY <1>1, <2>3, <2>6, <2>7, <2>8 DEF n
<1>5. CASE AbandonFill(l) \/ FlagFee(l)
  BY <1>1, <1>5, FilledKept DEF AbandonFill, FlagFee, Accounted, db, inbox
<1> QED
  BY <1>2, <1>3, <1>4, <1>5 DEF FillStep

-------------------------------------------------------------------------------
(* Covered *)

\* The order can still be sent, is in flight or rests at the venue.
Sendable(o) == task[o] \in {"reserved", "journaled"} \/ venue[o] \in {"inflight", "live"}

\* A claim is a number of lots of the order.
LEMMA ClaimFinite ==
  ASSUME NEW o \in Orders
  PROVE  /\ IsFiniteSet(Unaccounted(o)) /\ Claim(o) \in Nat /\ Claim(o) <= Size(o)
         /\ IsFiniteSet(Unaccounted(o)') /\ Claim(o)' \in Nat /\ Claim(o)' <= Size(o)
<1>1. Unaccounted(o) \subseteq LotsOf(o) /\ Unaccounted(o)' \subseteq LotsOf(o)
  BY DEF Unaccounted, Matched, LotsOf
<1> QED
  BY <1>1, LotsFinite DEF Claim

\* What is held is a number of shares.
LEMMA HeldType ==
  ASSUME NEW o \in Orders
  PROVE  /\ LTypeOK => Held(o) \in Nat
         /\ LTypeOK' => Held(o)' \in Nat
BY DEF LTypeOK, Held

\* A claim that does not grow stays covered by a reservation that does not shrink.
LEMMA ClaimKept ==
  ASSUME LInv, NEW o \in Orders, Unaccounted(o)' \subseteq Unaccounted(o),
         Held(o)' = Held(o)
  PROVE  Claim(o)' <= Held(o)'
<1>1. Claim(o) <= Held(o) /\ Held(o) \in Nat
  BY HeldType DEF LInv, Covered
<1>2. Cardinality(Unaccounted(o)') <= Cardinality(Unaccounted(o))
  BY ClaimFinite, FS_Subset
<1>3. Claim(o)' <= Claim(o)
  BY <1>2 DEF Claim
<1> QED
  BY <1>1, <1>3, ClaimFinite

\* Nothing makes an order claim more but Reserve (and the venue, of one it could
\* still match).
LEMMA UnaccountedShrinks ==
  ASSUME NEW o \in Orders, Accounted(o) \subseteq Accounted(o)',
         Sendable(o)' => Sendable(o),
         Sendable(o) \/ Matched(o)' \subseteq Matched(o)
  PROVE  Unaccounted(o)' \subseteq Unaccounted(o)
<1>1. Matched(o) \subseteq LotsOf(o) /\ Matched(o)' \subseteq LotsOf(o)
  BY DEF Matched, LotsOf
<1> QED
  BY <1>1 DEF Unaccounted, Sendable

\* An order the venue does not have and that is not on its way claims nothing.
LEMMA NoClaim ==
  ASSUME LInv, NEW o \in Orders, venue[o] \in {"none", "rejected"}, ~Sendable(o)
  PROVE  Unaccounted(o) = {}
<1>1. Matched(o) = {}
  BY DEF Matched, LotsOf, LInv, AtVenue, TradesAtVenue
<1> QED
  BY <1>1 DEF Unaccounted, Sendable

\* Only Reserve makes an order sendable.
LEMMA CreateSends ==
  ASSUME LTypeOK, NEW o \in Orders, CreateOrderStep(o), ~Reserve(o), NEW p \in Orders
  PROVE  Sendable(p)' => Sendable(p)
<1> USE DEF LTypeOK, Sendable, GoTo, market, process
<1>1. CASE Admit(o) \/ ReserveFails(o) \/ JournalPending(o) \/ JournalFails(o)
  BY <1>1 DEF Admit, ReserveFails, JournalPending, JournalFails
<1>2. CASE ReleaseUnjournaled(o) \/ Submit(o)
  BY <1>2 DEF ReleaseUnjournaled, Submit
<1>3. CASE NotSubmitted(o) \/ SubmitAmbiguous(o) \/ SubmitRejected(o)
  BY <1>3 DEF NotSubmitted, SubmitAmbiguous, SubmitRejected, Replied
<1>4. CASE SubmitAccepted(o) \/ SubmitMatched(o)
  BY <1>4 DEF SubmitAccepted, SubmitMatched, Replied
<1>5. CASE PersistOutcome(o) \/ PersistFails(o) \/ MarkUnpersisted(o)
  BY <1>5 DEF PersistOutcome, PersistFails, MarkUnpersisted, EndTask
<1>6. CASE SettleReservation(o) \/ SettleFails(o) \/ AbandonCreate(o)
  BY <1>6 DEF SettleReservation, SettleFails, AbandonCreate, EndTask
<1> QED
  BY <1>1, <1>2, <1>3, <1>4, <1>5, <1>6 DEF CreateOrderStep

\* Releasing the reservation of an order without claim is safe.
LEMMA CoveredRelease ==
  ASSUME LInv, NEW o \in Orders, NEW st \in TerminalStatuses, Release(o, st),
         Unaccounted(o) = {},
         \A p \in Orders : Unaccounted(p)' \subseteq Unaccounted(p)
  PROVE  Covered'
<1>1. /\ \A p \in Orders : p # o => Held(p)' = Held(p)
      /\ Held(o)' = 0
  BY ReleaseLemma DEF LInv, LTypeOK, ResvType
<1>2. Claim(o)' = 0
  BY FS_EmptySet DEF Claim
<1>3. ASSUME NEW p \in Orders  PROVE Claim(p)' <= Held(p)'
  BY <1>1, <1>2, ClaimKept
<1> QED
  BY <1>3 DEF Covered

\* create_order keeps reservations covering: Reserve admits the whole order, and
\* a release follows only an outcome that leaves no claim.
LEMMA CoveredCreate ==
  ASSUME LInv, NEW o \in Orders, CreateOrderStep(o)
  PROVE  Covered'
<1>1. UNCHANGED <<event, trade>>
  BY DEF CreateOrderStep, Admit, Reserve, ReserveFails, JournalPending, JournalFails,
         ReleaseUnjournaled, AbandonCreate, Submit, NotSubmitted, SubmitAmbiguous, SubmitRejected,
         SubmitAccepted, SubmitMatched, PersistOutcome, PersistFails, MarkUnpersisted,
         SettleReservation, SettleFails, db, inbox, market
<1>2. \A p \in Orders : Accounted(p)' = Accounted(p) /\ Matched(p)' = Matched(p)
  BY <1>1 DEF Accounted, Matched
<1>3. resv \in ResvType /\ LTypeOK
  BY DEF LInv, LTypeOK, ResvType
<1>4. CASE Reserve(o)
  <2>1. /\ Held(o)' = Size(o)
        /\ \A p \in Orders : p # o => Held(p)' = Held(p)
    BY <1>3, <1>4 DEF Reserve, Held, Active, ActiveStatuses, ResvType
  <2>2. \A p \in Orders : p # o => (Sendable(p)' <=> Sendable(p))
    BY <1>3, <1>4 DEF Reserve, Sendable, GoTo, market, LTypeOK
  <2>3. \A p \in Orders : p # o => Unaccounted(p)' \subseteq Unaccounted(p)
    BY <1>2, <2>2, UnaccountedShrinks
  <2>4. ASSUME NEW p \in Orders  PROVE Claim(p)' <= Held(p)'
    BY <2>1, <2>3, ClaimKept, ClaimFinite
  <2> QED
    BY <2>4 DEF Covered
<1>5. CASE ~Reserve(o)
  <2>1. \A p \in Orders : Sendable(p)' => Sendable(p)
    BY <1>3, <1>5, CreateSends
  <2>2. \A p \in Orders : Unaccounted(p)' \subseteq Unaccounted(p)
    BY <1>2, <2>1, UnaccountedShrinks
  <2>3. ASSUME \A p \in Orders : Held(p)' = Held(p)  PROVE Covered'
    BY <2>2, <2>3, ClaimKept DEF Covered
  <2>4. ASSUME UNCHANGED resv  PROVE Covered'
    BY <2>3, <2>4 DEF Held, Active
  <2>5. CASE ReleaseUnjournaled(o)
    <3>1. Unaccounted(o) = {}
      BY <2>5, NoClaim DEF ReleaseUnjournaled, Sendable, LInv, AtVenue, NotSentYet
    <3>2. CASE Release(o, "JOURNAL_FAILED")
      BY <2>2, <3>1, <3>2, CoveredRelease DEF TerminalStatuses
    <3> QED
      BY <2>4, <2>5, <3>2 DEF ReleaseUnjournaled
  <2>6. CASE MarkUnpersisted(o)
    BY <1>3, <2>3, <2>6, MarkLemma DEF MarkUnpersisted, ActiveStatuses
  <2>7. CASE SettleReservation(o)
    <3>1. CASE outcome[o] = "OPEN"
      <4>1. \A p \in Orders : Held(p)' = Held(p)
        BY <1>3, <2>7, <3>1 DEF SettleReservation, Held, Active, ActiveStatuses, ResvType
      <4> QED
        BY <2>3, <4>1
    <3>2. CASE Mark(o, "UNKNOWN")
      BY <1>3, <2>3, <3>2, MarkLemma DEF ActiveStatuses
    <3>3. CASE outcome[o] = "FAILED" /\ Release(o, "ORDER_FAILED")
      <4>1. Unaccounted(o) = {}
        BY <2>7, <3>3, NoClaim
           DEF SettleReservation, Sendable, LInv, AtVenue, FailedNotAtVenue
      <4> QED
        BY <2>2, <3>3, <4>1, CoveredRelease DEF TerminalStatuses
    <3> QED
      BY <2>7, <3>1, <3>2, <3>3 DEF SettleReservation
  <2> QED
    BY <1>5, <2>4, <2>5, <2>6, <2>7
       DEF CreateOrderStep, Admit, ReserveFails, JournalPending, JournalFails,
           Submit, NotSubmitted, SubmitAmbiguous, SubmitRejected, SubmitAccepted,
           SubmitMatched, PersistOutcome, PersistFails, SettleFails, AbandonCreate, db
<1> QED
  BY <1>4, <1>5

\* A cancel, whichever side reports it, releases nothing.
LEMMA CoveredCancel ==
  ASSUME LInv, NEW o \in Orders, CancelStep(o)
  PROVE  Covered'
<1>1. \A p \in Orders : Unaccounted(p)' = Unaccounted(p)
  BY CancelFrame DEF Unaccounted, Accounted, Matched
<1>2. resv \in ResvType
  BY DEF LInv, LTypeOK, ResvType
<1>3. ASSUME \A p \in Orders : Held(p)' = Held(p)  PROVE Covered'
  BY <1>1, <1>3, ClaimKept DEF Covered
<1>4. CASE UNCHANGED resv
  BY <1>3, <1>4 DEF Held, Active
<1>5. CASE Mark(o, "UNKNOWN") \/ Mark(o, "CANCEL_PENDING_RECONCILE")
  BY <1>2, <1>3, <1>5, MarkLemma DEF ActiveStatuses
<1> QED
  BY <1>4, <1>5
     DEF CancelStep, CancelSend, CancelFails, CancelConfirmed, CancelFoundMatched,
         CommitMatched, MarkMatchedUnknown, StreamCancel, MarkCancelPending, db

\* A fill takes one share off the claim and off the reservation.
LEMMA CoveredFill ==
  ASSUME LInv, NEW l \in Lots, FillStep(l)
  PROVE  Covered'
<1>1. \A o \in Orders : Matched(o)' = Matched(o) /\ (Sendable(o)' <=> Sendable(o))
  BY FillFrame DEF Matched, Sendable
<1>2. event \in [Lots -> {"none", "RECEIVED", "PROCESSED", "FAILED"}] /\ resv \in ResvType
  BY DEF LInv, LTypeOK, ResvType
<1>3. ASSUME UNCHANGED resv, \A o \in Orders : Accounted(o) \subseteq Accounted(o)'
      PROVE  Covered'
  <2> SUFFICES ASSUME NEW o \in Orders  PROVE Claim(o)' <= Held(o)'
    BY DEF Covered
  <2>1. Held(o)' = Held(o)
    BY <1>3 DEF Held, Active
  <2>2. Unaccounted(o)' \subseteq Unaccounted(o)
    BY <1>1, <1>3, UnaccountedShrinks
  <2> QED
    BY <2>1, <2>2, ClaimKept
<1>4. CASE RecordFill(l)
  <2>1. \A o \in Orders : Accounted(o) \subseteq Accounted(o)'
    BY <1>2, <1>4 DEF RecordFill, InsertReceived, Accounted
  <2> QED
    BY <1>3, <1>4, <2>1 DEF RecordFill
<1>5. CASE FailFill(l)
  <2>1. event[l] = "RECEIVED"
    BY <1>5 DEF FailFill, LInv, AtVenue, InboxOpen
  <2>2. \A o \in Orders : Accounted(o) \subseteq Accounted(o)'
    BY <1>2, <1>5, <2>1 DEF FailFill, Accounted
  <2> QED
    BY <1>3, <1>5, <2>2 DEF FailFill
<1>6. CASE ProcessFill(l)
  <2> SUFFICES ASSUME NEW o \in Orders  PROVE Claim(o)' <= Held(o)'
    BY DEF Covered
  <2>1. /\ l \in Unaccounted(OrderOf[l]) /\ OrderOf[l] \in Orders
        /\ Accounted(o)' = IF o = OrderOf[l] THEN Accounted(o) \cup {l} ELSE Accounted(o)
    BY <1>6, FillAccounts
  <2>2. CASE o # OrderOf[l]
    <3>1. Held(o)' = Held(o)
      BY <1>2, <1>6, <2>1, <2>2 DEF ProcessFill, Held, Active, ResvType
    <3>2. Unaccounted(o)' \subseteq Unaccounted(o)
      BY <1>1, <2>1, <2>2, UnaccountedShrinks
    <3> QED
      BY <3>1, <3>2, ClaimKept
  <2>3. CASE o = OrderOf[l]
    <3>1. Unaccounted(o)' = Unaccounted(o) \ {l}
      BY <1>1, <2>1, <2>3 DEF Unaccounted, Sendable
    <3>2. Claim(o)' = Claim(o) - 1
      BY <2>1, <2>3, <3>1, ClaimFinite, FS_RemoveElement DEF Claim
    <3>3. Active(o) /\ resv[o].rem \in Nat /\ resv[o].rem >= 1
      BY <1>2, <1>6, <2>3 DEF ProcessFill, FillAccepted, FillFits, ResvType
    <3>4. resv'[o] = [status |-> IF resv[o].rem - 1 = 0 THEN "FILLED" ELSE "PARTIAL",
                      rem |-> resv[o].rem - 1]
      BY <1>2, <1>6, <2>3 DEF ProcessFill, ResvType
    <3>5. Held(o)' = Held(o) - 1
      BY <3>3, <3>4 DEF Held, Active, ActiveStatuses
    <3>6. Claim(o) <= Held(o) /\ Held(o) \in Nat
      BY HeldType DEF LInv, Covered
    <3> QED
      BY <3>2, <3>5, <3>6, ClaimFinite
  <2> QED
    BY <2>2, <2>3
<1>7. CASE AbandonFill(l) \/ FlagFee(l)
  BY <1>3, <1>7 DEF AbandonFill, FlagFee, Accounted, db, inbox
<1> QED
  BY <1>4, <1>5, <1>6, <1>7 DEF FillStep

\* The venue may only match what is still claimed.
LEMMA VenueClaims ==
  ASSUME LTypeOK, VenueStep, NEW o \in Orders
  PROVE  /\ Sendable(o)' => Sendable(o)
         /\ Sendable(o) \/ Matched(o)' \subseteq Matched(o)
<1>0. /\ trade \in [Lots -> {"none", "matched", "confirmed"}]
      /\ venue \in [Orders -> VenueStatuses]
      /\ OrderOf \in [Lots -> Orders]
  BY ConstantsAssumption DEF LTypeOK
<1>1. UNCHANGED task
  BY DEF VenueStep, VenueReceive, VenueRefuse, VenueCancel, VenueMatch, SettleConfirm,
         SettleFail, process
<1>2. CASE \E p \in Orders : VenueReceive(p) \/ VenueRefuse(p) \/ VenueCancel(p)
  BY <1>0, <1>1, <1>2 DEF VenueReceive, VenueRefuse, VenueCancel, Sendable, Matched
<1>3. ASSUME NEW l \in Lots, VenueMatch(l)
      PROVE  /\ Sendable(o)' => Sendable(o)
             /\ Sendable(o) \/ Matched(o)' \subseteq Matched(o)
  <2>1. /\ venue[OrderOf[l]] = "live"
        /\ trade' = [trade EXCEPT ![l] = "matched"]
        /\ venue' = venue \/ venue' = [venue EXCEPT ![OrderOf[l]] = "matched"]
    BY <1>3 DEF VenueMatch
  <2>2. Sendable(o)' => Sendable(o)
    BY <1>0, <1>1, <2>1 DEF Sendable
  <2>3. CASE o = OrderOf[l]
    BY <2>1, <2>2, <2>3 DEF Sendable
  <2>4. CASE o # OrderOf[l]
    <3>1. Matched(o)' \subseteq Matched(o)
      BY <1>0, <2>1, <2>4 DEF Matched, LotsOf
    <3> QED
      BY <2>2, <3>1
  <2> QED
    BY <2>3, <2>4
<1>4. ASSUME NEW l \in Lots, SettleConfirm(l) \/ SettleFail(l)
      PROVE  (Sendable(o)' => Sendable(o)) /\ Matched(o)' \subseteq Matched(o)
  <2>1. UNCHANGED venue
    BY <1>4 DEF SettleConfirm, SettleFail
  <2>2. \A k \in Lots : trade[k] = "none" => trade'[k] = "none"
    BY <1>0, <1>4 DEF SettleConfirm, SettleFail
  <2> QED
    BY <1>1, <2>1, <2>2 DEF Sendable, Matched, LotsOf
<1> QED
  BY <1>2, <1>3, <1>4 DEF VenueStep

\* Steps that touch neither the inbox nor the reservations, but may shrink claims.
LEMMA CoveredQuiet ==
  ASSUME LInv, UNCHANGED <<event, resv>>,
         \A o \in Orders : /\ Sendable(o)' => Sendable(o)
                           /\ Sendable(o) \/ Matched(o)' \subseteq Matched(o)
  PROVE  Covered'
<1> SUFFICES ASSUME NEW o \in Orders  PROVE Claim(o)' <= Held(o)'
  BY DEF Covered
<1>1. Held(o)' = Held(o) /\ Accounted(o)' = Accounted(o)
  BY DEF Held, Active, Accounted
<1>2. Unaccounted(o)' \subseteq Unaccounted(o)
  BY <1>1, UnaccountedShrinks
<1> QED
  BY <1>1, <1>2, ClaimKept

\* A crash sends nothing.
LEMMA CrashClaims ==
  ASSUME Crash, NEW o \in Orders
  PROVE  (Sendable(o)' => Sendable(o)) /\ Matched(o)' \subseteq Matched(o)
<1>1. UNCHANGED <<venue, trade>>
  BY DEF Crash, market
<1>2. task'[o] \notin {"reserved", "journaled"}
  BY DEF Crash
<1> QED
  BY <1>1, <1>2 DEF Sendable, Matched

-------------------------------------------------------------------------------
(* AccountedOnce *)

\* The lots SharesOf counts.
Processed(side, m) ==
    {l \in Lots : /\ event[l] = "PROCESSED" /\ Side[OrderOf[l]] = side
                  /\ MarketOf[OrderOf[l]] = m}

\* Their number is the sum's.
LEMMA ProcessedFinite ==
  ASSUME NEW side, NEW m
  PROVE  /\ SharesOf(side, m) = Cardinality(Processed(side, m))
         /\ SharesOf(side, m)' = Cardinality(Processed(side, m)')
         /\ IsFiniteSet(Processed(side, m)) /\ SharesOf(side, m) \in Nat
<1>1. Processed(side, m) \subseteq Lots
  BY DEF Processed
<1>2. IsFiniteSet(Processed(side, m))
  BY <1>1, ConstantsAssumption, FS_Subset
<1> QED
  BY <1>2, FS_CardinalityType DEF SharesOf, Processed

\* Steps that process no event keep it ...
LEMMA OnceKept ==
  ASSUME AccountedOnce, UNCHANGED shares,
         \A l \in Lots : event'[l] = "PROCESSED" <=> event[l] = "PROCESSED"
  PROVE  AccountedOnce'
<1>1. ASSUME NEW side, NEW m  PROVE SharesOf(side, m)' = SharesOf(side, m)
  <2>1. Processed(side, m)' = Processed(side, m)
    BY DEF Processed
  <2> QED
    BY <2>1, ProcessedFinite
<1> QED
  BY <1>1 DEF AccountedOnce

\* ... and a processed fill moves one share and counts one event.
LEMMA OnceFill ==
  ASSUME LInv, AccountedOnce, NEW l \in Lots, ProcessFill(l)
  PROVE  AccountedOnce'
<1> DEFINE o == OrderOf[l]
           k == MarketOf[o]
<1>1. /\ o \in Orders /\ k \in Markets /\ Side[o] \in {"BUY", "SELL"}
      /\ shares \in [Markets -> Nat] /\ InitialShares \in [Markets -> Nat]
      /\ event \in [Lots -> {"none", "RECEIVED", "PROCESSED", "FAILED"}]
  BY ConstantsAssumption DEF LInv, LTypeOK
<1>2. event[l] # "PROCESSED" /\ event' = [event EXCEPT ![l] = "PROCESSED"]
  BY DEF ProcessFill, LInv, AtVenue, InboxOpen
<1>3. shares' = IF Side[o] = "BUY" THEN [shares EXCEPT ![k] = @ + 1]
                ELSE [shares EXCEPT ![k] = @ - 1]
  BY DEF ProcessFill
<1>4. ASSUME NEW side, NEW m
      PROVE  SharesOf(side, m)' =
                IF side = Side[o] /\ m = k THEN SharesOf(side, m) + 1 ELSE SharesOf(side, m)
  <2>1. CASE side = Side[o] /\ m = k
    <3>1. /\ Processed(side, m)' = Processed(side, m) \cup {l}
          /\ l \notin Processed(side, m)
      BY <1>1, <1>2, <2>1 DEF Processed
    <3> QED
      BY <2>1, <3>1, ProcessedFinite, FS_AddElement
  <2>2. CASE ~(side = Side[o] /\ m = k)
    <3>1. Processed(side, m)' = Processed(side, m)
      BY <1>1, <1>2, <2>2 DEF Processed
    <3> QED
      BY <2>2, <3>1, ProcessedFinite
  <2> QED
    BY <2>1, <2>2
<1> SUFFICES ASSUME NEW m \in Markets
             PROVE  shares'[m] =
                       InitialShares[m] + SharesOf("BUY", m)' - SharesOf("SELL", m)'
  BY DEF AccountedOnce
<1>5. shares[m] = InitialShares[m] + SharesOf("BUY", m) - SharesOf("SELL", m)
  BY DEF AccountedOnce
<1>6. /\ SharesOf("BUY", m) \in Nat /\ SharesOf("SELL", m) \in Nat
      /\ shares[m] \in Nat /\ InitialShares[m] \in Nat
  BY <1>1, ProcessedFinite
<1>7. shares'[m] = IF m # k THEN shares[m]
                   ELSE IF Side[o] = "BUY" THEN shares[m] + 1 ELSE shares[m] - 1
  BY <1>1, <1>3
<1>8. /\ SharesOf("BUY", m)' =
            IF Side[o] = "BUY" /\ m = k THEN SharesOf("BUY", m) + 1 ELSE SharesOf("BUY", m)
      /\ SharesOf("SELL", m)' =
            IF Side[o] = "SELL" /\ m = k THEN SharesOf("SELL", m) + 1
            ELSE SharesOf("SELL", m)
  BY <1>4
<1> HIDE DEF o, k
<1> QED
  BY <1>1, <1>5, <1>6, <1>7, <1>8

\* No other step of the order path touches inventory or processes an event.
LEMMA OnceStep ==
  ASSUME LInv, AccountedOnce, LifecycleNext \/ Crash \/ Restart \/ Rebuild
  PROVE  AccountedOnce'
<1>0. event \in [Lots -> {"none", "RECEIVED", "PROCESSED", "FAILED"}]
  BY DEF LInv, LTypeOK
<1>1. CASE UNCHANGED <<shares, event>>
  BY <1>1, OnceKept
<1>2. ASSUME NEW o \in Orders, CreateOrderStep(o)  PROVE UNCHANGED <<shares, event>>
  BY <1>2
     DEF CreateOrderStep, Admit, Reserve, ReserveFails, JournalPending, JournalFails,
         ReleaseUnjournaled, AbandonCreate, Submit, NotSubmitted, SubmitAmbiguous, SubmitRejected,
         SubmitAccepted, SubmitMatched, PersistOutcome, PersistFails, MarkUnpersisted,
         SettleReservation, SettleFails, db, inbox
<1>3. ASSUME NEW o \in Orders, CancelStep(o)  PROVE UNCHANGED <<shares, event>>
  BY <1>3
     DEF CancelStep, CancelSend, CancelFails, CancelConfirmed, CancelFoundMatched,
         CommitMatched, MarkMatchedUnknown, StreamCancel, MarkCancelPending, db, inbox
<1>4. ASSUME NEW l \in Lots, FillStep(l)  PROVE AccountedOnce'
  <2>1. CASE RecordFill(l)
    BY <1>0, <2>1, OnceKept DEF RecordFill, InsertReceived
  <2>2. CASE FailFill(l)
    <3>1. event[l] = "RECEIVED"
      BY <2>2 DEF FailFill, LInv, AtVenue, InboxOpen
    <3> QED
      BY <1>0, <2>2, <3>1, OnceKept DEF FailFill
  <2>3. CASE AbandonFill(l) \/ FlagFee(l)
    BY <1>1, <2>3 DEF AbandonFill, FlagFee, db, inbox
  <2> QED
    BY <1>4, <2>1, <2>2, <2>3, OnceFill DEF FillStep
<1>5. CASE VenueStep \/ PersistHalt \/ Crash \/ Restart \/ Rebuild
  <2>1. UNCHANGED <<shares, event>>
    BY <1>5
       DEF VenueStep, VenueReceive, VenueRefuse, VenueCancel, VenueMatch, SettleConfirm,
           SettleFail, PersistHalt, Crash, Restart, Rebuild, db, inbox
  <2> QED
    BY <1>1, <2>1
<1> QED
  BY <1>1, <1>2, <1>3, <1>4, <1>5 DEF LifecycleNext

\* No event is processed at first.
LEMMA OnceInit == LInit => AccountedOnce
<1> SUFFICES ASSUME LInit, NEW m \in Markets
             PROVE  shares[m] = InitialShares[m] + SharesOf("BUY", m) - SharesOf("SELL", m)
  BY DEF AccountedOnce
<1>1. ASSUME NEW side  PROVE SharesOf(side, m) = 0
  <2>1. Processed(side, m) = {}
    BY DEF LInit, Processed
  <2> QED
    BY <2>1, ProcessedFinite, FS_EmptySet
<1> QED
  BY <1>1, ConstantsAssumption DEF LInit

-------------------------------------------------------------------------------
(* The lifecycle steps, and the theorem for a process that does not crash *)

\* LInv holds at first ...
LEMMA LInvInit == LInit => LInv
<1> SUFFICES ASSUME LInit PROVE LInv
  OBVIOUS
<1>1. LTypeOK
  BY TypeInit
<1>2. AtVenue
  BY DEF LInit, AtVenue, EventConfirmed, InboxOpen, NotSentYet, TradesAtVenue,
         FailedNotAtVenue
<1>3. \A o \in Orders : Accounted(o) = {} /\ Unaccounted(o) = {}
  BY ConstantsAssumption DEF LInit, Accounted, Unaccounted, Matched, LotsOf
<1>4. \A o \in Orders : Cardinality(Accounted(o)) = 0 /\ Claim(o) = 0
  BY <1>3, FS_EmptySet DEF Claim
<1>5. \A o \in Orders : journal[o].filled = 0 /\ cancel[o].seen = 0
  BY DEF LInit, NoCancel
<1>6. FilledBound
  BY <1>4, <1>5 DEF FilledBound
<1>7. \A o \in Orders : Held(o) \in Nat
  BY <1>1, HeldType
<1>8. Covered
  BY <1>4, <1>7 DEF Covered
<1> QED
  BY <1>1, <1>2, <1>6, <1>8 DEF LInv

\* ... in steps that leave orders and reservations alone ...
LEMMA LInvQuiet ==
  ASSUME LInv, LTypeOK',
         UNCHANGED <<journal, resv, event, accounting, venue, trade, task, outcome, cancel>>
  PROVE  LInv'
<1>1. AtVenue'
  BY DEF LInv, AtVenue, EventConfirmed, InboxOpen, NotSentYet, TradesAtVenue,
         FailedNotAtVenue
<1>2. FilledBound'
  BY DEF LInv, FilledBound, Accounted
<1>3. Covered'
  BY DEF LInv, Covered, Claim, Unaccounted, Accounted, Matched, Held, Active
<1> QED
  BY <1>1, <1>2, <1>3 DEF LInv

\* ... in every step of a running process ...
LEMMA LInvStep ==
  ASSUME LInv, LifecycleNext
  PROVE  LInv'
<1>0. LTypeOK
  BY DEF LInv
<1>1. ASSUME NEW o \in Orders, CreateOrderStep(o)  PROVE LInv'
  BY <1>0, <1>1, TypeCreate, AtVenueCreate, FilledCreate, CoveredCreate DEF LInv
<1>2. ASSUME NEW o \in Orders, CancelStep(o)  PROVE LInv'
  <2>1. AtVenue'
    BY <1>2, CancelFrame DEF LInv, AtVenue, EventConfirmed, InboxOpen, NotSentYet,
                             TradesAtVenue, FailedNotAtVenue
  <2> QED
    BY <1>0, <1>2, <2>1, TypeCancel, FilledCancel, CoveredCancel DEF LInv
<1>3. ASSUME NEW l \in Lots, FillStep(l)  PROVE LInv'
  <2>1. AtVenue'
    <3>1. CASE RecordFill(l) \/ ProcessFill(l) \/ FailFill(l)
      BY <1>3, <3>1, FillFrame, AtVenueInbox DEF RecordFill, ProcessFill, FailFill
    <3>2. CASE AbandonFill(l) \/ FlagFee(l)
      <4>1. UNCHANGED <<event, venue, trade, task, outcome>> /\ accounting' \subseteq accounting
        BY <1>3, <3>2, FillFrame DEF AbandonFill, FlagFee, db, inbox
      <4> QED
        BY <4>1 DEF LInv, AtVenue, EventConfirmed, InboxOpen, NotSentYet, TradesAtVenue,
                    FailedNotAtVenue
    <3> QED
      BY <1>3, <3>1, <3>2 DEF FillStep
  <2> QED
    BY <1>0, <1>3, <2>1, TypeFill, FilledFill, CoveredFill DEF LInv
<1>4. CASE VenueStep
  <2>1. UNCHANGED <<event, resv, journal, cancel>>
    BY <1>4 DEF VenueStep, VenueReceive, VenueRefuse, VenueCancel, VenueMatch,
                SettleConfirm, SettleFail, db, inbox, process
  <2>2. FilledBound'
    BY <2>1 DEF LInv, FilledBound, Accounted
  <2>3. Covered'
    BY <1>0, <1>4, <2>1, VenueClaims, CoveredQuiet
  <2> QED
    BY <1>0, <1>4, <2>2, <2>3, TypeVenue, AtVenueVenue DEF LInv
<1>5. CASE PersistHalt
  BY <1>0, <1>5, TypeLife, LInvQuiet DEF PersistHalt, db, inbox, market, process
<1> QED
  BY <1>1, <1>2, <1>3, <1>4, <1>5 DEF LifecycleNext

\* ... and across a crash, the restart and the rebuild.
LEMMA LInvCrash ==
  ASSUME LInv, Crash \/ Restart \/ Rebuild
  PROVE  LInv'
<1>0. LTypeOK /\ LTypeOK'
  BY TypeLife DEF LInv
<1>1. CASE Crash
  <2>1. UNCHANGED <<event, resv, journal>> /\ \A o \in Orders : cancel'[o].seen = 0
    BY <1>1 DEF Crash, NoCancel
  <2>2. \A o \in Orders : Accounted(o) \subseteq Accounted(o)'
    BY <2>1 DEF Accounted
  <2>3. FilledBound'
    BY <2>1, <2>2, FilledKept
  <2>4. Covered'
    BY <1>1, <2>1, CrashClaims, CoveredQuiet
  <2> QED
    BY <1>0, <1>1, <2>3, <2>4, AtVenueCrash DEF LInv
<1>2. CASE Restart
  BY <1>0, <1>2, LInvQuiet DEF Restart, db, inbox, market, process
<1>3. CASE Rebuild
  BY <1>0, <1>3, LInvQuiet DEF Rebuild, inbox, market, process
<1> QED
  BY <1>1, <1>2, <1>3

\* In a process that does not crash, whatever the interleaving of create_order,
\* cancel_order, the user stream and the venue and whichever transactions fail,
\* every reservation covers what its order can still buy or sell.
THEOREM LifecycleCovered == LifecycleSpec => []Covered
<1>1. LInv /\ UNCHANGED lvars => LInv'
  <2> SUFFICES ASSUME LInv, UNCHANGED lvars PROVE LInv'
    OBVIOUS
  <2>1. LTypeOK'
    BY DEF LInv, LTypeOK, lvars, db, inbox, market, process, flags, control
  <2> QED
    BY <2>1, LInvQuiet DEF lvars, db, inbox, market, process
<1>2. LInv => Covered
  BY DEF LInv
<1> QED
  BY LInvInit, LInvStep, <1>1, <1>2, PTL DEF LifecycleSpec

-------------------------------------------------------------------------------
(* The rows of one order *)

\* The rows of an order agree on how far create_order got: nothing is written
\* before the reservation, an exchange id or a cancel needs a journal row, and
\* only a row that was cancelled marks its reservation.
Linked(o) ==
    /\ task[o] \in {"idle", "admitted"}
       => journal[o].status = "none" /\ resv[o].status = "none"
    /\ task[o] \in {"replied", "persisted"} => outcome[o] # "none"
    /\ journal[o].xid => journal[o].status # "none"
    /\ cancel[o].pc # "idle" => journal[o].xid
    /\ (\E h \in {"oms", "stream"} : <<o, h>> \in marking) => journal[o].status # "none"
    /\ resv[o].status = "CANCEL_PENDING_RECONCILE" => journal[o].status # "none"

\* A journal row stays, and so does its exchange id.
JournalGrows ==
    \A o \in Orders : /\ journal[o].status # "none" => journal'[o].status # "none"
                      /\ journal[o].xid => journal'[o].xid

AllLinked == \A o \in Orders : Linked(o)

\* So create_order keeps the rows linked ...
LEMMA LinkedCreate ==
  ASSUME LTypeOK, AllLinked, NEW o \in Orders, CreateOrderStep(o)
  PROVE  AllLinked' /\ JournalGrows
<1> SUFFICES ASSUME NEW p \in Orders
             PROVE  /\ Linked(p)'
                    /\ journal[p].status # "none" => journal'[p].status # "none"
                    /\ journal[p].xid => journal'[p].xid
  BY DEF AllLinked, JournalGrows
<1>0. /\ Linked(p) /\ Linked(o)
      /\ journal \in JournalType /\ resv \in ResvType
      /\ task \in [Orders -> {"idle", "admitted", "reserved", "unjournaled", "journaled",
                       "sent", "replied", "persisted", "unpersisted", "done",
                             "abandoned"}]
      /\ outcome \in [Orders -> {"none", "OPEN", "MATCHED", "FAILED", "UNKNOWN"}]
  BY DEF AllLinked, LTypeOK, JournalType, ResvType
<1>1. ASSUME UNCHANGED <<journal, resv, cancel, marking>>,
             NEW pc, task' = [task EXCEPT ![o] = pc],
             pc \in {"idle", "admitted"} => task[o] = "idle",
             \/ outcome' = outcome /\ pc \notin {"replied", "persisted"}
             \/ \E r \in {"OPEN", "MATCHED", "FAILED", "UNKNOWN"} :
                    outcome' = [outcome EXCEPT ![o] = r]
             \/ outcome' = [outcome EXCEPT ![o] = "none"] /\ pc \in {"done", "abandoned"}
      PROVE  Linked(p)' /\ UNCHANGED journal
  BY <1>0, <1>1 DEF Linked
<1>2. CASE Admit(o) \/ ReserveFails(o) \/ JournalFails(o)
  BY <1>1, <1>2 DEF Admit, ReserveFails, JournalFails, GoTo, db
<1>3. CASE Submit(o)
  BY <1>1, <1>3 DEF Submit, GoTo, db
<1>4. CASE NotSubmitted(o) \/ SubmitAmbiguous(o) \/ SubmitRejected(o)
           \/ SubmitAccepted(o) \/ SubmitMatched(o)
  BY <1>1, <1>4 DEF NotSubmitted, SubmitAmbiguous, SubmitRejected, SubmitAccepted,
     SubmitMatched, Replied, GoTo, db
<1>8. CASE PersistFails(o) \/ SettleFails(o) \/ AbandonCreate(o)
  BY <1>1, <1>8 DEF PersistFails, SettleFails, AbandonCreate, EndTask, GoTo, db
<1>5. CASE Reserve(o)
  <2>1. /\ resv' = [resv EXCEPT ![o] = [status |-> "RESERVED", rem |-> Size(o)]]
        /\ task' = [task EXCEPT ![o] = "reserved"] /\ UNCHANGED <<journal, cancel, marking, outcome>>
    BY <1>5 DEF Reserve, GoTo
  <2>2. /\ p # o => resv'[p] = resv[p] /\ task'[p] = task[p]
        /\ task'[o] = "reserved" /\ resv'[o].status = "RESERVED"
    BY <1>0, <2>1 DEF ResvType
  <2> QED
    BY <1>0, <2>1, <2>2 DEF Linked
<1>6. CASE JournalPending(o)
  <2>1. /\ journal' = [journal EXCEPT ![o].status = "PENDING"]
        /\ task' = [task EXCEPT ![o] = "journaled"] /\ UNCHANGED <<resv, cancel, marking, outcome>>
    BY <1>6 DEF JournalPending, GoTo
  <2>2. /\ p # o => journal'[p] = journal[p] /\ task'[p] = task[p]
        /\ task'[o] = "journaled" /\ journal'[o].status = "PENDING"
        /\ journal'[o].xid = journal[o].xid
    BY <1>0, <2>1 DEF JournalType
  <2> QED
    BY <1>0, <2>1, <2>2 DEF Linked
<1>7. CASE PersistOutcome(o)
  <2>1. /\ journal' = [journal EXCEPT
             ![o].status = IF outcome[o] = "MATCHED" THEN "UNKNOWN" ELSE outcome[o],
             ![o].xid    = @ \/ outcome[o] \in {"OPEN", "MATCHED"}]
        /\ task' = [task EXCEPT ![o] = "persisted"] /\ UNCHANGED <<resv, cancel, marking, outcome>>
    BY <1>7 DEF PersistOutcome, GoTo
  <2>2. /\ p # o => journal'[p] = journal[p] /\ task'[p] = task[p]
        /\ task'[o] = "persisted"
        /\ journal[o].xid => journal'[o].xid
        /\ journal'[o].status = IF outcome[o] = "MATCHED" THEN "UNKNOWN" ELSE outcome[o]
    BY <1>0, <2>1 DEF JournalType
  <2>3. journal'[o].status # "none"
    BY <1>0, <1>7, <2>2 DEF Linked, PersistOutcome
  <2>4. UNCHANGED <<resv, cancel, marking, outcome>>
    BY <2>1
  <2>5. CASE p = o
    BY <1>0, <2>2, <2>3, <2>4, <2>5 DEF Linked
  <2>6. CASE p # o
    BY <1>0, <2>2, <2>4, <2>6 DEF Linked
  <2> QED
    BY <2>5, <2>6
<1>9. CASE ReleaseUnjournaled(o) \/ MarkUnpersisted(o) \/ SettleReservation(o)
  <2>1. /\ \E pc \in {"done", "abandoned"} : task' = [task EXCEPT ![o] = pc]
        /\ UNCHANGED <<journal, cancel, marking>>
        /\ outcome' \in {outcome, [outcome EXCEPT ![o] = "none"]}
    BY <1>9 DEF ReleaseUnjournaled, MarkUnpersisted, SettleReservation, EndTask, GoTo
  <2>2. /\ p # o => resv'[p] = resv[p]
        /\ resv'[o].status = "CANCEL_PENDING_RECONCILE"
           => resv[o].status = "CANCEL_PENDING_RECONCILE"
    BY <1>0, <1>9 DEF ReleaseUnjournaled, MarkUnpersisted, SettleReservation, Release, Mark,
       ResvType
  <2> QED
    BY <1>0, <2>1, <2>2 DEF Linked
<1> QED
  BY <1>2, <1>3, <1>4, <1>5, <1>6, <1>7, <1>8, <1>9 DEF CreateOrderStep

\* ... so does cancel_order ...
LEMMA LinkedCancel ==
  ASSUME LTypeOK, AllLinked, NEW o \in Orders, CancelStep(o)
  PROVE  AllLinked' /\ JournalGrows
<1> SUFFICES ASSUME NEW p \in Orders
             PROVE  /\ Linked(p)'
                    /\ journal[p].status # "none" => journal'[p].status # "none"
                    /\ journal[p].xid => journal'[p].xid
  BY DEF AllLinked, JournalGrows
<1>0. /\ Linked(p) /\ Linked(o)
      /\ journal \in JournalType /\ resv \in ResvType /\ cancel \in CancelType
  BY DEF AllLinked, LTypeOK, JournalType, ResvType, CancelType
<1>1. UNCHANGED <<task, outcome>>
  BY CancelFrame
<1>2. CASE CancelSend(o) \/ CancelFails(o) \/ CancelFoundMatched(o)
  <2>1. UNCHANGED <<journal, resv, marking>>
    BY <1>2 DEF CancelSend, CancelFails, CancelFoundMatched, db, process
  <2>2. cancel'[p].pc # "idle" => cancel[p].pc # "idle" \/ journal[p].xid
    BY <1>0, <1>2 DEF CancelSend, CancelFails, CancelFoundMatched, CancelType, NoCancel
  <2> QED
    BY <1>0, <1>1, <2>1, <2>2 DEF Linked
<1>3. CASE CancelConfirmed(o) \/ StreamCancel(o)
  <2>1. /\ journal' = [journal EXCEPT ![o].status = "CANCELED"] /\ UNCHANGED resv
        /\ \E h : marking' = marking \cup {<<o, h>>}
        /\ cancel' \in {cancel, [cancel EXCEPT ![o] = NoCancel]} /\ journal[o].xid
    BY <1>0, <1>3 DEF CancelConfirmed, StreamCancel, Linked
  <2>2. /\ p # o => journal'[p] = journal[p]
        /\ journal'[o].status = "CANCELED" /\ journal'[o].xid = journal[o].xid
    BY <1>0, <2>1 DEF JournalType
  <2>3. cancel'[p].pc # "idle" => cancel[p].pc # "idle"
    BY <1>0, <2>1 DEF CancelType, NoCancel
  <2>4. p # o => \A h : <<p, h>> \in marking' => <<p, h>> \in marking
    BY <2>1
  <2>5. task[o] \notin {"idle", "admitted"}
    BY <1>0, <2>1 DEF Linked
  <2> HIDE <1>3
  <2>6. CASE p = o
    BY <1>0, <1>1, <2>1, <2>2, <2>3, <2>5, <2>6 DEF Linked
  <2>7. CASE p # o
    BY <1>0, <1>1, <2>1, <2>2, <2>3, <2>4, <2>7 DEF Linked
  <2> QED
    BY <2>6, <2>7
<1>4. CASE CommitMatched(o)
  <2>1. /\ WriteFilled(o, "UNKNOWN", cancel[o].seen) /\ UNCHANGED <<resv, marking>>
        /\ cancel' = [cancel EXCEPT ![o] = [pc |-> "matched", seen |-> 0]]
        /\ cancel[o].pc = "found"
    BY <1>4 DEF CommitMatched, WriteFilled
  <2>2. /\ p # o => journal'[p] = journal[p]
        /\ journal'[o].status = "UNKNOWN" /\ journal'[o].xid = journal[o].xid
    BY <1>0, <2>1 DEF JournalType, WriteFilled
  <2>3. /\ cancel'[p].pc # "idle" => cancel[p].pc # "idle"
        /\ journal[o].xid
    BY <1>0, <2>1 DEF CancelType, Linked
  <2>5. task[o] \notin {"idle", "admitted"}
    BY <1>0, <2>3 DEF Linked
  <2>6. CASE p = o
    BY <1>0, <1>1, <2>1, <2>2, <2>3, <2>5, <2>6 DEF Linked
  <2>7. CASE p # o
    BY <1>0, <1>1, <2>1, <2>2, <2>3, <2>7 DEF Linked
  <2> QED
    BY <2>6, <2>7
<1>5. CASE MarkMatchedUnknown(o)
  <2>1. UNCHANGED <<journal, marking>> /\ cancel' = [cancel EXCEPT ![o] = NoCancel]
    BY <1>5 DEF MarkMatchedUnknown
  <2>2. /\ resv'[p].status = "CANCEL_PENDING_RECONCILE"
           => resv[p].status = "CANCEL_PENDING_RECONCILE"
        /\ resv[p].status = "none" => resv'[p].status = "none"
    BY <1>0, <1>5 DEF MarkMatchedUnknown, Mark, ResvType, Active, ActiveStatuses
  <2>3. cancel'[p].pc # "idle" => cancel[p].pc # "idle"
    BY <1>0, <2>1 DEF CancelType, NoCancel
  <2> QED
    BY <1>0, <1>1, <2>1, <2>2, <2>3 DEF Linked
<1>6. ASSUME NEW h \in {"oms", "stream"}, MarkCancelPending(o, h)
      PROVE  Linked(p)' /\ UNCHANGED journal
  <2>1. /\ UNCHANGED <<journal, cancel>> /\ marking' = marking \ {<<o, h>>}
        /\ <<o, h>> \in marking
    BY <1>6 DEF MarkCancelPending
  <2>2. journal[o].status # "none"
    BY <1>0, <2>1 DEF Linked
  <2>3. /\ resv'[p].status = "CANCEL_PENDING_RECONCILE"
           => resv[p].status = "CANCEL_PENDING_RECONCILE" \/ p = o
        /\ resv[p].status = "none" => resv'[p].status = "none"
    BY <1>0, <1>6 DEF MarkCancelPending, Mark, ResvType, Active, ActiveStatuses
  <2> QED
    BY <1>0, <1>1, <2>1, <2>2, <2>3 DEF Linked
<1> QED
  BY <1>2, <1>3, <1>4, <1>5, <1>6 DEF CancelStep

\* What a fill leaves of the rows: its order is active and stays journaled.
LEMMA FillRows ==
  ASSUME LTypeOK, NEW l \in Lots, ProcessFill(l), NEW p \in Orders
  PROVE  /\ OrderOf[l] \in Orders /\ Active(OrderOf[l])
         /\ p # OrderOf[l] => resv'[p] = resv[p] /\ journal'[p] = journal[p]
         /\ resv'[OrderOf[l]].status \in {"FILLED", "PARTIAL"}
         /\ journal'[OrderOf[l]].status \in {"FILLED", "OPEN"}
         /\ journal'[OrderOf[l]].xid = journal[OrderOf[l]].xid
<1> DEFINE o == OrderOf[l]
           st == IF journal[o].filled + 1 = Size(o) THEN "FILLED" ELSE "OPEN"
<1>1. o \in Orders
  BY ConstantsAssumption
<1>2. journal \in JournalType /\ resv \in ResvType
  BY DEF LTypeOK, JournalType, ResvType
<1>3. /\ WriteFilled(o, st, journal[o].filled + 1) /\ Active(o)
      /\ resv' = [resv EXCEPT ![o] = [status |-> IF resv[o].rem - 1 = 0 THEN "FILLED" ELSE "PARTIAL",
                                     rem |-> resv[o].rem - 1]]
  BY DEF ProcessFill, WriteFilled, FillAccepted, FillFits
<1>4. st \in {"FILLED", "OPEN"}
  OBVIOUS
<1> HIDE DEF o, st
<1>5. /\ p # o => journal'[p] = journal[p]
      /\ journal'[o].status = st /\ journal'[o].xid = journal[o].xid
  BY <1>1, <1>2, <1>3 DEF WriteFilled, JournalType
<1>6. /\ p # o => resv'[p] = resv[p]
      /\ resv'[o].status \in {"FILLED", "PARTIAL"}
  BY <1>1, <1>2, <1>3 DEF ResvType
<1> QED
  BY <1>1, <1>3, <1>4, <1>5, <1>6 DEF o

\* ... a fill, a crash, and all the other steps of the process and the venue.
LEMMA LinkedLife ==
  ASSUME LTypeOK, AllLinked, LifecycleNext \/ Crash \/ Restart \/ Rebuild
  PROVE  AllLinked' /\ JournalGrows
<1>1. ASSUME NEW l \in Lots, ProcessFill(l)
      PROVE  AllLinked' /\ JournalGrows
  <2> SUFFICES ASSUME NEW p \in Orders
               PROVE  /\ Linked(p)'
                      /\ journal[p].status # "none" => journal'[p].status # "none"
                      /\ journal[p].xid => journal'[p].xid
    BY DEF AllLinked, JournalGrows
  <2>1. UNCHANGED <<task, outcome, cancel, marking>>
    BY <1>1 DEF ProcessFill, process
  <2>2. Linked(p) /\ Linked(OrderOf[l])
    BY <1>1, FillRows DEF AllLinked
  <2> QED
    BY <1>1, <2>1, <2>2, FillRows DEF Linked, Active, ActiveStatuses
<1>2. ASSUME UNCHANGED <<journal, resv, task, outcome, cancel, marking>>
      PROVE  AllLinked' /\ JournalGrows
  BY <1>2 DEF AllLinked, Linked, JournalGrows
<1>3. CASE VenueStep \/ PersistHalt \/ Restart \/ Rebuild
  BY <1>2, <1>3 DEF VenueStep, VenueReceive, VenueRefuse, VenueCancel, VenueMatch, SettleConfirm,
     SettleFail, PersistHalt, Restart, Rebuild, db, process
<1>4. ASSUME NEW l \in Lots, RecordFill(l) \/ FailFill(l) \/ AbandonFill(l) \/ FlagFee(l)
      PROVE  AllLinked' /\ JournalGrows
  BY <1>2, <1>4 DEF RecordFill, FailFill, AbandonFill, FlagFee, db, inbox, process
<1>5. CASE Crash
  <2>1. /\ UNCHANGED <<journal, resv>> /\ marking' = {}
        /\ \A o \in Orders : /\ task'[o] \in {"idle", "done"} /\ (task'[o] = "idle" => task[o] = "idle")
                             /\ cancel'[o].pc = "idle"
    BY <1>5 DEF Crash, NoCancel
  <2> QED
    BY <2>1 DEF AllLinked, Linked, JournalGrows
<1> QED
  BY <1>1, <1>3, <1>4, <1>5, LinkedCreate, LinkedCancel DEF LifecycleNext, FillStep

\* At first there is no row.
LEMMA LinkedInit == LInit => AllLinked
BY DEF LInit, AllLinked, Linked, NoCancel

-------------------------------------------------------------------------------
(* The sum of the reservations, and the cached total *)

\* ReservedSum as a sum over all orders of one side.
HeldMap         == [o \in Orders |-> Held(o)]
OfSide(side, S) == {o \in S : Side[o] = side}
HeldSum(side, S) == SumFunctionOnSet(HeldMap, OfSide(side, S))

\* A set of orders is finite.
LEMMA OrdersFinite ==
  \A S, side : S \subseteq Orders => IsFiniteSet(S) /\ IsFiniteSet(OfSide(side, S))
<1> SUFFICES ASSUME NEW S, NEW side, S \subseteq Orders
             PROVE  IsFiniteSet(S) /\ IsFiniteSet(OfSide(side, S))
  OBVIOUS
<1>1. IsFiniteSet(S)
  BY ConstantsAssumption, FS_Subset
<1>2. OfSide(side, S) \subseteq S
  BY DEF OfSide
<1> QED
  BY <1>1, <1>2, FS_Subset

\* Held amounts are natural numbers.
LEMMA HeldAmounts ==
  ASSUME LTypeOK
  PROVE  \A S : S \subseteq Orders => Amounts(HeldMap, S)
BY HeldType DEF Amounts, HeldMap

\* The ledger's sum over the active rows is the sum of what is held.
LEMMA ReservedIsHeld ==
  ASSUME LTypeOK
  PROVE  \A side, S : S \subseteq Orders
            => ReservedSum(side, S) = HeldSum(side, S) /\ ReservedSum(side, S) \in Nat
<1> SUFFICES ASSUME NEW side, NEW S, S \subseteq Orders
             PROVE  ReservedSum(side, S) = HeldSum(side, S) /\ ReservedSum(side, S) \in Nat
  OBVIOUS
<1> DEFINE A == {o \in S : Side[o] = side /\ Active(o)}
           B == OfSide(side, S)
<1>1. A \subseteq B /\ B \subseteq Orders
  BY DEF OfSide
<1>2. /\ \A o \in A : Remaining[o] = HeldMap[o]
      /\ \A o \in B \ A : HeldMap[o] = 0
  BY <1>1 DEF Remaining, HeldMap, Held, OfSide
<1>3. IsFiniteSet(A) /\ IsFiniteSet(B) /\ Amounts(HeldMap, B) /\ Amounts(HeldMap, A)
      /\ Amounts(Remaining, A)
  BY <1>1, <1>2, OrdersFinite, HeldAmounts DEF Amounts
<1>4. Units(Remaining, A) = Units(HeldMap, B)
  <2>1. ASSUME NEW u \in Units(Remaining, A)  PROVE u \in Units(HeldMap, B)
    BY <1>1, <1>2, <2>1 DEF Units
  <2>2. ASSUME NEW u \in Units(HeldMap, B)  PROVE u \in Units(Remaining, A)
    <3>1. /\ u \in B \X Nat /\ u[1] \in B /\ u[2] \in 1 .. HeldMap[u[1]]
      BY <2>2 DEF Units
    <3>2. HeldMap[u[1]] # 0
      BY <3>1
    <3>3. u[1] \in A
      BY <1>2, <3>1, <3>2
    <3> QED
      BY <1>2, <3>1, <3>3 DEF Units
  <2> QED
    BY <2>1, <2>2
<1> HIDE DEF A, B
<1>5. SumFunctionOnSet(Remaining, A) = SumFunctionOnSet(HeldMap, B)
  BY <1>3, <1>4, SumIsCount
<1>6. SumFunctionOnSet(HeldMap, B) \in Nat
  BY <1>3, SumNat
<1> QED
  BY <1>5, <1>6 DEF A, B, ReservedSum, HeldSum

\* What a step does to the held amounts and to the cached total.
SameHeld == cached' = cached /\ \A p \in Orders : Held(p)' = Held(p)

\* create_order keeps the held amounts, except when it reserves or releases ...
LEMMA HeldCreate ==
  ASSUME LTypeOK, NEW o \in Orders, CreateOrderStep(o)
  PROVE  /\ shares' = shares
         /\ SameHeld \/ Reserve(o) \/ \E st \in TerminalStatuses : Release(o, st)
<1>0. resv \in ResvType
  BY DEF LTypeOK, ResvType
<1>1. shares' = shares
  BY DEF CreateOrderStep, Admit, Reserve, ReserveFails, JournalPending, JournalFails,
     ReleaseUnjournaled, AbandonCreate, Submit, NotSubmitted, SubmitAmbiguous, SubmitRejected,
     SubmitAccepted, SubmitMatched, PersistOutcome, PersistFails, MarkUnpersisted,
     SettleReservation, SettleFails, db
<1>2. ASSUME UNCHANGED <<resv, cached>>  PROVE SameHeld
  BY <1>2 DEF SameHeld, Held, Active
<1>8. "UNKNOWN" \in ActiveStatuses /\ {"JOURNAL_FAILED", "ORDER_FAILED"} \subseteq TerminalStatuses
  BY DEF ActiveStatuses, TerminalStatuses
<1>9. ASSUME Mark(o, "UNKNOWN"), cached' = cached  PROVE SameHeld
  BY <1>0, <1>8, <1>9, MarkLemma DEF SameHeld
<1>3. CASE ReleaseUnjournaled(o)
  BY <1>2, <1>3, <1>8 DEF ReleaseUnjournaled
<1>4. CASE MarkUnpersisted(o)
  BY <1>4, <1>9 DEF MarkUnpersisted
<1>5. CASE SettleReservation(o)
  <2>1. CASE outcome[o] \in {"MATCHED", "UNKNOWN"} /\ cached' = cached /\ Mark(o, "UNKNOWN")
    BY <1>1, <1>9, <2>1
  <2>2. CASE Release(o, "ORDER_FAILED")
    <3>1. \E st \in TerminalStatuses : Release(o, st)
      BY <1>8, <2>2
    <3> QED
      BY <1>1, <3>1
  <2>3. CASE cached' = cached /\ resv' = resv
    BY <1>1, <1>2, <2>3
  <2>4. CASE /\ cached' = cached /\ resv[o].status \in {"RESERVED", "OPEN"}
             /\ resv' = [resv EXCEPT ![o].status = "OPEN"]
    <3>1. \A p \in Orders : /\ resv'[p].rem = resv[p].rem
                            /\ resv'[p].status = IF p = o THEN "OPEN" ELSE resv[p].status
      BY <1>0, <2>4 DEF ResvType
    <3>2. SameHeld
      <4>1. \A p \in Orders : Active(p)' <=> Active(p)
        BY <2>4, <3>1 DEF Active, ActiveStatuses
      <4>2. \A p \in Orders : Held(p)' = Held(p)
        BY <3>1, <4>1 DEF Held
      <4> QED
        BY <2>4, <4>2 DEF SameHeld
    <3> QED
      BY <1>1, <3>2
  <2> QED
    BY <1>5, <2>1, <2>2, <2>3, <2>4 DEF SettleReservation
<1>6. CASE Reserve(o) \/ ReleaseUnjournaled(o) \/ MarkUnpersisted(o) \/ SettleReservation(o)
  BY <1>1, <1>3, <1>4, <1>5, <1>6
<1>7. CASE UNCHANGED <<resv, cached>>
  BY <1>1, <1>2, <1>7
<1> QED
  BY <1>6, <1>7 DEF CreateOrderStep, Admit, ReserveFails, JournalPending, JournalFails,
     Submit, NotSubmitted, SubmitAmbiguous, SubmitRejected, SubmitAccepted, SubmitMatched,
          PersistOutcome, PersistFails, SettleFails, AbandonCreate, db

\* ... cancel_order never changes them ...
LEMMA HeldCancel ==
  ASSUME LTypeOK, NEW o \in Orders, CancelStep(o)
  PROVE  shares' = shares /\ SameHeld
<1>0. resv \in ResvType
  BY DEF LTypeOK, ResvType
<1>1. ASSUME UNCHANGED resv  PROVE \A p \in Orders : Held(p)' = Held(p)
  BY <1>1 DEF Held, Active
<1>2. shares' = shares /\ cached' = cached
  BY DEF CancelStep, CancelSend, CancelFails, CancelConfirmed, CancelFoundMatched, CommitMatched,
     MarkMatchedUnknown, StreamCancel, MarkCancelPending, db
<1>3. CASE MarkMatchedUnknown(o) \/ \E h \in {"oms", "stream"} : MarkCancelPending(o, h)
  BY <1>0, <1>1, <1>2, <1>3, MarkLemma
     DEF MarkMatchedUnknown, MarkCancelPending, SameHeld, ActiveStatuses
<1>4. CASE UNCHANGED resv
  BY <1>1, <1>2, <1>4 DEF SameHeld
<1> QED
  BY <1>3, <1>4 DEF CancelStep, CancelSend, CancelFails, CancelConfirmed, CancelFoundMatched,
     CommitMatched, StreamCancel, db

\* ... nor does anything but a fill.
LEMMA HeldOther ==
  ASSUME LTypeOK,
         \/ VenueStep \/ PersistHalt \/ Crash \/ Restart
         \/ \E l \in Lots : RecordFill(l) \/ FailFill(l) \/ AbandonFill(l) \/ FlagFee(l)
  PROVE  shares' = shares /\ SameHeld
<1>1. UNCHANGED <<resv, cached, shares>>
  BY DEF VenueStep, VenueReceive, VenueRefuse, VenueCancel, VenueMatch, SettleConfirm,
     SettleFail, PersistHalt, Crash, Restart, RecordFill, FailFill, AbandonFill,
     FlagFee, db
<1> QED
  BY <1>1 DEF SameHeld, Held, Active

\* A fill takes one unit of its order's reservation.
LEMMA HeldFill ==
  ASSUME LTypeOK, NEW l \in Lots, ProcessFill(l)
  PROVE  /\ OrderOf[l] \in Orders
         /\ Held(OrderOf[l]) >= 1 /\ Held(OrderOf[l])' = Held(OrderOf[l]) - 1
         /\ \A p \in Orders : p # OrderOf[l] => Held(p)' = Held(p)
<1> DEFINE o == OrderOf[l]
<1>1. o \in Orders
  BY ConstantsAssumption
<1>2. resv \in ResvType
  BY DEF LTypeOK, ResvType
<1>3. /\ Active(o) /\ resv[o].rem >= 1
      /\ resv' = [resv EXCEPT ![o] = [status |-> IF resv[o].rem - 1 = 0 THEN "FILLED" ELSE "PARTIAL",
                                     rem |-> resv[o].rem - 1]]
  BY DEF ProcessFill, FillAccepted, FillFits
<1> HIDE DEF o
<1>4. /\ resv'[o].rem = resv[o].rem - 1
      /\ resv'[o].status = IF resv[o].rem - 1 = 0 THEN "FILLED" ELSE "PARTIAL"
      /\ \A p \in Orders : p # o => resv'[p] = resv[p]
      /\ resv[o].rem \in Nat
  BY <1>1, <1>2, <1>3 DEF ResvType
<1>5. Held(o) >= 1 /\ Held(o)' = Held(o) - 1
  BY <1>3, <1>4 DEF Held, Active, ActiveStatuses
<1>6. \A p \in Orders : p # o => Held(p)' = Held(p)
  BY <1>4 DEF Held, Active
<1> QED
  BY <1>1, <1>5, <1>6 DEF o

\* The clamp of the cached total is never needed.
LEMMA MaxZero == \A n \in Nat : Max({0, n}) = n
<1> SUFFICES ASSUME NEW n \in Nat  PROVE Max({0, n}) = n
  OBVIOUS
<1> DEFINE P(x) == x \in {0, n} /\ \A y \in {0, n} : x >= y
<1>1. P(n) /\ \A x : P(x) => x = n
  OBVIOUS
<1>2. (CHOOSE x : P(x)) = n
  BY <1>1
<1> QED
  BY <1>2 DEF Max

\* The held sum after a step: unchanged, or changed at one order.
LEMMA HeldSumSame ==
  ASSUME LTypeOK, NEW side, NEW S, S \subseteq Orders,
         \A p \in OfSide(side, S) : Held(p)' = Held(p)
  PROVE  HeldSum(side, S)' = HeldSum(side, S)
<1> DEFINE T == OfSide(side, S)
           f == HeldMap
           g == HeldMap'
<1>1. T \subseteq Orders /\ IsFiniteSet(T) /\ Amounts(f, T)
  BY OrdersFinite, HeldAmounts DEF OfSide
<1>2. \A p \in T : f[p] = g[p]
  BY <1>1 DEF HeldMap
<1>3. HeldSum(side, S) = SumFunctionOnSet(f, T) /\ HeldSum(side, S)' = SumFunctionOnSet(g, T)
  BY DEF HeldSum, OfSide
<1> HIDE DEF T, f, g
<1> QED
  BY <1>1, <1>2, <1>3, SumSame

\* One order's held amount changed.
LEMMA HeldSumOne ==
  ASSUME LTypeOK, LTypeOK', NEW side, NEW S, S \subseteq Orders, NEW o \in OfSide(side, S),
         \A p \in Orders : p # o => Held(p)' = Held(p)
  PROVE  HeldSum(side, S)' = HeldSum(side, S) - Held(o) + Held(o)'
<1> DEFINE T == OfSide(side, S)
           f == HeldMap
           g == HeldMap'
<1>1. T \subseteq Orders /\ IsFiniteSet(T) /\ Amounts(f, T) /\ o \in T
  BY OrdersFinite, HeldAmounts DEF OfSide
<1>2. \A p \in T : f[p] = Held(p) /\ g[p] = Held(p)'
  BY <1>1 DEF HeldMap
<1>3. Amounts(g, T) /\ \A p \in T \ {o} : f[p] = g[p]
  BY <1>1, <1>2, HeldType DEF Amounts
<1>4. HeldSum(side, S) = SumFunctionOnSet(f, T) /\ HeldSum(side, S)' = SumFunctionOnSet(g, T)
  BY DEF HeldSum, OfSide
<1> HIDE DEF T, f, g
<1> QED
  BY <1>1, <1>2, <1>3, <1>4, SumChange

\* The sum is a natural number.
LEMMA HeldSumNat ==
  ASSUME LTypeOK, NEW side, NEW S, S \subseteq Orders
  PROVE  HeldSum(side, S) \in Nat
BY ReservedIsHeld

\* Each order's held amount is part of the sum.
LEMMA HeldInSum ==
  ASSUME LTypeOK, NEW side, NEW S, S \subseteq Orders, NEW o \in OfSide(side, S)
  PROVE  Held(o) <= HeldSum(side, S)
<1> DEFINE T == OfSide(side, S)
<1>1. T \subseteq Orders /\ IsFiniteSet(T) /\ Amounts(HeldMap, T) /\ o \in T
  BY OrdersFinite, HeldAmounts DEF OfSide
<1>2. T \ {o} \subseteq Orders /\ IsFiniteSet(T \ {o}) /\ Amounts(HeldMap, T \ {o})
  BY <1>1, FS_RemoveElement DEF Amounts
<1>3. SumFunctionOnSet(HeldMap, T) = HeldMap[o] + SumFunctionOnSet(HeldMap, T \ {o})
  BY <1>1, SumWithout
<1>4. SumFunctionOnSet(HeldMap, T \ {o}) \in Nat
  BY <1>2, SumNat
<1>5. HeldMap[o] = Held(o) /\ Held(o) \in Nat
  BY <1>1, HeldType DEF HeldMap
<1> HIDE DEF T
<1> QED
  BY <1>3, <1>4, <1>5 DEF HeldSum, T

CachedHeld == cached = HeldSum("BUY", Orders)

\* The cached total is exact when it is the sum of what is held.
LEMMA CachedIsHeld ==
  ASSUME LTypeOK
  PROVE  CachedTotalExact <=> CachedHeld
BY ReservedIsHeld DEF CachedTotalExact, CachedHeld

\* Every transaction keeps the cached total exact.
LEMMA CachedStep ==
  ASSUME LTypeOK, LTypeOK', AllLinked, CachedHeld,
         LifecycleNext \/ Crash \/ Restart \/ Rebuild
  PROVE  CachedHeld'
<1> DEFINE T == OfSide("BUY", Orders)
<1>0. /\ \A o : o \in T <=> o \in Orders /\ Side[o] = "BUY"
      /\ \A o \in Orders : Held(o) \in Nat /\ Held(o)' \in Nat /\ Side[o] \in {"BUY", "SELL"}
      /\ HeldSum("BUY", Orders) \in Nat
  BY HeldType, HeldSumNat, ConstantsAssumption DEF OfSide
<1>1. ASSUME cached' = cached, \A p \in T : Held(p)' = Held(p)  PROVE CachedHeld'
  BY <1>1, HeldSumSame DEF CachedHeld
<1>2. ASSUME NEW o \in Orders, Reserve(o)  PROVE CachedHeld'
  <2>1. /\ resv' = [resv EXCEPT ![o] = [status |-> "RESERVED", rem |-> Size(o)]]
        /\ task[o] = "admitted"
        /\ IF Side[o] = "BUY" THEN cached' = ReservedSum("BUY", Orders) + Size(o)
                              ELSE cached' = cached
    BY <1>2 DEF Reserve
  <2>2. resv[o].status = "none" /\ resv \in ResvType
    BY <2>1 DEF AllLinked, Linked, LTypeOK, ResvType
  <2>3. /\ Held(o) = 0 /\ Held(o)' = Size(o)
        /\ \A p \in Orders : p # o => Held(p)' = Held(p)
    BY <2>1, <2>2 DEF Held, Active, ActiveStatuses, ResvType
  <2>4. CASE o \in T
    <3>1. HeldSum("BUY", Orders)' = HeldSum("BUY", Orders) - Held(o) + Held(o)'
      BY <2>3, <2>4, HeldSumOne
    <3>2. cached' = HeldSum("BUY", Orders) + Size(o)
      BY <1>0, <2>1, <2>4, ReservedIsHeld
    <3> QED
      BY <1>0, <2>3, <3>1, <3>2, LotsFinite DEF CachedHeld
  <2>5. CASE o \notin T
    BY <1>0, <1>1, <2>1, <2>3, <2>5
  <2> QED
    BY <2>4, <2>5
<1>3. ASSUME NEW o \in Orders, NEW st \in TerminalStatuses, Release(o, st)  PROVE CachedHeld'
  <2>1. CASE ~Active(o)
    BY <1>1, <1>3, <2>1 DEF Release, Held, Active
  <2>2. CASE Active(o)
    <3>1. /\ cached' = IF Side[o] = "BUY" THEN Max({0, cached - Held(o)}) ELSE cached
      BY <1>3, <2>2 DEF Release, Held
    <3>2. Held(o)' = 0 /\ \A p \in Orders : p # o => Held(p)' = Held(p)
      BY <1>3, ReleaseLemma DEF LTypeOK, ResvType
    <3>3. CASE o \in T
      <4>1. HeldSum("BUY", Orders)' = HeldSum("BUY", Orders) - Held(o) + Held(o)'
        BY <3>2, <3>3, HeldSumOne
      <4>2. Held(o) <= HeldSum("BUY", Orders)
        BY <3>3, HeldInSum
      <4>3. cached' = HeldSum("BUY", Orders) - Held(o)
        BY <1>0, <3>1, <3>3, <4>2, MaxZero DEF CachedHeld
      <4> QED
        BY <1>0, <3>2, <4>1, <4>3 DEF CachedHeld
    <3>4. CASE o \notin T
      BY <1>0, <1>1, <3>1, <3>2, <3>4
    <3> QED
      BY <3>3, <3>4
  <2> QED
    BY <2>1, <2>2
<1>4. ASSUME NEW l \in Lots, ProcessFill(l)  PROVE CachedHeld'
  <2> DEFINE o == OrderOf[l]
  <2>1. /\ o \in Orders /\ Held(o) >= 1 /\ Held(o)' = Held(o) - 1
        /\ \A p \in Orders : p # o => Held(p)' = Held(p)
    BY <1>4, HeldFill
  <2>2. cached' = IF Side[o] = "BUY" THEN Max({0, cached - 1}) ELSE cached
    BY <1>4 DEF ProcessFill
  <2> HIDE DEF o
  <2>3. CASE o \in T
    <3>1. HeldSum("BUY", Orders)' = HeldSum("BUY", Orders) - Held(o) + Held(o)'
      BY <2>1, <2>3, HeldSumOne
    <3>2. Held(o) <= HeldSum("BUY", Orders)
      BY <2>3, HeldInSum
    <3>3. cached' = HeldSum("BUY", Orders) - 1
      BY <1>0, <2>1, <2>2, <2>3, <3>2, MaxZero DEF CachedHeld
    <3> QED
      BY <1>0, <2>1, <3>1, <3>3 DEF CachedHeld
  <2>4. CASE o \notin T
    BY <1>0, <1>1, <2>1, <2>2, <2>4
  <2> QED
    BY <2>3, <2>4
<1>5. CASE Rebuild
  <2>1. cached' = HeldSum("BUY", Orders) /\ resv' = resv
    BY <1>5, ReservedIsHeld DEF Rebuild
  <2>2. \A p \in T : Held(p)' = Held(p)
    BY <2>1 DEF Held, Active
  <2> QED
    BY <2>1, <2>2, HeldSumSame DEF CachedHeld
<1>6. ASSUME SameHeld  PROVE CachedHeld'
  BY <1>0, <1>1, <1>6 DEF SameHeld
<1> HIDE DEF T
<1>7. ASSUME NEW o \in Orders, CreateOrderStep(o)  PROVE CachedHeld'
  BY <1>2, <1>3, <1>6, <1>7, HeldCreate
<1>8. ASSUME NEW o \in Orders, CancelStep(o)  PROVE CachedHeld'
  BY <1>6, <1>8, HeldCancel
<1>9. CASE \/ VenueStep \/ PersistHalt \/ Crash \/ Restart
           \/ \E l \in Lots : RecordFill(l) \/ FailFill(l) \/ AbandonFill(l) \/ FlagFee(l)
  BY <1>6, <1>9, HeldOther
<1> QED
  BY <1>4, <1>5, <1>7, <1>8, <1>9 DEF LifecycleNext, FillStep

\* At first nothing is reserved.
LEMMA CachedInit ==
  ASSUME LInit
  PROVE  CachedHeld
<1>0. LTypeOK
  BY TypeInit
<1> DEFINE T == OfSide("BUY", Orders)
<1>1. T \subseteq Orders /\ IsFiniteSet(T) /\ Amounts(HeldMap, T)
  BY <1>0, OrdersFinite, HeldAmounts DEF OfSide
<1>2. \A p \in T : HeldMap[p] = 0
  BY <1>1 DEF LInit, HeldMap, Held
<1>3. Units(HeldMap, T) = {}
  BY <1>2 DEF Units
<1>4. SumFunctionOnSet(HeldMap, T) = 0
  BY <1>1, <1>3, SumIsCount, FS_EmptySet
<1> QED
  BY <1>4 DEF CachedHeld, HeldSum, LInit

-------------------------------------------------------------------------------
(* Claims shrink, except when an order is reserved *)

\* A claim only grows when its order is reserved: the other steps account its
\* lots, or take an order or a trade away.
LEMMA ClaimsShrinkCreate ==
  ASSUME LInv, NEW o \in Orders, CreateOrderStep(o), ~Reserve(o), NEW p \in Orders
  PROVE  Unaccounted(p)' \subseteq Unaccounted(p)
<1>1. UNCHANGED <<event, trade>>
  BY DEF CreateOrderStep, Admit, Reserve, ReserveFails, JournalPending, JournalFails,
         ReleaseUnjournaled, AbandonCreate, Submit, NotSubmitted, SubmitAmbiguous, SubmitRejected,
         SubmitAccepted, SubmitMatched, PersistOutcome, PersistFails, MarkUnpersisted,
         SettleReservation, SettleFails, db, inbox, market
<1>2. Sendable(p)' => Sendable(p)
  BY CreateSends DEF LInv
<1>3. Accounted(p)' = Accounted(p) /\ Matched(p)' = Matched(p)
  BY <1>1 DEF Accounted, Matched
<1> QED
  BY <1>2, <1>3, UnaccountedShrinks

\* A fill takes its lot off the claim of its order, and off no other.
LEMMA FillClaims ==
  ASSUME LInv, NEW l \in Lots, ProcessFill(l)
  PROVE  /\ OrderOf[l] \in Orders /\ Claim(OrderOf[l])' = Claim(OrderOf[l]) - 1
         /\ \A p \in Orders : p # OrderOf[l] => Unaccounted(p)' \subseteq Unaccounted(p)
<1>1. \A o \in Orders : Matched(o)' = Matched(o) /\ (Sendable(o)' <=> Sendable(o))
  BY FillFrame DEF FillStep, Matched, Sendable
<1>2. /\ l \in Unaccounted(OrderOf[l]) /\ OrderOf[l] \in Orders
      /\ \A o \in Orders :
            Accounted(o)' = IF o = OrderOf[l] THEN Accounted(o) \cup {l} ELSE Accounted(o)
  BY FillAccounts
<1>3. ASSUME NEW p \in Orders, p # OrderOf[l]
      PROVE  Unaccounted(p)' \subseteq Unaccounted(p)
  BY <1>1, <1>2, <1>3, UnaccountedShrinks
<1>4. Unaccounted(OrderOf[l])' = Unaccounted(OrderOf[l]) \ {l}
  BY <1>1, <1>2 DEF Unaccounted, Sendable
<1>5. Claim(OrderOf[l])' = Claim(OrderOf[l]) - 1
  BY <1>2, <1>4, ClaimFinite, FS_RemoveElement DEF Claim
<1> QED
  BY <1>2, <1>3, <1>5

\* Nothing else adds to a claim.
LEMMA ClaimsShrinkOther ==
  ASSUME LInv, NEW p \in Orders,
         \/ VenueStep \/ PersistHalt \/ Crash \/ Restart \/ Rebuild
         \/ \E o \in Orders : CancelStep(o)
         \/ \E l \in Lots : RecordFill(l) \/ FailFill(l) \/ AbandonFill(l) \/ FlagFee(l)
  PROVE  Unaccounted(p)' \subseteq Unaccounted(p)
<1>0. event \in [Lots -> {"none", "RECEIVED", "PROCESSED", "FAILED"}] /\ LTypeOK
  BY DEF LInv, LTypeOK
<1>1. CASE VenueStep
  <2>1. Accounted(p)' = Accounted(p)
    BY <1>1 DEF VenueStep, VenueReceive, VenueRefuse, VenueCancel, VenueMatch, SettleConfirm,
       SettleFail, db, inbox, Accounted
  <2> QED
    BY <1>0, <1>1, <2>1, VenueClaims, UnaccountedShrinks
<1>2. CASE Crash
  <2>1. Accounted(p)' = Accounted(p)
    BY <1>2 DEF Crash, Accounted
  <2> QED
    BY <1>2, <2>1, CrashClaims, UnaccountedShrinks
<1>3. CASE PersistHalt \/ Restart \/ Rebuild
  <2>1. UNCHANGED <<event, trade, venue, task>>
    BY <1>3 DEF PersistHalt, Restart, Rebuild, db, inbox, market, process
  <2> QED
    BY <2>1 DEF Unaccounted, Matched, Accounted
<1>4. CASE \E o \in Orders : CancelStep(o)
  <2>1. UNCHANGED <<event, trade, venue, task>>
    BY <1>4, CancelFrame
  <2> QED
    BY <2>1 DEF Unaccounted, Matched, Accounted
<1>5. ASSUME NEW l \in Lots, RecordFill(l) \/ FailFill(l) \/ AbandonFill(l) \/ FlagFee(l)
      PROVE  Unaccounted(p)' \subseteq Unaccounted(p)
  <2>1. UNCHANGED <<trade, venue, task>>
    BY <1>5, FillFrame DEF FillStep
  <2>2. \/ event' = event
        \/ /\ event[l] \in {"none", "RECEIVED"}
           /\ event' \in {[event EXCEPT ![l] = "RECEIVED"], [event EXCEPT ![l] = "FAILED"]}
    BY <1>5 DEF RecordFill, InsertReceived, FailFill, AbandonFill, FlagFee, LInv, AtVenue,
                InboxOpen, db, inbox
  <2>3. Accounted(p) \subseteq Accounted(p)'
    <3>1. \A k \in Lots : event[k] = "PROCESSED" => event'[k] = "PROCESSED"
      BY <1>0, <2>2
    <3> QED
      BY <3>1 DEF Accounted, LotsOf
  <2>4. Matched(p)' = Matched(p) /\ (Sendable(p)' <=> Sendable(p))
    BY <2>1 DEF Matched, Sendable
  <2> QED
    BY <2>3, <2>4, UnaccountedShrinks
<1> QED
  BY <1>1, <1>2, <1>3, <1>4, <1>5

-------------------------------------------------------------------------------
(* Sums of claims *)

\* A smaller set of unaccounted lots is a smaller claim.
LEMMA ClaimSmaller ==
  ASSUME NEW p \in Orders, Unaccounted(p)' \subseteq Unaccounted(p)
  PROVE  Claim(p)' <= Claim(p)
BY ClaimFinite, FS_Subset DEF Claim

\* A sum of claims is a sum of natural numbers over a finite set of orders.
LEMMA ClaimSumIs ==
  ASSUME NEW side, NEW S, S \subseteq Orders
  PROVE  /\ ClaimSum(side, S) = SumFunctionOnSet(Claims, OfSide(side, S))
         /\ ClaimSum(side, S)' = SumFunctionOnSet(Claims', OfSide(side, S))
         /\ OfSide(side, S) \subseteq Orders /\ IsFiniteSet(OfSide(side, S))
         /\ Amounts(Claims, OfSide(side, S)) /\ Amounts(Claims', OfSide(side, S))
         /\ ClaimSum(side, S) \in Nat /\ ClaimSum(side, S)' \in Nat
         /\ \A p \in OfSide(side, S) : Claims[p] = Claim(p) /\ Claims'[p] = Claim(p)'
<1>1. OfSide(side, S) \subseteq Orders /\ IsFiniteSet(OfSide(side, S))
  BY OrdersFinite DEF OfSide
<1>2. \A p \in OfSide(side, S) : Claims[p] = Claim(p) /\ Claims'[p] = Claim(p)'
  BY <1>1 DEF Claims
<1>3. Amounts(Claims, OfSide(side, S)) /\ Amounts(Claims', OfSide(side, S))
  BY <1>1, <1>2, ClaimFinite DEF Amounts
<1>4. /\ ClaimSum(side, S) = SumFunctionOnSet(Claims, OfSide(side, S))
      /\ ClaimSum(side, S)' = SumFunctionOnSet(Claims', OfSide(side, S))
  BY DEF ClaimSum, OfSide
<1>5. ClaimSum(side, S) \in Nat /\ ClaimSum(side, S)' \in Nat
  BY <1>1, <1>3, <1>4, SumNat
<1> QED
  BY <1>1, <1>2, <1>3, <1>4, <1>5

\* When no claim grows, no sum of claims does.
LEMMA ClaimSumShrinks ==
  ASSUME NEW side, NEW S, S \subseteq Orders,
         \A p \in OfSide(side, S) : Claim(p)' <= Claim(p)
  PROVE  ClaimSum(side, S)' <= ClaimSum(side, S)
<1> DEFINE T == OfSide(side, S)
           f == Claims
           g == Claims'
<1>1. /\ ClaimSum(side, S) = SumFunctionOnSet(f, T) /\ ClaimSum(side, S)' = SumFunctionOnSet(g, T)
      /\ IsFiniteSet(T) /\ Amounts(f, T) /\ Amounts(g, T)
      /\ \A p \in T : g[p] <= f[p]
  BY ClaimSumIs
<1> HIDE DEF T, f, g
<1> QED
  BY <1>1, SumMonotone

\* When one claim grows, a sum that counts it grows by no more.
LEMMA ClaimSumGrows ==
  ASSUME NEW side, NEW S, S \subseteq Orders, NEW o \in OfSide(side, S),
         \A p \in OfSide(side, S) : p # o => Claim(p)' <= Claim(p)
  PROVE  ClaimSum(side, S)' <= ClaimSum(side, S) - Claim(o) + Claim(o)'
<1> DEFINE T == OfSide(side, S)
           f == Claims
           g == Claims'
           h == [p \in T |-> IF p = o THEN g[o] ELSE f[p]]
<1>1. /\ ClaimSum(side, S) = SumFunctionOnSet(f, T) /\ ClaimSum(side, S)' = SumFunctionOnSet(g, T)
      /\ IsFiniteSet(T) /\ Amounts(f, T) /\ Amounts(g, T)
      /\ \A p \in T : f[p] = Claim(p) /\ g[p] = Claim(p)'
  BY ClaimSumIs
<1>2. /\ Amounts(h, T) /\ \A p \in T : g[p] <= h[p]
      /\ h[o] = g[o] /\ \A p \in T \ {o} : f[p] = h[p]
  BY <1>1 DEF Amounts
<1> HIDE DEF T, f, g, h
<1>3. SumFunctionOnSet(h, T) = SumFunctionOnSet(f, T) - f[o] + h[o]
  BY <1>1, <1>2, SumChange DEF T
<1>4. SumFunctionOnSet(g, T) <= SumFunctionOnSet(h, T)
  BY <1>1, <1>2, SumMonotone
<1>5. f[o] = Claim(o) /\ g[o] = Claim(o)'
  BY <1>1 DEF T
<1> QED
  BY <1>1, <1>2, <1>3, <1>4, <1>5

\* Covered, summed: what the venue can still trade is within what is reserved.
LEMMA ClaimBelowReserved ==
  ASSUME LTypeOK, Covered, NEW side, NEW S, S \subseteq Orders
  PROVE  ClaimSum(side, S) <= ReservedSum(side, S)
<1> DEFINE T == OfSide(side, S)
<1>1. /\ ClaimSum(side, S) = SumFunctionOnSet(Claims, T)
      /\ IsFiniteSet(T) /\ Amounts(Claims, T) /\ T \subseteq Orders
      /\ \A p \in T : Claims[p] = Claim(p)
  BY ClaimSumIs
<1>2. Amounts(HeldMap, T) /\ \A p \in T : Claims[p] <= HeldMap[p]
  BY <1>1, HeldAmounts DEF HeldMap, Covered
<1> HIDE DEF T
<1>3. SumFunctionOnSet(Claims, T) <= SumFunctionOnSet(HeldMap, T)
  BY <1>1, <1>2, SumMonotone
<1> QED
  BY <1>1, <1>3, ReservedIsHeld DEF HeldSum, T

\* One claim is part of the sum.
LEMMA ClaimInSum ==
  ASSUME NEW side, NEW S, S \subseteq Orders, NEW o \in OfSide(side, S)
  PROVE  Claim(o) <= ClaimSum(side, S)
<1> DEFINE T == OfSide(side, S)
           f == Claims
<1>1. /\ ClaimSum(side, S) = SumFunctionOnSet(f, T) /\ IsFiniteSet(T) /\ Amounts(f, T)
      /\ f[o] = Claim(o) /\ o \in T
  BY ClaimSumIs
<1>2. IsFiniteSet(T \ {o}) /\ Amounts(f, T \ {o})
  BY <1>1, FS_RemoveElement DEF Amounts
<1> HIDE DEF T, f
<1>3. SumFunctionOnSet(f, T) = f[o] + SumFunctionOnSet(f, T \ {o})
  BY <1>1, SumWithout
<1>4. SumFunctionOnSet(f, T \ {o}) \in Nat
  BY <1>2, SumNat
<1>5. f[o] \in Nat
  BY <1>1 DEF Amounts
<1> QED
  BY <1>1, <1>3, <1>4, <1>5

-------------------------------------------------------------------------------
(* Exposure *)

CapitalFinite == Amounts(shares, Markets) /\ CapitalSum(Markets) \in Nat

\* The capital in the inventory is a natural number, before and after a step.
LEMMA CapitalNat ==
  /\ LTypeOK => CapitalFinite
  /\ LTypeOK' => CapitalFinite'
<1>1. LTypeOK => Amounts(shares, Markets)
  BY DEF LTypeOK, Amounts
<1>2. LTypeOK' => Amounts(shares', Markets)
  BY DEF LTypeOK, Amounts
<1>3. Amounts(shares, Markets) => CapitalSum(Markets) \in Nat
  BY ConstantsAssumption, SumNat DEF CapitalSum
<1>4. Amounts(shares', Markets) => CapitalSum(Markets)' \in Nat
  BY ConstantsAssumption, SumNat DEF CapitalSum
<1> QED
  BY <1>1, <1>2, <1>3, <1>4 DEF CapitalFinite

\* What a fill does to the inventory and to the capital in it.
LEMMA FillCapital ==
  ASSUME LTypeOK, LTypeOK', NEW l \in Lots, ProcessFill(l), NEW o, o = OrderOf[l],
         NEW m, m = MarketOf[o]
  PROVE  /\ m \in Markets
         /\ \A k \in Markets : k # m => shares'[k] = shares[k]
         /\ Side[o] = "BUY" => /\ shares'[m] = shares[m] + 1
                               /\ CapitalSum(Markets)' = CapitalSum(Markets) + 1
         /\ Side[o] # "BUY" => /\ shares'[m] = shares[m] - 1
                               /\ CapitalSum(Markets)' = CapitalSum(Markets) - 1
<1> DEFINE f == shares
           g == shares'
<1>1. o \in Orders /\ m \in Markets
  BY ConstantsAssumption
<1>2. f \in [Markets -> Nat] /\ Amounts(f, Markets) /\ Amounts(g, Markets)
  BY CapitalNat DEF LTypeOK, CapitalFinite
<1>3. g = IF Side[o] = "BUY" THEN [f EXCEPT ![m] = @ + 1] ELSE [f EXCEPT ![m] = @ - 1]
  BY DEF ProcessFill
<1>4. CapitalSum(Markets) = SumFunctionOnSet(f, Markets)
      /\ CapitalSum(Markets)' = SumFunctionOnSet(g, Markets)
      /\ CapitalSum(Markets) \in Nat
  BY CapitalNat DEF CapitalSum, CapitalFinite
<1> HIDE DEF f, g
<1>5. /\ \A k \in Markets : k # m => g[k] = f[k]
      /\ g[m] = IF Side[o] = "BUY" THEN f[m] + 1 ELSE f[m] - 1
  BY <1>1, <1>2, <1>3
<1>6. SumFunctionOnSet(g, Markets) = SumFunctionOnSet(f, Markets) - f[m] + g[m]
  BY <1>1, <1>2, <1>5, ConstantsAssumption, SumChange
<1>7. f[m] \in Nat
  BY <1>1, <1>2
<1> QED
  BY <1>1, <1>4, <1>5, <1>6, <1>7 DEF f, g

\* RealExposureBounded, taken apart: the SELL half needs nothing of the caps.
BuyBounded ==
    /\ CapitalSum(Markets) + ClaimSum("BUY", Orders) <= GlobalCap
    /\ \A m \in Markets : shares[m] + ClaimSum("BUY", OrdersIn(m)) <= MarketCap
SellBounded == \A m \in Markets : ClaimSum("SELL", OrdersIn(m)) <= shares[m]

\* A step that leaves the inventory and shrinks the claims keeps both ...
LEMMA ExposureKept ==
  ASSUME LTypeOK, shares' = shares,
         \A p \in Orders : Unaccounted(p)' \subseteq Unaccounted(p)
  PROVE  /\ BuyBounded => BuyBounded'
         /\ SellBounded => SellBounded'
<1>1. \A p \in Orders : Claim(p)' <= Claim(p)
  BY ClaimSmaller
<1>2. ASSUME NEW side, NEW S, S \subseteq Orders
      PROVE  /\ ClaimSum(side, S)' <= ClaimSum(side, S)
             /\ ClaimSum(side, S) \in Nat /\ ClaimSum(side, S)' \in Nat
  BY <1>1, <1>2, ClaimSumShrinks, ClaimSumIs DEF OfSide
<1>3. \A m \in Markets : OrdersIn(m) \subseteq Orders /\ shares[m] \in Nat
  BY DEF OrdersIn, LTypeOK
<1>4. CapitalSum(Markets)' = CapitalSum(Markets) /\ CapitalSum(Markets) \in Nat
  BY CapitalNat DEF CapitalSum, CapitalFinite
<1>5. ASSUME BuyBounded
      PROVE  CapitalSum(Markets)' + ClaimSum("BUY", Orders)' <= GlobalCap
  BY <1>2, <1>4, <1>5, ConstantsAssumption DEF BuyBounded
<1>6. ASSUME BuyBounded, NEW m \in Markets
      PROVE  shares'[m] + ClaimSum("BUY", OrdersIn(m))' <= MarketCap
  <2>1. shares[m] + ClaimSum("BUY", OrdersIn(m)) <= MarketCap
    BY <1>6 DEF BuyBounded
  <2> QED
    BY <1>2, <1>3, <2>1, ConstantsAssumption
<1>7. ASSUME SellBounded, NEW m \in Markets
      PROVE  ClaimSum("SELL", OrdersIn(m))' <= shares'[m]
  <2>1. ClaimSum("SELL", OrdersIn(m)) <= shares[m]
    BY <1>7 DEF SellBounded
  <2> QED
    BY <1>2, <1>3, <2>1
<1> QED
  BY <1>5, <1>6, <1>7 DEF BuyBounded, SellBounded, OrdersIn

\* ... a reservation is only made for what still fits ...
LEMMA ExposureReserve ==
  ASSUME LInv, NEW o \in Orders, Reserve(o)
  PROVE  /\ BuyBounded => BuyBounded'
         /\ SellBounded => SellBounded'
<1> DEFINE side == Side[o]
           m == MarketOf[o]
<1>0. LTypeOK /\ Covered /\ side \in {"BUY", "SELL"} /\ m \in Markets /\ Size(o) \in Nat
  BY ConstantsAssumption, LotsFinite DEF LInv
<1>1. /\ shares' = shares /\ UNCHANGED <<event, venue, trade>>
      /\ task' = [task EXCEPT ![o] = "reserved"]
      /\ IF side = "BUY" THEN BuyAdmitted(o) ELSE SellAdmitted(o)
  BY DEF Reserve, GoTo, inbox, market
<1>2. task \in [Orders -> {"idle", "admitted", "reserved", "unjournaled", "journaled",
                       "sent", "replied", "persisted", "unpersisted", "done",
                             "abandoned"}]
  BY DEF LInv, LTypeOK
<1>3. ASSUME NEW p \in Orders, p # o  PROVE Claim(p)' <= Claim(p)
  <2>1. Unaccounted(p)' \subseteq Unaccounted(p)
    BY <1>1, <1>2, <1>3 DEF Unaccounted, Matched, Accounted
  <2> QED
    BY <2>1, ClaimSmaller
<1>4. Claim(o) \in Nat /\ Claim(o)' \in Nat /\ Claim(o)' <= Size(o)
  BY ClaimFinite
<1> HIDE DEF side, m
\* Sums that do not count this order shrink; the others grow by its size.
<1>5. ASSUME NEW s, NEW S, S \subseteq Orders
      PROVE  /\ ClaimSum(s, S)' <= ClaimSum(s, S) + Size(o)
             /\ s # side \/ o \notin S => ClaimSum(s, S)' <= ClaimSum(s, S)
             /\ ClaimSum(s, S) \in Nat /\ ClaimSum(s, S)' \in Nat
             /\ ClaimSum(s, S) <= ReservedSum(s, S) /\ ReservedSum(s, S) \in Nat
  <2>1. /\ ClaimSum(s, S) \in Nat /\ ClaimSum(s, S)' \in Nat
        /\ ClaimSum(s, S) <= ReservedSum(s, S) /\ ReservedSum(s, S) \in Nat
    BY <1>0, <1>5, ClaimSumIs, ClaimBelowReserved, ReservedIsHeld
  <2>2. CASE o \in OfSide(s, S)
    <3>1. ClaimSum(s, S)' <= ClaimSum(s, S) - Claim(o) + Claim(o)'
      BY <1>3, <1>5, <2>2, ClaimSumGrows DEF OfSide
    <3>2. s = side /\ o \in S
      BY <2>2 DEF OfSide, side
    <3> QED
      BY <1>0, <1>4, <2>1, <3>1, <3>2
  <2>3. CASE o \notin OfSide(s, S)
    <3>1. \A p \in OfSide(s, S) : Claim(p)' <= Claim(p)
      BY <1>3, <1>5, <2>3 DEF OfSide
    <3>2. ClaimSum(s, S)' <= ClaimSum(s, S)
      BY <1>5, <3>1, ClaimSumShrinks
    <3> QED
      BY <1>0, <2>1, <3>2
  <2> QED
    BY <2>1, <2>2, <2>3 DEF OfSide, side
<1>6. \A k \in Markets : /\ OrdersIn(k) \subseteq Orders /\ shares[k] \in Nat
                         /\ (o \in OrdersIn(k) <=> k = m)
  BY DEF OrdersIn, LTypeOK, LInv, m
<1>7. CapitalSum(Markets)' = CapitalSum(Markets) /\ CapitalSum(Markets) \in Nat
  BY <1>0, <1>1, CapitalNat DEF CapitalSum, CapitalFinite
<1>8. /\ side = "BUY" => /\ CapitalSum(Markets) + ReservedSum("BUY", Orders) + Size(o) <= GlobalCap
                         /\ shares[m] + ReservedSum("BUY", OrdersIn(m)) + Size(o) <= MarketCap
      /\ side # "BUY" => shares[m] - ReservedSum("SELL", OrdersIn(m)) >= Size(o)
  BY <1>1 DEF BuyAdmitted, SellAdmitted, m
<1>9. ASSUME BuyBounded
      PROVE  CapitalSum(Markets)' + ClaimSum("BUY", Orders)' <= GlobalCap
  <2>1. CapitalSum(Markets) + ClaimSum("BUY", Orders) <= GlobalCap
    BY <1>9 DEF BuyBounded
  <2>2. /\ ClaimSum("BUY", Orders)' <= ClaimSum("BUY", Orders) + Size(o)
        /\ "BUY" # side => ClaimSum("BUY", Orders)' <= ClaimSum("BUY", Orders)
        /\ ClaimSum("BUY", Orders) \in Nat /\ ClaimSum("BUY", Orders)' \in Nat
        /\ ClaimSum("BUY", Orders) <= ReservedSum("BUY", Orders)
        /\ ReservedSum("BUY", Orders) \in Nat
    BY <1>5
  <2> QED
    BY <1>0, <1>7, <1>8, <2>1, <2>2, ConstantsAssumption
<1>10. ASSUME BuyBounded, NEW k \in Markets
       PROVE  shares'[k] + ClaimSum("BUY", OrdersIn(k))' <= MarketCap
  <2>1. shares[k] + ClaimSum("BUY", OrdersIn(k)) <= MarketCap
    BY <1>10 DEF BuyBounded
  <2>2. /\ ClaimSum("BUY", OrdersIn(k))' <= ClaimSum("BUY", OrdersIn(k)) + Size(o)
        /\ "BUY" # side \/ k # m => ClaimSum("BUY", OrdersIn(k))' <= ClaimSum("BUY", OrdersIn(k))
        /\ ClaimSum("BUY", OrdersIn(k)) \in Nat /\ ClaimSum("BUY", OrdersIn(k))' \in Nat
        /\ ClaimSum("BUY", OrdersIn(k)) <= ReservedSum("BUY", OrdersIn(k))
        /\ ReservedSum("BUY", OrdersIn(k)) \in Nat
    BY <1>5, <1>6
  <2> QED
    BY <1>0, <1>1, <1>6, <1>8, <2>1, <2>2, ConstantsAssumption
<1>11. ASSUME SellBounded, NEW k \in Markets
       PROVE  ClaimSum("SELL", OrdersIn(k))' <= shares'[k]
  <2>1. ClaimSum("SELL", OrdersIn(k)) <= shares[k]
    BY <1>11 DEF SellBounded
  <2>2. /\ ClaimSum("SELL", OrdersIn(k))' <= ClaimSum("SELL", OrdersIn(k)) + Size(o)
        /\ "SELL" # side \/ k # m => ClaimSum("SELL", OrdersIn(k))' <= ClaimSum("SELL", OrdersIn(k))
        /\ ClaimSum("SELL", OrdersIn(k)) \in Nat /\ ClaimSum("SELL", OrdersIn(k))' \in Nat
        /\ ClaimSum("SELL", OrdersIn(k)) <= ReservedSum("SELL", OrdersIn(k))
        /\ ReservedSum("SELL", OrdersIn(k)) \in Nat
    BY <1>5, <1>6
  <2> QED
    BY <1>0, <1>1, <1>6, <1>8, <2>1, <2>2
<1> QED
  BY <1>9, <1>10, <1>11 DEF BuyBounded, SellBounded, OrdersIn

\* ... and a fill moves a share from the claim to the inventory.
LEMMA ExposureFill ==
  ASSUME LInv, LTypeOK', NEW l \in Lots, ProcessFill(l)
  PROVE  /\ BuyBounded => BuyBounded'
         /\ SellBounded => SellBounded'
<1> DEFINE o == OrderOf[l]
           side == Side[o]
           m == MarketOf[o]
<1>0. LTypeOK /\ side \in {"BUY", "SELL"} /\ m \in Markets /\ o \in Orders
  BY ConstantsAssumption DEF LInv
<1>1. /\ m \in Markets
      /\ \A k \in Markets : k # m => shares'[k] = shares[k]
      /\ side = "BUY" => /\ shares'[m] = shares[m] + 1
                         /\ CapitalSum(Markets)' = CapitalSum(Markets) + 1
      /\ side # "BUY" => /\ shares'[m] = shares[m] - 1
                         /\ CapitalSum(Markets)' = CapitalSum(Markets) - 1
  BY <1>0, FillCapital
<1>2. /\ Claim(o)' = Claim(o) - 1 /\ Claim(o) \in Nat
      /\ \A p \in Orders : p # o => Claim(p)' <= Claim(p)
  BY FillClaims, ClaimSmaller, ClaimFinite
<1> HIDE DEF o, side, m
<1>3. ASSUME NEW s, NEW S, S \subseteq Orders
      PROVE  /\ ClaimSum(s, S)' <= ClaimSum(s, S)
             /\ s = side /\ o \in S => ClaimSum(s, S)' <= ClaimSum(s, S) - 1
             /\ ClaimSum(s, S) \in Nat /\ ClaimSum(s, S)' \in Nat
  <2>1. ClaimSum(s, S) \in Nat /\ ClaimSum(s, S)' \in Nat
    BY <1>3, ClaimSumIs
  <2>2. CASE o \in OfSide(s, S)
    <3>1. ClaimSum(s, S)' <= ClaimSum(s, S) - Claim(o) + Claim(o)'
      BY <1>2, <1>3, <2>2, ClaimSumGrows DEF OfSide
    <3> QED
      BY <1>2, <2>1, <3>1
  <2>3. CASE o \notin OfSide(s, S)
    <3>1. \A p \in OfSide(s, S) : Claim(p)' <= Claim(p)
      BY <1>2, <1>3, <2>3 DEF OfSide
    <3>2. ClaimSum(s, S)' <= ClaimSum(s, S)
      BY <1>3, <3>1, ClaimSumShrinks
    <3>3. ~(s = side /\ o \in S)
      BY <2>3 DEF OfSide, side
    <3> QED
      BY <2>1, <3>2, <3>3
  <2> QED
    BY <2>2, <2>3
<1>4. \A k \in Markets : /\ OrdersIn(k) \subseteq Orders /\ shares[k] \in Nat
                         /\ (o \in OrdersIn(k) <=> k = m)
  BY <1>0 DEF OrdersIn, LTypeOK, m
<1>5. CapitalSum(Markets) \in Nat
  BY <1>0, CapitalNat DEF CapitalFinite
<1>6. ASSUME BuyBounded
      PROVE  CapitalSum(Markets)' + ClaimSum("BUY", Orders)' <= GlobalCap
  <2>1. CapitalSum(Markets) + ClaimSum("BUY", Orders) <= GlobalCap
    BY <1>6 DEF BuyBounded
  <2>2. /\ ClaimSum("BUY", Orders)' <= ClaimSum("BUY", Orders)
        /\ "BUY" = side => ClaimSum("BUY", Orders)' <= ClaimSum("BUY", Orders) - 1
        /\ ClaimSum("BUY", Orders) \in Nat /\ ClaimSum("BUY", Orders)' \in Nat
    BY <1>0, <1>3
  <2> QED
    BY <1>0, <1>1, <1>5, <2>1, <2>2, ConstantsAssumption
<1>7. ASSUME BuyBounded, NEW k \in Markets
      PROVE  shares'[k] + ClaimSum("BUY", OrdersIn(k))' <= MarketCap
  <2>1. shares[k] + ClaimSum("BUY", OrdersIn(k)) <= MarketCap
    BY <1>7 DEF BuyBounded
  <2>2. /\ ClaimSum("BUY", OrdersIn(k))' <= ClaimSum("BUY", OrdersIn(k))
        /\ "BUY" = side /\ k = m
           => ClaimSum("BUY", OrdersIn(k))' <= ClaimSum("BUY", OrdersIn(k)) - 1
        /\ ClaimSum("BUY", OrdersIn(k)) \in Nat /\ ClaimSum("BUY", OrdersIn(k))' \in Nat
    BY <1>3, <1>4
  <2> QED
    BY <1>0, <1>1, <1>4, <2>1, <2>2, ConstantsAssumption
<1>8. ASSUME SellBounded, NEW k \in Markets
      PROVE  ClaimSum("SELL", OrdersIn(k))' <= shares'[k]
  <2>1. ClaimSum("SELL", OrdersIn(k)) <= shares[k]
    BY <1>8 DEF SellBounded
  <2>2. /\ ClaimSum("SELL", OrdersIn(k))' <= ClaimSum("SELL", OrdersIn(k))
        /\ "SELL" = side /\ k = m
           => ClaimSum("SELL", OrdersIn(k))' <= ClaimSum("SELL", OrdersIn(k)) - 1
        /\ ClaimSum("SELL", OrdersIn(k)) \in Nat /\ ClaimSum("SELL", OrdersIn(k))' \in Nat
    BY <1>3, <1>4
  <2> QED
    BY <1>0, <1>1, <1>4, <2>1, <2>2
<1> QED
  BY <1>6, <1>7, <1>8 DEF BuyBounded, SellBounded, OrdersIn

\* Every step of the order path keeps the exposure bounded.
LEMMA ExposureStep ==
  ASSUME LInv, LTypeOK',
         LifecycleNext \/ Crash \/ Restart \/ Rebuild
  PROVE  /\ BuyBounded => BuyBounded'
         /\ SellBounded => SellBounded'
<1> DEFINE Kept == (BuyBounded => BuyBounded') /\ (SellBounded => SellBounded')
<1>0. LTypeOK
  BY DEF LInv
<1>1. ASSUME NEW o \in Orders, CreateOrderStep(o)  PROVE Kept
  <2>1. CASE Reserve(o)
    BY <2>1, ExposureReserve
  <2>2. CASE ~Reserve(o)
    BY <1>0, <1>1, <2>2, ClaimsShrinkCreate, HeldCreate, ExposureKept
  <2> QED
    BY <2>1, <2>2
<1>2. ASSUME \E l \in Lots : ProcessFill(l)  PROVE Kept
  BY <1>2, ExposureFill
<1>3. ASSUME \/ VenueStep \/ PersistHalt \/ Crash \/ Restart \/ Rebuild
             \/ \E o \in Orders : CancelStep(o)
             \/ \E l \in Lots : RecordFill(l) \/ FailFill(l) \/ AbandonFill(l) \/ FlagFee(l)
      PROVE  Kept
  <2>1. \A p \in Orders : Unaccounted(p)' \subseteq Unaccounted(p)
    BY <1>3, ClaimsShrinkOther
  <2>2. Rebuild => shares' = shares
    BY DEF Rebuild
  <2>3. shares' = shares
    BY <1>0, <1>3, <2>2, HeldCancel, HeldOther
  <2> QED
    BY <1>0, <2>1, <2>3, ExposureKept
<1> QED
  BY <1>1, <1>2, <1>3 DEF LifecycleNext, FillStep

\* The inventory the process starts with respects the caps.
InitialWithinCaps ==
    /\ SumFunctionOnSet(InitialShares, Markets) <= GlobalCap
    /\ \A m \in Markets : InitialShares[m] <= MarketCap

\* At first nothing is claimed: only the inventory counts.
LEMMA ExposureInit ==
  ASSUME LInit
  PROVE  /\ SellBounded
         /\ InitialWithinCaps => BuyBounded
<1>1. ASSUME NEW side, NEW S, S \subseteq Orders  PROVE ClaimSum(side, S) = 0
  <2>1. /\ ClaimSum(side, S) = SumFunctionOnSet(Claims, OfSide(side, S))
        /\ OfSide(side, S) \subseteq Orders /\ IsFiniteSet(OfSide(side, S))
        /\ Amounts(Claims, OfSide(side, S))
        /\ \A p \in OfSide(side, S) : Claims[p] = Claim(p)
    BY <1>1, ClaimSumIs
  <2>2. \A p \in Orders : Unaccounted(p) = {}
    BY DEF LInit, Unaccounted, Matched, LotsOf
  <2>3. \A p \in OfSide(side, S) : Claims[p] = 0
    BY <2>1, <2>2, FS_EmptySet DEF Claim
  <2>4. Units(Claims, OfSide(side, S)) = {}
    BY <2>3 DEF Units
  <2> QED
    BY <2>1, <2>4, SumIsCount, FS_EmptySet
<1>2. \A m \in Markets : OrdersIn(m) \subseteq Orders
  BY DEF OrdersIn
<1>3. shares = InitialShares /\ CapitalSum(Markets) \in Nat
      /\ \A m \in Markets : InitialShares[m] \in Nat
  BY TypeInit, CapitalNat, ConstantsAssumption DEF LInit, CapitalFinite
<1>4. ASSUME InitialWithinCaps
      PROVE  CapitalSum(Markets) + ClaimSum("BUY", Orders) <= GlobalCap
  <2>1. ClaimSum("BUY", Orders) = 0
    BY <1>1
  <2>2. CapitalSum(Markets) <= GlobalCap
    BY <1>3, <1>4 DEF InitialWithinCaps, CapitalSum
  <2> QED
    BY <1>3, <2>1, <2>2
<1>5. ASSUME NEW m \in Markets
      PROVE  /\ InitialWithinCaps => shares[m] + ClaimSum("BUY", OrdersIn(m)) <= MarketCap
             /\ ClaimSum("SELL", OrdersIn(m)) <= shares[m]
  <2>1. ClaimSum("BUY", OrdersIn(m)) = 0 /\ ClaimSum("SELL", OrdersIn(m)) = 0
    BY <1>1, <1>2
  <2> QED
    BY <1>3, <2>1 DEF InitialWithinCaps
<1> QED
  BY <1>4, <1>5 DEF BuyBounded, SellBounded

\* A RECEIVED fill is a claimed lot, so the reservation, and for a SELL the
\* inventory, still hold it.
LEMMA ReceivedAccepted ==
  ASSUME LInv, SellBounded
  PROVE  FillsAccepted
<1> SUFFICES ASSUME NEW l \in Lots, event[l] = "RECEIVED"
             PROVE  FillFits(OrderOf[l])
  BY DEF FillsAccepted, FillAccepted, Verified
<1> DEFINE o == OrderOf[l]
           m == MarketOf[o]
<1>1. o \in Orders /\ m \in Markets /\ Side[o] \in {"BUY", "SELL"}
  BY ConstantsAssumption
<1>2. trade[l] = "confirmed" /\ l \in Matched(o) /\ l \notin Accounted(o)
  BY DEF LInv, AtVenue, EventConfirmed, Matched, LotsOf, Accounted
<1>3. l \in Unaccounted(o) /\ l \in LotsOf(o)
  BY <1>2 DEF Unaccounted, Matched
<1>4. Claim(o) >= 1 /\ Claim(o) \in Nat
  <2>1. Claim(o) # 0
    BY <1>1, <1>3, ClaimFinite, FS_EmptySet DEF Claim
  <2> QED
    BY <1>1, <2>1, ClaimFinite
<1>5. Active(o) /\ resv[o].rem >= 1
  <2>1. Claim(o) <= Held(o) /\ resv[o].rem \in Nat
    BY <1>1 DEF LInv, Covered, LTypeOK
  <2> QED
    BY <1>4, <2>1 DEF Held
<1>6. journal[o].filled + 1 <= Size(o)
  <2>1. Accounted(o) \subseteq LotsOf(o) \ {l}
    BY <1>2 DEF Accounted
  <2>2. /\ IsFiniteSet(LotsOf(o) \ {l}) /\ Cardinality(LotsOf(o) \ {l}) = Size(o) - 1
        /\ Size(o) \in Nat
    BY <1>1, <1>3, LotsFinite, FS_RemoveElement DEF Size
  <2>3. Cardinality(Accounted(o)) <= Size(o) - 1 /\ Cardinality(Accounted(o)) \in Nat
    BY <2>1, <2>2, FS_Subset, FS_CardinalityType
  <2>4. journal[o].filled <= Cardinality(Accounted(o)) /\ journal[o].filled \in Nat
    BY <1>1 DEF LInv, FilledBound, LTypeOK
  <2> QED
    BY <2>2, <2>3, <2>4
<1>7. ASSUME Side[o] = "SELL"  PROVE shares[m] >= 1
  <2>1. OrdersIn(m) \subseteq Orders /\ o \in OfSide("SELL", OrdersIn(m))
    BY <1>1, <1>7 DEF OrdersIn, OfSide
  <2>2. Claim(o) <= ClaimSum("SELL", OrdersIn(m)) /\ ClaimSum("SELL", OrdersIn(m)) \in Nat
    BY <2>1, ClaimInSum, ClaimSumIs
  <2>3. ClaimSum("SELL", OrdersIn(m)) <= shares[m] /\ shares[m] \in Nat
    BY <1>1 DEF SellBounded, LInv, LTypeOK
  <2> QED
    BY <1>4, <2>2, <2>3
<1> QED
  BY <1>5, <1>6, <1>7 DEF FillFits

-------------------------------------------------------------------------------
(* The budget as the ledger keeps it *)

\* BookWithinCap as a sum over all BUY orders.
BookBounded ==
    /\ CapitalSum(Markets) + HeldSum("BUY", Orders) <= GlobalCap
    /\ \A m \in Markets : shares[m] + HeldSum("BUY", OrdersIn(m)) <= MarketCap

\* The ledger's budget is the held amounts' budget.
LEMMA BookIsHeld ==
  ASSUME LTypeOK
  PROVE  BookWithinCap <=> BookBounded
<1>1. \A m : OrdersIn(m) \subseteq Orders
  BY DEF OrdersIn
<1> QED
  BY <1>1, ReservedIsHeld DEF BookWithinCap, BookBounded

\* One order's amount changes by at most what the step books against the caps.
LEMMA HeldSumStep ==
  ASSUME LTypeOK, LTypeOK', NEW o \in Orders,
         \A p \in Orders : p # o => Held(p)' = Held(p),
         NEW S, S \subseteq Orders
  PROVE  /\ HeldSum("BUY", S) \in Nat /\ HeldSum("BUY", S)' \in Nat
         /\ o \in OfSide("BUY", S)
            => HeldSum("BUY", S)' = HeldSum("BUY", S) - Held(o) + Held(o)'
         /\ o \notin OfSide("BUY", S) => HeldSum("BUY", S)' = HeldSum("BUY", S)
<1>1. HeldSum("BUY", S) \in Nat /\ (LTypeOK' => HeldSum("BUY", S)' \in Nat)
  <2>1. OfSide("BUY", S) \subseteq Orders /\ IsFiniteSet(OfSide("BUY", S))
    BY OrdersFinite DEF OfSide
  <2>2. Amounts(HeldMap', OfSide("BUY", S))
    BY <2>1, HeldType DEF Amounts, HeldMap
  <2> QED
    BY <2>1, <2>2, HeldSumNat, SumNat DEF HeldSum, OfSide
<1>2. ASSUME o \in OfSide("BUY", S)
      PROVE  HeldSum("BUY", S)' = HeldSum("BUY", S) - Held(o) + Held(o)'
  BY <1>2, HeldSumOne
<1>3. ASSUME o \notin OfSide("BUY", S)
      PROVE  HeldSum("BUY", S)' = HeldSum("BUY", S)
  <2>1. \A p \in OfSide("BUY", S) : Held(p)' = Held(p)
    BY <1>3 DEF OfSide
  <2> QED
    BY <2>1, HeldSumSame
<1> QED
  BY <1>1, <1>2, <1>3

\* Without a crash every transaction stays within the budget: a reservation is
\* admitted against it, a fill moves one unit from reserved to inventory.
LEMMA BookStep ==
  ASSUME LTypeOK, LTypeOK', AllLinked, BookBounded, LifecycleNext
  PROVE  BookBounded'
<1>0. /\ \A m \in Markets : OrdersIn(m) \subseteq Orders /\ shares[m] \in Nat
      /\ CapitalSum(Markets) \in Nat /\ GlobalCap \in Nat /\ MarketCap \in Nat
      /\ \A o \in Orders : /\ Held(o) \in Nat /\ Held(o)' \in Nat /\ Size(o) \in Nat
                           /\ MarketOf[o] \in Markets
  BY ConstantsAssumption, CapitalNat, HeldType, LotsFinite DEF OrdersIn, LTypeOK, CapitalFinite
<1>1. ASSUME shares' = shares, NEW o \in Orders, Held(o)' <= Held(o),
             \A p \in Orders : p # o => Held(p)' = Held(p)
      PROVE  BookBounded'
  <2>1. CapitalSum(Markets)' = CapitalSum(Markets)
    BY <1>1 DEF CapitalSum
  <2>2. ASSUME NEW S, S \subseteq Orders
        PROVE  /\ HeldSum("BUY", S)' <= HeldSum("BUY", S)
               /\ HeldSum("BUY", S) \in Nat /\ HeldSum("BUY", S)' \in Nat
    BY <1>0, <1>1, <2>2, HeldSumStep
  <2>3. CapitalSum(Markets)' + HeldSum("BUY", Orders)' <= GlobalCap
    BY <1>0, <2>1, <2>2 DEF BookBounded
  <2>4. ASSUME NEW m \in Markets
        PROVE  shares'[m] + HeldSum("BUY", OrdersIn(m))' <= MarketCap
    BY <1>0, <1>1, <2>2 DEF BookBounded
  <2> QED
    BY <2>3, <2>4 DEF BookBounded, OrdersIn
<1>2. ASSUME NEW o \in Orders, Reserve(o)
      PROVE  BookBounded'
  <2> DEFINE m == MarketOf[o]
  <2>1. /\ resv' = [resv EXCEPT ![o] = [status |-> "RESERVED", rem |-> Size(o)]]
        /\ task[o] = "admitted" /\ shares' = shares /\ (Side[o] = "BUY" => BuyAdmitted(o))
    BY <1>2 DEF Reserve
  <2>2. resv[o].status = "none" /\ resv \in ResvType
    BY <2>1 DEF AllLinked, Linked, LTypeOK, ResvType
  <2>3. /\ Held(o) = 0 /\ Held(o)' = Size(o)
        /\ \A p \in Orders : p # o => Held(p)' = Held(p)
    BY <2>1, <2>2 DEF Held, Active, ActiveStatuses, ResvType
  <2>4. \A k \in Markets : OrdersIn(k) \subseteq Orders /\ (o \in OrdersIn(k) <=> k = m)
    BY DEF OrdersIn
  <2>5. Side[o] = "BUY"
        => /\ CapitalSum(Markets) + HeldSum("BUY", Orders) + Size(o) <= GlobalCap
           /\ shares[m] + HeldSum("BUY", OrdersIn(m)) + Size(o) <= MarketCap
    BY <1>0, <2>1, <2>4, ReservedIsHeld DEF BuyAdmitted
  <2> HIDE DEF m
  <2>6. ASSUME NEW S, S \subseteq Orders
        PROVE  /\ HeldSum("BUY", S) \in Nat
               /\ Side[o] = "BUY" /\ o \in S
                  => HeldSum("BUY", S)' = HeldSum("BUY", S) + Size(o)
               /\ Side[o] # "BUY" \/ o \notin S => HeldSum("BUY", S)' = HeldSum("BUY", S)
    <3>1. o \in OfSide("BUY", S) <=> Side[o] = "BUY" /\ o \in S
      BY DEF OfSide
    <3>2. /\ HeldSum("BUY", S) \in Nat /\ HeldSum("BUY", S)' \in Nat
          /\ o \in OfSide("BUY", S)
             => HeldSum("BUY", S)' = HeldSum("BUY", S) - Held(o) + Held(o)'
          /\ o \notin OfSide("BUY", S) => HeldSum("BUY", S)' = HeldSum("BUY", S)
      BY <2>3, <2>6, HeldSumStep
    <3> QED
      BY <1>0, <2>3, <3>1, <3>2
  <2>7. CapitalSum(Markets)' = CapitalSum(Markets)
    BY <2>1 DEF CapitalSum
  <2>8. CapitalSum(Markets)' + HeldSum("BUY", Orders)' <= GlobalCap
    <3>1. CapitalSum(Markets) + HeldSum("BUY", Orders) <= GlobalCap
      BY DEF BookBounded
    <3> QED
      BY <1>0, <2>5, <2>6, <2>7, <3>1
  <2>9. ASSUME NEW k \in Markets
        PROVE  shares'[k] + HeldSum("BUY", OrdersIn(k))' <= MarketCap
    <3>1. shares[k] + HeldSum("BUY", OrdersIn(k)) <= MarketCap
      BY DEF BookBounded
    <3>2. CASE Side[o] = "BUY" /\ k = m
      BY <1>0, <2>1, <2>4, <2>5, <2>6, <3>2
    <3>3. CASE ~(Side[o] = "BUY" /\ k = m)
      <4>1. HeldSum("BUY", OrdersIn(k))' = HeldSum("BUY", OrdersIn(k))
        BY <2>4, <2>6, <3>3
      <4> QED
        BY <2>1, <3>1, <4>1
    <3> QED
      BY <3>2, <3>3
  <2> QED
    BY <2>8, <2>9 DEF BookBounded, OrdersIn
<1>3. ASSUME NEW o \in Orders, NEW st \in TerminalStatuses, Release(o, st), shares' = shares
      PROVE  BookBounded'
  <2>1. Held(o)' = 0 /\ \A p \in Orders : p # o => Held(p)' = Held(p)
    BY <1>3, ReleaseLemma DEF LTypeOK, ResvType
  <2> QED
    BY <1>0, <1>1, <1>3, <2>1
<1>4. ASSUME NEW l \in Lots, ProcessFill(l)
      PROVE  BookBounded'
  <2> DEFINE o == OrderOf[l]
             m == MarketOf[o]
  <2>1. /\ o \in Orders /\ Held(o) >= 1 /\ Held(o)' = Held(o) - 1
        /\ \A p \in Orders : p # o => Held(p)' = Held(p)
    BY <1>4, HeldFill
  <2>2. /\ m \in Markets
        /\ \A k \in Markets : k # m => shares'[k] = shares[k]
        /\ Side[o] = "BUY" => /\ shares'[m] = shares[m] + 1
                              /\ CapitalSum(Markets)' = CapitalSum(Markets) + 1
        /\ Side[o] # "BUY" => /\ shares'[m] = shares[m] - 1
                              /\ CapitalSum(Markets)' = CapitalSum(Markets) - 1
    BY <1>4, FillCapital
  <2>3. \A k \in Markets : OrdersIn(k) \subseteq Orders /\ (o \in OrdersIn(k) <=> k = m)
    BY <2>1 DEF OrdersIn
  <2> HIDE DEF o, m
  <2>4. ASSUME NEW S, S \subseteq Orders
        PROVE  /\ HeldSum("BUY", S) \in Nat
               /\ Side[o] = "BUY" /\ o \in S => HeldSum("BUY", S)' = HeldSum("BUY", S) - 1
               /\ Side[o] # "BUY" \/ o \notin S => HeldSum("BUY", S)' = HeldSum("BUY", S)
    <3>1. o \in OfSide("BUY", S) <=> Side[o] = "BUY" /\ o \in S
      BY DEF OfSide
    <3>2. /\ HeldSum("BUY", S) \in Nat /\ HeldSum("BUY", S)' \in Nat
          /\ o \in OfSide("BUY", S)
             => HeldSum("BUY", S)' = HeldSum("BUY", S) - Held(o) + Held(o)'
          /\ o \notin OfSide("BUY", S) => HeldSum("BUY", S)' = HeldSum("BUY", S)
      BY <2>1, <2>4, HeldSumStep
    <3> QED
      BY <1>0, <2>1, <3>1, <3>2
  <2>5. CapitalSum(Markets)' + HeldSum("BUY", Orders)' <= GlobalCap
    <3>1. CapitalSum(Markets) + HeldSum("BUY", Orders) <= GlobalCap
      BY DEF BookBounded
    <3> QED
      BY <1>0, <2>1, <2>2, <2>4, <3>1
  <2>6. ASSUME NEW k \in Markets
        PROVE  shares'[k] + HeldSum("BUY", OrdersIn(k))' <= MarketCap
    <3>1. shares[k] + HeldSum("BUY", OrdersIn(k)) <= MarketCap
      BY DEF BookBounded
    <3>2. CASE k # m
      BY <2>2, <2>3, <2>4, <3>1, <3>2
    <3>3. CASE k = m
      BY <1>0, <2>2, <2>3, <2>4, <3>1, <3>3
    <3> QED
      BY <3>2, <3>3
  <2> QED
    BY <2>5, <2>6 DEF BookBounded, OrdersIn
<1>5. ASSUME SameHeld, shares' = shares  PROVE BookBounded'
  <2>1. CapitalSum(Markets)' = CapitalSum(Markets)
    BY <1>5 DEF CapitalSum
  <2>2. \A S : S \subseteq Orders => HeldSum("BUY", S)' = HeldSum("BUY", S)
    BY <1>5, HeldSumSame DEF SameHeld, OfSide
  <2> QED
    BY <1>0, <1>5, <2>1, <2>2 DEF BookBounded, OrdersIn
<1>6. ASSUME NEW o \in Orders, CreateOrderStep(o)  PROVE BookBounded'
  BY <1>2, <1>3, <1>5, <1>6, HeldCreate
<1>7. ASSUME NEW o \in Orders, CancelStep(o)  PROVE BookBounded'
  BY <1>5, <1>7, HeldCancel
<1>8. CASE VenueStep \/ PersistHalt \/ \E l \in Lots : RecordFill(l) \/ FailFill(l) \/ AbandonFill(l) \/ FlagFee(l)
  BY <1>5, <1>8, HeldOther
<1> QED
  BY <1>4, <1>6, <1>7, <1>8 DEF LifecycleNext, FillStep

\* At first nothing is reserved.
LEMMA BookInit ==
  ASSUME LInit, InitialWithinCaps
  PROVE  BookBounded
<1>0. LTypeOK
  BY TypeInit
<1>1. ASSUME NEW S, S \subseteq Orders  PROVE HeldSum("BUY", S) = 0
  <2> DEFINE T == OfSide("BUY", S)
  <2>1. T \subseteq Orders /\ IsFiniteSet(T) /\ Amounts(HeldMap, T)
    BY <1>0, <1>1, OrdersFinite, HeldAmounts DEF OfSide
  <2>2. \A p \in T : HeldMap[p] = 0
    BY <2>1 DEF LInit, HeldMap, Held
  <2>3. Units(HeldMap, T) = {}
    BY <2>2 DEF Units
  <2> QED
    BY <2>1, <2>3, SumIsCount, FS_EmptySet DEF HeldSum
<1>2. \A m \in Markets : OrdersIn(m) \subseteq Orders
  BY DEF OrdersIn
<1>3. shares = InitialShares /\ CapitalSum(Markets) \in Nat
      /\ \A m \in Markets : InitialShares[m] \in Nat
  BY <1>0, CapitalNat, ConstantsAssumption DEF LInit, CapitalFinite
<1>4. CapitalSum(Markets) + HeldSum("BUY", Orders) <= GlobalCap
  <2>1. HeldSum("BUY", Orders) = 0
    BY <1>1
  <2>2. CapitalSum(Markets) <= GlobalCap
    BY <1>3 DEF InitialWithinCaps, CapitalSum
  <2> QED
    BY <1>3, <2>1, <2>2
<1>5. ASSUME NEW m \in Markets
      PROVE  shares[m] + HeldSum("BUY", OrdersIn(m)) <= MarketCap
  <2>1. HeldSum("BUY", OrdersIn(m)) = 0
    BY <1>1, <1>2
  <2> QED
    BY <1>3, <2>1 DEF InitialWithinCaps
<1> QED
  BY <1>4, <1>5 DEF BookBounded

\* The budget as the ledger keeps it: in a process that does not crash, cost
\* basis plus active BUY reservations stay within the global cap and the cap of
\* every market, whatever create_order, cancel_order, the fill inbox and the
\* venue interleave, if the process starts within the caps.  (An exact
\* inductive invariant: what is held, and that an admitted order holds nothing.)
THEOREM BookHolds == InitialWithinCaps => (LifecycleSpec => []BookWithinCap)
<1> SUFFICES ASSUME InitialWithinCaps PROVE LifecycleSpec => []BookWithinCap
  OBVIOUS
<1> DEFINE J == LInv /\ AllLinked /\ BookBounded
<1>1. LInit => J
  BY LInvInit, LinkedInit, BookInit
<1>2. ASSUME J, LifecycleNext  PROVE J'
  BY <1>2, LInvStep, LinkedLife, BookStep DEF LInv
<1>3. ASSUME J, UNCHANGED lvars  PROVE J'
  <2>1. UNCHANGED <<journal, resv, shares, event, accounting, venue, trade, task, outcome,
                    cancel, marking>>
    BY <1>3 DEF lvars, db, inbox, market, process
  <2>2. LTypeOK'
    BY <1>3 DEF LInv, LTypeOK, lvars, db, inbox, market, process, flags, control
  <2>3. LInv'
    BY <1>3, <2>1, <2>2, LInvQuiet
  <2>4. AllLinked'
    BY <1>3, <2>1 DEF AllLinked, Linked
  <2>5. BookWithinCap' <=> BookWithinCap
    BY <2>1 DEF BookWithinCap, CapitalSum, ReservedSum, Remaining, Active, OrdersIn
  <2>6. (LTypeOK => (BookWithinCap <=> BookBounded)) /\ (LTypeOK' => (BookWithinCap' <=> BookBounded'))
    <3>1. LTypeOK => (BookWithinCap <=> BookBounded)
      BY BookIsHeld
    <3>2. (LTypeOK => (BookWithinCap <=> BookBounded))'
      BY <3>1, BookIsHeld, PTL
    <3> QED
      BY <3>1, <3>2
  <2> QED
    BY <1>3, <2>2, <2>3, <2>4, <2>5, <2>6 DEF LInv
<1>4. J => BookWithinCap
  BY BookIsHeld DEF LInv
<1> HIDE DEF J
<1> QED
  BY <1>1, <1>2, <1>3, <1>4, PTL DEF LifecycleSpec
===============================================================================
