---------------------- MODULE OrderReconciliationProofs ----------------------
(***************************************************************************)
(* Type correctness, and that every reservation covers what its order can  *)
(* still trade, for OrderReconciliation: the order path, its crashes and   *)
(* restarts, and a reconciliation pass whose reads may all be stale when   *)
(* it applies them.  The lifecycle half of the induction comes from        *)
(* OrderLifecycleProofs; PassInv is what stale reads still guarantee.      *)
(***************************************************************************)
EXTENDS OrderReconciliation, OrderLifecycleProofs

\* An exchange order reports no more matched than its size.
BookBound == \A o \in Orders : book[o].matched <= Size(o)

\* A filled size that was read is still a lower bound of what is accounted.
FactsBound == \A o \in Orders : facts[o].filled <= Cardinality(Accounted(o))

\* A canceled order that was read trades no more.
CanceledBook ==
    \A o \in Orders :
        book[o].status = "canceled"
        => venue[o] = "canceled" /\ Cardinality(Matched(o)) <= book[o].matched

\* Recovery inserts confirmed trades only.
TodoConfirmed == \A l \in todo : trade[l] = "confirmed"

TypeInv == LTypeOK /\ PassType /\ BookBound
PassInv == FactsBound /\ CanceledBook /\ TodoConfirmed
IInv    == LInv /\ PassType /\ BookBound /\ PassInv

-------------------------------------------------------------------------------
(* Types *)

\* A pass that ends, is canceled or is lost in a crash leaves no reads.
LEMMA TypeEndPass ==
  ASSUME EndPass \/ CancelPass
  PROVE  PassType' /\ BookBound'
<1>1. book' = NoBooks /\ facts' = NoFacts /\ unsettled' = NoneUnsettled
  BY DEF EndPass, CancelPass
<1>2. /\ NoBooks \in [Orders -> [status : VenueStatuses, matched : Nat]]
      /\ NoFacts \in [Orders -> [in : BOOLEAN, xid : BOOLEAN, filled : Nat, rem : Nat]]
      /\ NoneUnsettled \in [Orders -> Nat]
  BY DEF NoBooks, NoFacts, NoneUnsettled, NoBook, NoFact, VenueStatuses
<1>3. PassType'
  BY <1>1, <1>2 DEF EndPass, CancelPass, PassType
<1>4. \A o \in Orders : book'[o].matched = 0
  BY <1>1 DEF NoBooks, NoBook
<1>5. BookBound'
  BY <1>4, LotsFinite DEF BookBound
<1> QED
  BY <1>3, <1>5

\* No pass runs at first.
LEMMA TypePassInit == Init => PassType /\ BookBound
<1> SUFFICES ASSUME Init PROVE PassType /\ BookBound
  OBVIOUS
<1>1. /\ NoBooks \in [Orders -> [status : VenueStatuses, matched : Nat]]
      /\ NoFacts \in [Orders -> [in : BOOLEAN, xid : BOOLEAN, filled : Nat, rem : Nat]]
      /\ NoneUnsettled \in [Orders -> Nat]
  BY DEF NoBooks, NoFacts, NoneUnsettled, NoBook, NoFact, VenueStatuses
<1>2. PassType
  BY <1>1 DEF Init, PassType
<1>3. \A o \in Orders : book[o].matched = 0
  BY DEF Init, NoBooks, NoBook
<1> QED
  BY <1>2, <1>3, LotsFinite DEF BookBound

\* The matched shares of an order are at most its size.
LEMMA MatchedFinite ==
  ASSUME NEW o \in Orders
  PROVE  /\ IsFiniteSet(Matched(o)) /\ Cardinality(Matched(o)) \in Nat
         /\ Cardinality(Matched(o)) <= Size(o)
<1>1. Matched(o) \subseteq LotsOf(o)
  BY DEF Matched
<1> QED
  BY <1>1, LotsFinite

\* The steps of a pass that only read.
PassRead == BeginPass \/ ReadTrades \/ FinishRecovery \/ LoadFacts \/ FetchOrders

\* The reads store values of the right types.
LEMMA TypeRead ==
  ASSUME TypeInv, PassRead
  PROVE  PassType' /\ BookBound'
<1>0. PassType /\ BookBound /\ LTypeOK
  BY DEF TypeInv
<1>1. CASE BeginPass
  BY <1>0, <1>1 DEF BeginPass, PassType, BookBound
<1>2. CASE ReadTrades
  <2>1. \A o \in Orders : Cardinality({l \in LotsOf(o) : trade[l] = "matched"}) \in Nat
    BY LotsFinite
  <2>2. unsettled' \in [Orders -> Nat]
    BY <1>2, <2>1 DEF ReadTrades
  <2> QED
    BY <1>0, <1>2, <2>2 DEF ReadTrades, PassType, BookBound
<1>3. CASE FinishRecovery
  BY <1>0, <1>3 DEF FinishRecovery, PassType, BookBound
<1>4. CASE LoadFacts
  <2>1. ASSUME NEW o \in Orders
        PROVE  /\ journal[o].xid \in BOOLEAN /\ journal[o].filled \in Nat
               /\ resv[o].rem \in Nat
    BY <1>0 DEF LTypeOK
  <2>2. facts' \in [Orders -> [in : BOOLEAN, xid : BOOLEAN, filled : Nat, rem : Nat]]
    BY <1>4, <2>1 DEF LoadFacts, NoFact
  <2> QED
    BY <1>0, <1>4, <2>2 DEF LoadFacts, PassType, BookBound
<1>5. CASE FetchOrders
  <2>1. ASSUME NEW o \in Orders
        PROVE  /\ venue[o] \in VenueStatuses
               /\ Cardinality(Matched(o)) \in Nat /\ Cardinality(Matched(o)) <= Size(o)
               /\ Size(o) \in Nat
    BY <1>0, MatchedFinite, LotsFinite DEF LTypeOK
  <2>2. book' \in [Orders -> [status : VenueStatuses, matched : Nat]]
    BY <1>5, <2>1 DEF FetchOrders, NoBook, VenueStatuses
  <2>3. BookBound'
    BY <1>5, <2>1 DEF FetchOrders, NoBook, BookBound
  <2> QED
    BY <1>0, <1>5, <2>2, <2>3 DEF FetchOrders, PassType
<1> QED
  BY <1>1, <1>2, <1>3, <1>4, <1>5 DEF PassRead

\* A read changes nothing but the pass.
LEMMA ReadFrame ==
  ASSUME PassRead
  PROVE  UNCHANGED lvars
BY DEF PassRead, BeginPass, ReadTrades, FinishRecovery, LoadFacts, FetchOrders

\* Steps of the pass alone keep the types of the order path.
LEMMA TypeQuiet ==
  ASSUME LTypeOK, UNCHANGED lvars
  PROVE  LTypeOK'
BY DEF LTypeOK, lvars, db, inbox, market, process, flags, control

\* The verdict writes rows of the right shape.
LEMMA TypeApply ==
  ASSUME TypeInv, ApplyReport
  PROVE  LTypeOK' /\ PassType' /\ BookBound'
<1>0. PassType /\ BookBound /\ LTypeOK
  BY DEF TypeInv
<1>1. journal' \in JournalType
  <2>1. ASSUME NEW o \in Orders
        PROVE  JournalAfter(o) \in [status : JournalStatuses, xid : BOOLEAN, filled : Nat]
    <3>1. journal[o] \in [status : JournalStatuses, xid : BOOLEAN, filled : Nat]
      BY <1>0 DEF LTypeOK
    <3> QED
      BY <3>1 DEF JournalAfter, JournalStatuses, OpenJournalStatuses
  <2> QED
    BY <2>1 DEF ApplyReport, JournalType
<1>2. resv' \in ResvType
  <2>1. ASSUME NEW o \in Orders
        PROVE  ResvAfter(o) \in [status : ResvStatuses, rem : Nat]
    <3>1. resv[o] \in [status : ResvStatuses, rem : Nat]
      BY <1>0 DEF LTypeOK
    <3>2. OpenRemaining(o) \in Nat
      BY <1>0, LotsFinite DEF OpenRemaining, PassType, BookBound
    <3> QED
      BY <3>1, <3>2 DEF ResvAfter, ResvStatuses, ActiveStatuses, TerminalStatuses
  <2> QED
    BY <2>1 DEF ApplyReport, ResvType
<1>3. LTypeOK'
  BY <1>0, <1>1, <1>2
     DEF ApplyReport, LTypeOK, JournalType, ResvType, inbox, market, process, flags, control
<1>4. book' = NoBooks /\ facts' = NoFacts /\ unsettled' = NoneUnsettled
  BY DEF ApplyReport
<1>5. /\ NoBooks \in [Orders -> [status : VenueStatuses, matched : Nat]]
      /\ NoFacts \in [Orders -> [in : BOOLEAN, xid : BOOLEAN, filled : Nat, rem : Nat]]
      /\ NoneUnsettled \in [Orders -> Nat]
  BY DEF NoBooks, NoFacts, NoneUnsettled, NoBook, NoFact, VenueStatuses
<1>6. verdict' \in {"none", "safe", "pending", "sticky"}
  BY DEF ApplyReport
<1>7. PassType'
  BY <1>0, <1>4, <1>5, <1>6 DEF ApplyReport, PassType
<1>8. \A o \in Orders : book'[o].matched = 0
  BY <1>4 DEF NoBooks, NoBook
<1>9. BookBound'
  BY <1>8, LotsFinite DEF BookBound
<1> QED
  BY <1>3, <1>7, <1>9

\* Recovery only inserts into the inbox.
LEMMA TypeRecover ==
  ASSUME TypeInv, NEW l \in Lots, RecoverFill(l)
  PROVE  LTypeOK' /\ PassType' /\ BookBound'
<1>1. LTypeOK'
  BY DEF TypeInv, LTypeOK, RecoverFill, InsertReceived, market, process, flags, control
<1>2. UNCHANGED rvars
  BY DEF RecoverFill
<1> QED
  BY <1>1, <1>2 DEF TypeInv, PassType, BookBound, rvars

\* The end of a pass keeps the types.
LEMMA TypeEnd ==
  ASSUME TypeInv, FinishPass \/ FailPass \/ StreamDown
  PROVE  LTypeOK' /\ PassType' /\ BookBound'
<1>1. EndPass /\ UNCHANGED <<db, market, process, riskOk, crashes, haltDb>>
  BY DEF FinishPass, FailPass, StreamDown, control
<1>2. openOk' \in BOOLEAN /\ halted' \in BOOLEAN
  BY DEF FinishPass, FailPass, StreamDown, TypeInv, LTypeOK
<1>3. phase' \in {"down", "boot", "rebuild", "run", "held"}
  BY DEF FinishPass, FailPass, StreamDown, control, AfterPass, TypeInv, LTypeOK
<1>4. LTypeOK'
  BY <1>1, <1>2, <1>3 DEF TypeInv, LTypeOK, db, inbox, market, process
<1> QED
  BY <1>1, <1>4, TypeEndPass

\* Every step of Next keeps the types.
LEMMA TypeStep ==
  ASSUME TypeInv, Next
  PROVE  TypeInv'
<1>0. LTypeOK /\ PassType /\ BookBound
  BY DEF TypeInv
<1>1. ASSUME UNCHANGED rvars  PROVE PassType' /\ BookBound'
  BY <1>0, <1>1 DEF PassType, BookBound, rvars
<1>2. CASE Beside(LifecycleNext)
  <2>1. LTypeOK'
    BY <1>0, <1>2, TypeCreate, TypeCancel, TypeFill, TypeVenue, TypeLife
       DEF Beside, LifecycleNext
  <2> QED
    BY <1>1, <1>2, <2>1 DEF Beside, TypeInv
<1>3. CASE Crash /\ EndPass
  BY <1>0, <1>3, TypeLife, TypeEndPass DEF TypeInv
<1>4. CASE Beside(Restart) \/ Beside(Rebuild)
  BY <1>0, <1>1, <1>4, TypeLife DEF Beside, TypeInv
<1>5. CASE ReconcileStep
  <2>1. CASE PassRead
    BY <1>0, <2>1, TypeRead, TypeQuiet, ReadFrame DEF TypeInv
  <2> QED
    BY <1>5, <2>1, TypeRecover, TypeApply, TypeEnd DEF ReconcileStep, PassRead, TypeInv
<1>6. CASE CancelPass
  BY <1>0, <1>6, TypeEndPass, TypeQuiet DEF CancelPass, TypeInv
<1> QED
  BY <1>2, <1>3, <1>4, <1>5, <1>6 DEF Next

\* Every variable keeps a value of its code counterpart.  In particular a
\* reservation never turns negative when a report sets it from the exchange
\* order, nor the inventory when a SELL fill is accounted.
THEOREM TypeCorrect == Spec => []TypeOK
<1>1. Init => TypeInv
  BY TypeInit, TypePassInit DEF Init, TypeInv
<1>2. TypeInv /\ UNCHANGED vars => TypeInv'
  BY TypeQuiet DEF vars, rvars, TypeInv, PassType, BookBound
<1>3. TypeInv => TypeOK
  BY DEF TypeInv, TypeOK
<1> QED
  BY <1>1, TypeStep, <1>2, <1>3, PTL DEF Spec

-------------------------------------------------------------------------------
(* What a stale read still guarantees *)

\* Whatever the order path does: what is accounted stays, a confirmed trade
\* stays confirmed, a canceled order stays canceled and trades no more.
Monotone ==
    /\ \A o \in Orders :
           /\ Accounted(o) \subseteq Accounted(o)'
           /\ venue[o] = "canceled"
              => venue'[o] = "canceled" /\ Matched(o)' \subseteq Matched(o)
    /\ \A l \in Lots : trade[l] = "confirmed" => trade'[l] = "confirmed"

\* Monotone, action by action: steps away from inbox and venue...
LEMMA MonotoneQuiet ==
  ASSUME UNCHANGED <<event, venue, trade>>
  PROVE  Monotone
BY DEF Monotone, Accounted, Matched

\* ... create_order, where Submit touches an order the venue does not have ...
LEMMA MonotoneCreate ==
  ASSUME LInv, NEW o \in Orders, CreateOrderStep(o)
  PROVE  Monotone
<1>1. CASE Submit(o)
  <2>1. venue[o] = "none" /\ venue' = [venue EXCEPT ![o] = "inflight"]
        /\ UNCHANGED <<event, trade>>
    BY <1>1 DEF Submit, LInv, AtVenue, NotSentYet, db, inbox
  <2>2. venue \in [Orders -> VenueStatuses]
    BY DEF LInv, LTypeOK
  <2> QED
    BY <2>1, <2>2 DEF Monotone, Accounted, Matched
<1>2. CASE UNCHANGED <<event, venue, trade>>
  BY <1>2, MonotoneQuiet
<1> QED
  BY <1>1, <1>2
     DEF CreateOrderStep, Admit, Reserve, ReserveFails, JournalPending, JournalFails,
         ReleaseUnjournaled, NotSubmitted, SubmitAmbiguous, SubmitRejected,
         SubmitAccepted, SubmitMatched, PersistOutcome, PersistFails, MarkUnpersisted,
         SettleReservation, SettleFails, AbandonCreate, db, inbox, market

\* ... an insert into the inbox ...
LEMMA MonotoneInsert ==
  ASSUME LTypeOK, NEW l \in Lots, InsertReceived(l), UNCHANGED <<venue, trade>>
  PROVE  Monotone
BY DEF LTypeOK, InsertReceived, Monotone, Accounted, Matched

\* ... the fill handlers, which only process or fail a RECEIVED row ...
LEMMA MonotoneFill ==
  ASSUME LInv, NEW l \in Lots, FillStep(l)
  PROVE  Monotone
<1>1. UNCHANGED <<venue, trade>>
  BY FillFrame
<1>2. LTypeOK
  BY DEF LInv
<1>3. CASE RecordFill(l)
  BY <1>1, <1>2, <1>3, MonotoneInsert DEF RecordFill
<1>4. CASE FailFill(l)
  <2>1. event[l] = "RECEIVED" /\ event' = [event EXCEPT ![l] = "FAILED"]
    BY <1>4 DEF FailFill, LInv, AtVenue, InboxOpen
  <2>2. \A o \in Orders : Accounted(o) \subseteq Accounted(o)'
    BY <1>2, <2>1 DEF LTypeOK, Accounted
  <2> QED
    BY <1>1, <2>2 DEF Monotone, Matched
<1>5. CASE ProcessFill(l)
  <2>1. \A o \in Orders : Accounted(o) \subseteq Accounted(o)'
    BY <1>5, FillAccounts
  <2> QED
    BY <1>1, <2>1 DEF Monotone, Matched
<1>6. CASE AbandonFill(l) \/ FlagFee(l)
  <2>1. UNCHANGED event
    BY <1>6 DEF AbandonFill, FlagFee, db, inbox
  <2> QED
    BY <1>1, <2>1, MonotoneQuiet
<1> QED
  BY <1>3, <1>4, <1>5, <1>6 DEF FillStep

\* ... and the venue, which matches live orders only.
LEMMA MonotoneVenue ==
  ASSUME LTypeOK, VenueStep
  PROVE  Monotone
<1>0. /\ trade \in [Lots -> {"none", "matched", "confirmed"}]
      /\ venue \in [Orders -> VenueStatuses]
      /\ OrderOf \in [Lots -> Orders]
  BY ConstantsAssumption DEF LTypeOK
<1>1. \A o \in Orders : Accounted(o)' = Accounted(o)
  BY DEF VenueStep, VenueReceive, VenueRefuse, VenueCancel, VenueMatch, SettleConfirm,
         SettleFail, db, inbox, Accounted
<1>2. ASSUME NEW o \in Orders, VenueReceive(o) \/ VenueRefuse(o) \/ VenueCancel(o)
      PROVE  Monotone
  <2>1. UNCHANGED trade
    BY <1>2 DEF VenueReceive, VenueRefuse, VenueCancel
  <2>2. \A p \in Orders : venue[p] = "canceled" => venue'[p] = "canceled"
    BY <1>0, <1>2 DEF VenueReceive, VenueRefuse, VenueCancel
  <2> QED
    BY <1>1, <2>1, <2>2 DEF Monotone, Matched
<1>3. ASSUME NEW l \in Lots, VenueMatch(l)
      PROVE  Monotone
  <2>1. /\ venue[OrderOf[l]] = "live" /\ trade[l] = "none"
        /\ trade' = [trade EXCEPT ![l] = "matched"]
        /\ venue' = venue \/ venue' = [venue EXCEPT ![OrderOf[l]] = "matched"]
    BY <1>3 DEF VenueMatch
  <2>2. \A o \in Orders : venue[o] = "canceled" => o # OrderOf[l] /\ venue'[o] = "canceled"
    BY <1>0, <2>1
  <2>3. \A o \in Orders : o # OrderOf[l] => Matched(o)' \subseteq Matched(o)
    BY <1>0, <2>1 DEF Matched, LotsOf
  <2>4. \A k \in Lots : trade[k] = "confirmed" => trade'[k] = "confirmed"
    BY <1>0, <2>1
  <2> QED
    BY <1>1, <2>2, <2>3, <2>4 DEF Monotone
<1>4. ASSUME NEW l \in Lots, SettleConfirm(l) \/ SettleFail(l)
      PROVE  Monotone
  <2>1. UNCHANGED venue
    BY <1>4 DEF SettleConfirm, SettleFail
  <2>2. \A k \in Lots : /\ trade[k] = "none" => trade'[k] = "none"
                        /\ trade[k] = "confirmed" => trade'[k] = "confirmed"
    BY <1>0, <1>4 DEF SettleConfirm, SettleFail
  <2>3. \A o \in Orders : Matched(o)' \subseteq Matched(o)
    BY <2>2 DEF Matched, LotsOf
  <2> QED
    BY <1>1, <2>1, <2>2, <2>3 DEF Monotone
<1> QED
  BY <1>2, <1>3, <1>4 DEF VenueStep

\* Every step outside the pass is monotone.
LEMMA MonotoneLife ==
  ASSUME LInv, LifecycleNext \/ Crash \/ Restart \/ Rebuild
  PROVE  Monotone
<1>1. CASE \E o \in Orders : CancelStep(o)
  BY <1>1, CancelFrame, MonotoneQuiet
<1>2. CASE PersistHalt \/ Crash \/ Restart \/ Rebuild
  BY <1>2, MonotoneQuiet DEF PersistHalt, Crash, Restart, Rebuild, db, inbox, market
<1> QED
  BY <1>1, <1>2, MonotoneCreate, MonotoneFill, MonotoneVenue DEF LifecycleNext, LInv

\* Reads that are still held, or dropped, keep their guarantees.
LEMMA PassKept ==
  ASSUME IInv, Monotone, UNCHANGED rvars
  PROVE  PassInv'
<1>1. FactsBound'
  <2> SUFFICES ASSUME NEW o \in Orders
               PROVE  facts'[o].filled <= Cardinality(Accounted(o)')
    BY DEF FactsBound
  <2>1. /\ Cardinality(Accounted(o)) \in Nat /\ Cardinality(Accounted(o)') \in Nat
        /\ Cardinality(Accounted(o)) <= Cardinality(Accounted(o)')
    BY AccountedMore DEF Monotone
  <2>2. facts'[o].filled \in Nat /\ facts'[o].filled <= Cardinality(Accounted(o))
    BY DEF IInv, PassInv, PassType, FactsBound, rvars
  <2> QED
    BY <2>1, <2>2
<1>2. CanceledBook'
  <2> SUFFICES ASSUME NEW o \in Orders, book'[o].status = "canceled"
               PROVE  venue'[o] = "canceled"
                      /\ Cardinality(Matched(o)') <= book'[o].matched
    BY DEF CanceledBook
  <2>1. venue[o] = "canceled" /\ Cardinality(Matched(o)) <= book'[o].matched
    BY DEF IInv, PassInv, CanceledBook, rvars
  <2>2. venue'[o] = "canceled" /\ Matched(o)' \subseteq Matched(o)
    BY <2>1 DEF Monotone
  <2>3. Cardinality(Matched(o)') <= Cardinality(Matched(o))
    BY <2>2, MatchedFinite, FS_Subset
  <2>4. Cardinality(Matched(o)') \in Nat
    BY <2>2, MatchedFinite, FS_Subset, FS_CardinalityType
  <2>5. book'[o].matched \in Nat /\ Cardinality(Matched(o)) \in Nat
    BY MatchedFinite DEF IInv, PassType, rvars
  <2> QED
    BY <2>1, <2>2, <2>3, <2>4, <2>5
<1>3. TodoConfirmed'
  BY DEF TodoConfirmed, Monotone, IInv, PassType, PassInv, rvars
<1> QED
  BY <1>1, <1>2, <1>3 DEF PassInv

\* Without reads there is nothing to guarantee.
LEMMA NoReads ==
  ASSUME facts' = NoFacts, book' = NoBooks
  PROVE  FactsBound' /\ CanceledBook'
<1>1. \A o \in Orders : facts'[o].filled = 0 /\ book'[o].status = "none"
  BY DEF NoFacts, NoBooks, NoFact, NoBook
<1>2. \A o \in Orders : Cardinality(Accounted(o)') \in Nat
  <2> SUFFICES ASSUME NEW o \in Orders  PROVE Cardinality(Accounted(o)') \in Nat
    OBVIOUS
  <2>1. Accounted(o)' \subseteq LotsOf(o)
    BY DEF Accounted, LotsOf
  <2> QED
    BY <2>1, LotsFinite
<1> QED
  BY <1>1, <1>2 DEF FactsBound, CanceledBook

\* Each read establishes its guarantee and keeps the others.
LEMMA PassReads ==
  ASSUME IInv, PassRead
  PROVE  PassInv'
<1>0. /\ FactsBound /\ CanceledBook /\ TodoConfirmed
      /\ LTypeOK /\ FilledBound
  BY DEF IInv, PassInv, LInv
<1>1. UNCHANGED <<event, venue, trade>>
  BY ReadFrame DEF lvars, db, inbox, market
<1>2. CASE BeginPass
  BY <1>0, <1>1, <1>2
     DEF BeginPass, PassInv, FactsBound, CanceledBook, TodoConfirmed, Accounted, Matched
<1>3. CASE ReadTrades
  BY <1>0, <1>1, <1>3
     DEF ReadTrades, PassInv, FactsBound, CanceledBook, TodoConfirmed, Accounted, Matched
<1>4. CASE FinishRecovery
  BY <1>0, <1>1, <1>4
     DEF FinishRecovery, PassInv, FactsBound, CanceledBook, TodoConfirmed, Accounted,
         Matched
<1>5. CASE LoadFacts
  <2>1. FactsBound'
    <3> SUFFICES ASSUME NEW o \in Orders
                 PROVE  facts'[o].filled <= Cardinality(Accounted(o)')
      BY DEF FactsBound
    <3>1. Accounted(o)' = Accounted(o)
      BY <1>1 DEF Accounted
    <3>2. Cardinality(Accounted(o)) \in Nat
      BY <3>1, AccountedMore
    <3>3. facts'[o].filled \in {0, journal[o].filled}
      BY <1>5 DEF LoadFacts, NoFact
    <3> QED
      BY <1>0, <3>1, <3>2, <3>3 DEF FilledBound
  <2>2. CanceledBook' /\ TodoConfirmed'
    BY <1>0, <1>1, <1>5 DEF LoadFacts, CanceledBook, TodoConfirmed, Matched
  <2> QED
    BY <2>1, <2>2 DEF PassInv
<1>6. CASE FetchOrders
  <2>1. CanceledBook'
    <3> SUFFICES ASSUME NEW o \in Orders, book'[o].status = "canceled"
                 PROVE  venue'[o] = "canceled"
                        /\ Cardinality(Matched(o)') <= book'[o].matched
      BY DEF CanceledBook
    <3>1. venue[o] = "canceled" /\ book'[o].matched = Cardinality(Matched(o))
      BY <1>6 DEF FetchOrders, NoBook
    <3>2. Matched(o)' = Matched(o) /\ Cardinality(Matched(o)) \in Nat
      BY <1>1, MatchedFinite DEF Matched
    <3> QED
      BY <1>1, <3>1, <3>2
  <2>2. FactsBound' /\ TodoConfirmed'
    BY <1>0, <1>1, <1>6 DEF FetchOrders, FactsBound, TodoConfirmed, Accounted
  <2> QED
    BY <2>1, <2>2 DEF PassInv
<1> QED
  BY <1>2, <1>3, <1>4, <1>5, <1>6 DEF PassRead

-------------------------------------------------------------------------------
(* ApplyReport, the step that writes rows from stale reads *)

\* ApplyReport touches neither the inbox, nor the venue, nor a coroutine.
LEMMA ApplyFrame ==
  ASSUME ApplyReport
  PROVE  UNCHANGED <<event, accounting, venue, trade, task, outcome, cancel, todo>>
BY DEF ApplyReport, inbox, market, process

\* The row of one order: either as much stays reserved, or what the report
\* leaves covers all that the order can still trade.
LEMMA ApplyCovered ==
  ASSUME IInv, ApplyReport, NEW o \in Orders
  PROVE  Claim(o)' <= Held(o)'
<1> DEFINE A == Cardinality(Accounted(o))
           v == Verdict(o)
<1>1. Unaccounted(o)' = Unaccounted(o)
  BY ApplyFrame DEF Unaccounted, Accounted, Matched
<1>2. resv'[o] = ResvAfter(o)
  BY DEF ApplyReport
<1>3. /\ resv[o] \in [status : ResvStatuses, rem : Nat]
      /\ facts[o] \in [in : BOOLEAN, xid : BOOLEAN, filled : Nat, rem : Nat]
      /\ book[o] \in [status : VenueStatuses, matched : Nat]
      /\ book[o].matched <= Size(o)
  BY DEF IInv, LInv, LTypeOK, PassType, BookBound
<1>4. /\ Accounted(o) \subseteq Matched(o) /\ Matched(o) \subseteq LotsOf(o)
  BY DEF IInv, LInv, AtVenue, EventConfirmed, Accounted, Matched, LotsOf
<1>5. /\ IsFiniteSet(Accounted(o)) /\ IsFiniteSet(Matched(o)) /\ IsFiniteSet(LotsOf(o))
      /\ A \in Nat /\ Cardinality(Matched(o)) \in Nat /\ Size(o) \in Nat
  BY <1>4, LotsFinite, FS_CardinalityType, MatchedFinite
<1>6. facts[o].filled <= A
  BY DEF IInv, PassInv, FactsBound
<1>7. ASSUME Held(o)' = Held(o)  PROVE Claim(o)' <= Held(o)'
  BY <1>1, <1>7, ClaimKept DEF IInv
<1>8. ASSUME Unaccounted(o) = {}  PROVE Claim(o)' <= Held(o)'
  <2>1. Claim(o)' = 0
    BY <1>1, <1>8, FS_EmptySet DEF Claim
  <2>2. Held(o)' \in Nat
    BY TypeApply, HeldType DEF IInv, LInv, TypeInv
  <2> QED
    BY <2>1, <2>2
<1>9. CASE ~facts[o].in
  <2>1. resv'[o] = resv[o]
    BY <1>2, <1>9 DEF ResvAfter
  <2> QED
    BY <1>7, <2>1 DEF Held, Active
<1>10. CASE facts[o].in /\ v \in Sticky
  <2>1. resv'[o] = IF Active(o) THEN [resv[o] EXCEPT !.status = "UNKNOWN"] ELSE resv[o]
    BY <1>2, <1>10 DEF ResvAfter
  <2>2. Held(o)' = Held(o)
    BY <1>3, <2>1 DEF Held, Active, ActiveStatuses
  <2> QED
    BY <1>7, <2>2
<1>11. CASE facts[o].in /\ v = "OPEN_CONFIRMED"
  <2>1. book[o].matched - facts[o].filled = 0
    BY <1>3, <1>11 DEF Verdict
  <2>2. resv'[o] = [status |-> "OPEN", rem |-> OpenRemaining(o)]
    BY <1>2, <1>11 DEF ResvAfter, Sticky
  <2>3. Held(o)' = Size(o) - book[o].matched
    BY <2>2 DEF Held, Active, ActiveStatuses, OpenRemaining
  <2>4. Cardinality(LotsOf(o) \ Accounted(o)) = Size(o) - A
    <3>1. LotsOf(o) \cap Accounted(o) = Accounted(o)
      BY <1>4
    <3> QED
      BY <1>5, <3>1, FS_Difference DEF Size
  <2>5. Unaccounted(o) \subseteq LotsOf(o) \ Accounted(o)
    BY <1>4 DEF Unaccounted
  <2>6. IsFiniteSet(LotsOf(o) \ Accounted(o))
    BY LotsFinite
  <2>7. Claim(o) <= Size(o) - A
    BY <2>4, <2>5, <2>6, FS_Subset DEF Claim
  <2>8. Claim(o)' = Claim(o) /\ Claim(o) \in Nat
    BY <1>1, ClaimFinite DEF Claim
  <2> QED
    BY <1>3, <1>5, <1>6, <2>1, <2>3, <2>7, <2>8
<1>12. CASE facts[o].in /\ v = "CANCELED_CONFIRMED"
  <2>1. book[o].matched - facts[o].filled = 0 /\ book[o].status = "canceled"
    BY <1>3, <1>12 DEF Verdict
  <2>2. venue[o] = "canceled" /\ Cardinality(Matched(o)) <= book[o].matched
    BY <2>1 DEF IInv, PassInv, CanceledBook
  <2>3. A <= Cardinality(Matched(o))
    BY <1>4, <1>5, FS_Subset
  <2>4. A = Cardinality(Matched(o))
    BY <1>3, <1>5, <1>6, <2>1, <2>2, <2>3
  <2>5. Accounted(o) = Matched(o)
    BY <1>4, <1>5, <2>4, FS_Subset
  <2>6. task[o] \notin {"reserved", "journaled"}
    BY <2>2 DEF IInv, LInv, AtVenue, NotSentYet
  <2>7. Unaccounted(o) = {}
    BY <2>2, <2>5, <2>6 DEF Unaccounted
  <2> QED
    BY <1>8, <2>7
<1>13. CASE facts[o].in /\ v = "FILLED_CONFIRMED"
  <2>1. book[o].matched - facts[o].filled = 0 /\ ~(book[o].matched < Size(o))
    BY <1>3, <1>13 DEF Verdict
  <2>2. A <= Size(o)
    BY <1>4, LotsFinite
  <2>3. A = Size(o)
    BY <1>3, <1>5, <1>6, <2>1, <2>2
  <2>4. Accounted(o) = LotsOf(o)
    <3>1. Accounted(o) \subseteq LotsOf(o)
      BY <1>4
    <3> QED
      BY <1>5, <2>3, <3>1, FS_Subset DEF Size
  <2>5. Unaccounted(o) = {}
    BY <1>4, <2>4 DEF Unaccounted
  <2> QED
    BY <1>8, <2>5
<1>14. CASE facts[o].in /\ v \notin Sticky
            /\ v \notin {"OPEN_CONFIRMED", "CANCELED_CONFIRMED", "FILLED_CONFIRMED"}
  <2>1. resv'[o] = resv[o]
    BY <1>2, <1>14 DEF ResvAfter
  <2> QED
    BY <1>7, <2>1 DEF Held, Active
<1> QED
  BY <1>3, <1>9, <1>10, <1>11, <1>12, <1>13, <1>14

\* Applying the report keeps the invariant.
LEMMA ApplyInv ==
  ASSUME IInv, ApplyReport
  PROVE  IInv'
<1>1. LTypeOK' /\ PassType' /\ BookBound'
  BY TypeApply DEF IInv, LInv, TypeInv
<1>2. AtVenue'
  BY ApplyFrame DEF IInv, LInv, AtVenue, EventConfirmed, InboxOpen, NotSentYet,
                    TradesAtVenue, FailedNotAtVenue
<1>3. FilledBound'
  <2>1. \A o \in Orders : journal'[o].filled = journal[o].filled
    <3> SUFFICES ASSUME NEW o \in Orders  PROVE journal'[o].filled = journal[o].filled
      OBVIOUS
    <3>1. journal[o] \in [status : JournalStatuses, xid : BOOLEAN, filled : Nat]
      BY DEF IInv, LInv, LTypeOK
    <3>2. JournalAfter(o).filled = journal[o].filled
      BY <3>1 DEF JournalAfter
    <3> QED
      BY <3>2 DEF ApplyReport
  <2> QED
    BY <2>1, ApplyFrame DEF IInv, LInv, FilledBound, Accounted
<1>4. Covered'
  BY ApplyCovered DEF Covered
<1>5. TodoConfirmed'
  BY ApplyFrame DEF IInv, PassInv, TodoConfirmed
<1>6. FactsBound' /\ CanceledBook'
  BY NoReads DEF ApplyReport
<1> QED
  BY <1>1, <1>2, <1>3, <1>4, <1>5, <1>6 DEF IInv, LInv, PassInv

-------------------------------------------------------------------------------
(* The other steps, and the theorem *)

\* So does recovering a fill ...
LEMMA RecoverInv ==
  ASSUME IInv, NEW l \in Lots, RecoverFill(l)
  PROVE  IInv'
<1>0. LTypeOK' /\ PassType' /\ BookBound'
  BY TypeRecover DEF IInv, LInv, TypeInv
<1>1. /\ InsertReceived(l) /\ trade[l] = "confirmed" /\ UNCHANGED rvars
      /\ UNCHANGED <<journal, resv, venue, trade, task, outcome, cancel>>
  BY DEF RecoverFill, IInv, PassInv, TodoConfirmed, market, process
<1>2. LInv /\ LTypeOK
  BY DEF IInv, LInv
<1>3. AtVenue'
  BY <1>1, <1>2, AtVenueInbox
<1>4. Monotone
  BY <1>1, <1>2, MonotoneInsert
<1>5. FilledBound'
  BY <1>1, <1>2, <1>4, FilledKept DEF Monotone
<1>6. Covered'
  <2> SUFFICES ASSUME NEW o \in Orders  PROVE Claim(o)' <= Held(o)'
    BY DEF Covered
  <2>1. Held(o)' = Held(o) /\ Matched(o)' = Matched(o) /\ (Sendable(o)' <=> Sendable(o))
    BY <1>1 DEF Held, Active, Matched, Sendable
  <2>2. Unaccounted(o)' \subseteq Unaccounted(o)
    BY <1>4, <2>1, UnaccountedShrinks DEF Monotone
  <2> QED
    BY <1>2, <2>1, <2>2, ClaimKept
<1>7. PassInv'
  BY <1>1, <1>4, PassKept
<1> QED
  BY <1>0, <1>3, <1>5, <1>6, <1>7 DEF IInv, LInv

\* ... ending or failing the pass ...
LEMMA EndInv ==
  ASSUME IInv, FinishPass \/ FailPass \/ StreamDown
  PROVE  IInv'
<1>0. LTypeOK' /\ PassType' /\ BookBound'
  BY TypeEnd DEF IInv, LInv, TypeInv
<1>1. EndPass /\ UNCHANGED <<db, market, process>>
  BY DEF FinishPass, FailPass, StreamDown
<1>2. LInv'
  BY <1>0, <1>1, LInvQuiet DEF IInv, db, inbox, market, process
<1>3. PassInv'
  BY <1>1, NoReads DEF EndPass, PassInv, TodoConfirmed
<1> QED
  BY <1>0, <1>2, <1>3 DEF IInv

\* The invariant holds at first ...
LEMMA IInvInit == Init => IInv
<1> SUFFICES ASSUME Init PROVE IInv
  OBVIOUS
<1>1. LInv
  BY LInvInit DEF Init
<1>2. \A o \in Orders : facts[o].filled = 0 /\ book[o].status = "none"
  BY DEF Init, NoFacts, NoBooks, NoFact, NoBook
<1>3. \A o \in Orders : Cardinality(Accounted(o)) \in Nat
  <2> SUFFICES ASSUME NEW o \in Orders  PROVE Cardinality(Accounted(o)) \in Nat
    OBVIOUS
  <2>1. Accounted(o) \subseteq LotsOf(o)
    BY DEF Accounted
  <2> QED
    BY <2>1, LotsFinite
<1>4. PassInv
  BY <1>2, <1>3 DEF Init, PassInv, FactsBound, CanceledBook, TodoConfirmed
<1> QED
  BY <1>1, <1>4, TypePassInit DEF IInv

\* ... and in every step of Next.
LEMMA IInvStep ==
  ASSUME IInv, Next
  PROVE  IInv'
<1>0. LInv /\ TypeInv
  BY DEF IInv, LInv, TypeInv
<1>1. PassType' /\ BookBound'
  BY <1>0, TypeStep DEF TypeInv
<1>2. CASE Beside(LifecycleNext) \/ Beside(Restart) \/ Beside(Rebuild)
  <2>1. Monotone /\ UNCHANGED rvars
    BY <1>0, <1>2, MonotoneLife DEF Beside
  <2>2. LInv'
    BY <1>0, <1>2, LInvStep, LInvCrash DEF Beside
  <2> QED
    BY <1>1, <2>1, <2>2, PassKept DEF IInv
<1>3. CASE Crash /\ EndPass
  <2>1. LInv'
    BY <1>0, <1>3, LInvCrash
  <2>2. PassInv'
    BY <1>3, NoReads DEF EndPass, PassInv, TodoConfirmed
  <2> QED
    BY <1>1, <2>1, <2>2 DEF IInv
<1>4. CASE PassRead
  <2>1. LInv'
    BY <1>0, <1>4, ReadFrame, TypeQuiet, LInvQuiet
       DEF TypeInv, lvars, db, inbox, market, process
  <2> QED
    BY <1>1, <1>4, <2>1, PassReads DEF IInv
<1>5. CASE ReconcileStep
  BY <1>4, <1>5, RecoverInv, ApplyInv, EndInv DEF ReconcileStep, PassRead
<1>6. CASE CancelPass
  <2>1. LInv'
    BY <1>0, <1>6, TypeQuiet, LInvQuiet
       DEF CancelPass, TypeInv, lvars, db, inbox, market, process
  <2>2. PassInv'
    BY <1>6, NoReads DEF CancelPass, PassInv, TodoConfirmed
  <2> QED
    BY <1>1, <2>1, <2>2 DEF IInv
<1> QED
  BY <1>2, <1>3, <1>5, <1>6 DEF Next

\* Stuttering keeps it too.
LEMMA IInvQuiet ==
  ASSUME IInv, UNCHANGED <<lvars, rvars>>
  PROVE  IInv'
<1>1. LInv'
  BY TypeQuiet, LInvQuiet DEF IInv, LInv, lvars, db, inbox, market, process
<1>2. PassInv'
  BY MonotoneQuiet, PassKept DEF lvars, db, inbox, market
<1> QED
  BY <1>1, <1>2 DEF IInv, PassType, BookBound, rvars

\* A reservation is given up only for shares that the venue can no longer trade
\* or that are already in the inventory: for any orders and sizes, any number of
\* crashes and failed transactions, with reconciliation passes that apply what
\* they read arbitrarily long before.
THEOREM ReservationsCover == Spec => []Covered
<1>1. IInv /\ UNCHANGED vars => IInv'
  BY IInvQuiet DEF vars
<1>2. IInv => Covered
  BY DEF IInv, LInv
<1> QED
  BY IInvInit, IInvStep, <1>1, <1>2, PTL DEF Spec

\* The inventory is exactly the PROCESSED events, each counted once: redelivery
\* by stream and REST, crashes inside the inbox protocol and failed fills never
\* count an event twice or change inventory without one.
THEOREM InventoryExact == Spec => []AccountedOnce
<1> DEFINE J == IInv /\ AccountedOnce
<1>1. Init => J
  BY IInvInit, OnceInit DEF Init
<1>2. ASSUME J, Next  PROVE J'
  <2>1. IInv'
    BY <1>2, IInvStep
  <2>2. LInv
    BY <1>2 DEF IInv
  <2>3. CASE LifecycleNext \/ Crash \/ Restart \/ Rebuild
    BY <1>2, <2>1, <2>2, <2>3, OnceStep
  <2>4. CASE \E l \in Lots : RecoverFill(l)
    BY <1>2, <2>1, <2>2, <2>4, OnceKept DEF RecoverFill, InsertReceived, LInv, LTypeOK
  <2>5. CASE PassRead \/ ApplyReport \/ FinishPass \/ FailPass \/ StreamDown \/ CancelPass
    <3>1. UNCHANGED <<shares, event>>
      BY <2>5, ReadFrame
         DEF ApplyReport, FinishPass, FailPass, StreamDown, CancelPass, lvars, db, inbox
    <3> QED
      BY <1>2, <2>1, <3>1, OnceKept
  <2> QED
    BY <1>2, <2>3, <2>4, <2>5 DEF Next, Beside, ReconcileStep, PassRead
<1>3. J /\ UNCHANGED vars => J'
  <2> SUFFICES ASSUME J, UNCHANGED vars PROVE J'
    OBVIOUS
  <2>1. UNCHANGED <<lvars, rvars, shares, event>>
    BY DEF vars, lvars, db, inbox
  <2>2. IInv'
    BY <2>1, IInvQuiet
  <2> QED
    BY <2>1, <2>2, OnceKept
<1>4. J => AccountedOnce
  OBVIOUS
<1> HIDE DEF J
<1> QED
  BY <1>1, <1>2, <1>3, <1>4, PTL DEF Spec

-------------------------------------------------------------------------------
(* The rows a pass has read *)

\* A fact that was loaded still has its row, and the exchange id it was loaded
\* with.
FactsLinked ==
    \A o \in Orders : /\ facts[o].in => journal[o].status # "none"
                      /\ facts[o].xid => journal[o].xid

RowsLinked == AllLinked /\ FactsLinked

\* A pass that ends leaves no facts.
LEMMA NoFactsLinked ==
  ASSUME facts' = NoFacts
  PROVE  FactsLinked'
<1>1. \A o \in Orders : ~facts'[o].in /\ ~facts'[o].xid
  BY DEF NoFacts, NoFact
<1> QED
  BY <1>1 DEF FactsLinked

\* The verdict never erases a row, its exchange id or a pending cancel's row.
LEMMA ApplyRows ==
  ASSUME LTypeOK, ApplyReport, NEW o \in Orders
  PROVE  /\ ~facts[o].in => journal'[o] = journal[o] /\ resv'[o] = resv[o]
         /\ journal[o].status # "none" => journal'[o].status # "none"
         /\ journal'[o].xid = journal[o].xid
         /\ resv'[o].status = "CANCEL_PENDING_RECONCILE"
            => resv[o].status = "CANCEL_PENDING_RECONCILE"
<1>1. /\ journal[o] \in [status : JournalStatuses, xid : BOOLEAN, filled : Nat]
      /\ resv[o] \in [status : ResvStatuses, rem : Nat]
  BY DEF LTypeOK
<1>2. journal'[o] = JournalAfter(o) /\ resv'[o] = ResvAfter(o)
  BY DEF ApplyReport
<1>3. /\ ~facts[o].in => JournalAfter(o) = journal[o]
      /\ journal[o].status # "none" => JournalAfter(o).status # "none"
      /\ JournalAfter(o).xid = journal[o].xid
  BY <1>1 DEF JournalAfter
<1>4. /\ ~facts[o].in => ResvAfter(o) = resv[o]
      /\ ResvAfter(o).status = "CANCEL_PENDING_RECONCILE"
         => resv[o].status = "CANCEL_PENDING_RECONCILE"
  BY <1>1 DEF ResvAfter
<1> QED
  BY <1>2, <1>3, <1>4

\* The rows stay linked while passes read and apply.
LEMMA RowsStep ==
  ASSUME LTypeOK, RowsLinked, Next
  PROVE  RowsLinked'
<1>0. AllLinked /\ FactsLinked
  BY DEF RowsLinked
<1>1. ASSUME JournalGrows, UNCHANGED facts  PROVE FactsLinked'
  BY <1>0, <1>1 DEF FactsLinked, JournalGrows
<1>2. ASSUME UNCHANGED <<journal, resv, task, outcome, cancel, marking>>
      PROVE  AllLinked' /\ JournalGrows
  BY <1>0, <1>2 DEF AllLinked, Linked, JournalGrows
<1>3. CASE Beside(LifecycleNext) \/ Beside(Restart) \/ Beside(Rebuild)
  BY <1>0, <1>1, <1>3, LinkedLife DEF Beside, rvars, RowsLinked
<1>4. CASE Crash /\ EndPass
  BY <1>0, <1>4, LinkedLife, NoFactsLinked DEF EndPass, RowsLinked
<1>5. CASE PassRead
  <2>1. AllLinked' /\ JournalGrows /\ UNCHANGED <<journal, resv>>
    BY <1>2, <1>5, ReadFrame DEF lvars, db, process
  <2>2. CASE LoadFacts
    <3> SUFFICES ASSUME NEW o \in Orders
                 PROVE  /\ facts'[o].in => journal'[o].status # "none"
                        /\ facts'[o].xid => journal'[o].xid
      BY <2>1 DEF RowsLinked, FactsLinked
    <3>1. facts'[o] = IF Unresolved(o)
             THEN [in |-> TRUE, xid |-> journal[o].xid,
                   filled |-> journal[o].filled, rem |-> resv[o].rem]
             ELSE NoFact
      BY <2>2 DEF LoadFacts
    <3>2. Unresolved(o) => journal[o].status # "none"
      BY <1>0 DEF Unresolved, AllLinked, Linked, OpenJournalStatuses
    <3> QED
      BY <2>1, <3>1, <3>2 DEF NoFact
  <2>3. CASE ~LoadFacts
    <3>1. UNCHANGED facts
      BY <1>5, <2>3 DEF PassRead, BeginPass, ReadTrades, FinishRecovery, FetchOrders
    <3> QED
      BY <1>1, <2>1, <3>1 DEF RowsLinked
  <2> QED
    BY <2>2, <2>3
<1>6. CASE \E l \in Lots : RecoverFill(l)
  BY <1>1, <1>2, <1>6 DEF RecoverFill, process, rvars, RowsLinked
<1>7. CASE ApplyReport
  <2>1. UNCHANGED <<task, outcome, cancel, marking>>
    BY <1>7 DEF ApplyReport, process
  <2>2. ASSUME NEW o \in Orders  PROVE Linked(o)'
    <3>1. Linked(o) /\ (facts[o].in => journal[o].status # "none")
      BY <1>0 DEF AllLinked, FactsLinked
    <3>2. /\ ~facts[o].in => journal'[o] = journal[o] /\ resv'[o] = resv[o]
          /\ journal[o].status # "none" => journal'[o].status # "none"
          /\ journal'[o].xid = journal[o].xid
          /\ resv'[o].status = "CANCEL_PENDING_RECONCILE"
             => resv[o].status = "CANCEL_PENDING_RECONCILE"
      BY <1>7, ApplyRows
    <3> QED
      BY <2>1, <3>1, <3>2 DEF Linked
  <2>3. FactsLinked'
    BY <1>7, NoFactsLinked DEF ApplyReport
  <2> QED
    BY <2>2, <2>3 DEF RowsLinked, AllLinked
<1>8. CASE FinishPass \/ FailPass \/ StreamDown \/ CancelPass
  <2>1. UNCHANGED <<journal, resv, task, outcome, cancel, marking>> /\ facts' = NoFacts
    BY <1>8 DEF FinishPass, FailPass, StreamDown, CancelPass, EndPass, lvars, db, process
  <2> QED
    BY <1>2, <2>1, NoFactsLinked DEF RowsLinked
<1> QED
  BY <1>3, <1>4, <1>5, <1>6, <1>7, <1>8 DEF Next, ReconcileStep, PassRead

\* They are at first, and while nothing happens.
LEMMA RowsInit == Init => RowsLinked
<1> SUFFICES ASSUME Init PROVE RowsLinked
  OBVIOUS
<1>1. \A o \in Orders : ~facts[o].in /\ ~facts[o].xid
  BY DEF Init, NoFacts, NoFact
<1> QED
  BY <1>1, LinkedInit DEF Init, RowsLinked, FactsLinked

\* A step that changes nothing keeps the rows linked.
LEMMA RowsQuiet ==
  ASSUME RowsLinked, UNCHANGED vars
  PROVE  RowsLinked'
<1>1. UNCHANGED <<journal, resv, task, outcome, cancel, marking, facts>>
  BY DEF vars, lvars, db, process, rvars
<1> QED
  BY <1>1 DEF RowsLinked, AllLinked, Linked, FactsLinked

-------------------------------------------------------------------------------
(* The cached total, the fills and the exposure *)

\* The total a pass writes is the sum over the rows it writes.
LEMMA ApplyCached == ApplyReport => CachedTotalExact'
<1> SUFFICES ASSUME ApplyReport PROVE CachedTotalExact'
  OBVIOUS
<1> DEFINE f == [o \in Orders |-> ResvAfter(o).rem]
           T == {o \in Orders : Side[o] = "BUY" /\ ResvAfter(o).status \in ActiveStatuses}
<1>1. resv' = [o \in Orders |-> ResvAfter(o)] /\ cached' = SumFunctionOnSet(f, T)
  BY DEF ApplyReport, ReservedAfter
<1>2. \A o \in Orders : resv'[o] = ResvAfter(o)
  BY <1>1
<1>3. Remaining' = f
  BY <1>2 DEF Remaining
<1>4. {o \in Orders : Side[o] = "BUY" /\ Active(o)'} = T
  BY <1>2 DEF Active
<1>5. ReservedSum("BUY", Orders)' = SumFunctionOnSet(Remaining', {o \in Orders : Side[o] = "BUY" /\ Active(o)'})
  BY DEF ReservedSum
<1> QED
  BY <1>1, <1>3, <1>4, <1>5 DEF CachedTotalExact

\* The readings of CachedTotalExact before and after a step.
LEMMA CachedBoth ==
  /\ LTypeOK => (CachedTotalExact <=> CachedHeld)
  /\ LTypeOK' => (CachedTotalExact' <=> CachedHeld')
<1>1. LTypeOK => (CachedTotalExact <=> CachedHeld)
  BY CachedIsHeld
<1>2. (LTypeOK => (CachedTotalExact <=> CachedHeld))'
  BY <1>1, PTL
<1> QED
  BY <1>1, <1>2

\* Steps that write neither table nor total keep it.
LEMMA CachedQuiet ==
  ASSUME CachedTotalExact, UNCHANGED <<resv, cached>>
  PROVE  CachedTotalExact'
BY DEF CachedTotalExact, ReservedSum, Remaining, Active

\* The cached reserved total, which eight transactions of create_order, the
\* fill inbox, rebuild and the reconciliation pass maintain, is exactly the sum
\* of the active BUY reservations in every reachable state, across crashes
\* between any two of them.
THEOREM CachedExact == Spec => []CachedTotalExact
<1> DEFINE J == IInv /\ RowsLinked /\ CachedTotalExact
<1>1. Init => J
  <2> SUFFICES ASSUME Init PROVE J
    OBVIOUS
  <2>1. LInit /\ IInv /\ RowsLinked
    BY IInvInit, RowsInit DEF Init
  <2> QED
    BY <2>1, CachedInit, CachedBoth DEF IInv, LInv
<1>2. ASSUME J, Next  PROVE J'
  <2>1. LTypeOK /\ IInv' /\ LTypeOK'
    BY <1>2, IInvStep DEF IInv, LInv
  <2>2. RowsLinked'
    BY <1>2, <2>1, RowsStep
  <2>3. CASE LifecycleNext \/ Crash \/ Restart \/ Rebuild
    BY <1>2, <2>1, <2>2, <2>3, CachedStep, CachedBoth DEF RowsLinked
  <2>4. CASE ApplyReport
    BY <2>1, <2>2, <2>4, ApplyCached
  <2>5. CASE \/ PassRead \/ \E l \in Lots : RecoverFill(l)
            \/ FinishPass \/ FailPass \/ StreamDown \/ CancelPass
    <3>1. UNCHANGED <<resv, cached>>
      BY <2>5, ReadFrame
         DEF RecoverFill, FinishPass, FailPass, StreamDown, CancelPass, lvars, db
    <3> QED
      BY <1>2, <2>1, <2>2, <3>1, CachedQuiet
  <2> QED
    BY <1>2, <2>3, <2>4, <2>5 DEF Next, Beside, ReconcileStep, PassRead
<1>3. ASSUME J, UNCHANGED vars  PROVE J'
  <2>1. UNCHANGED <<lvars, rvars, resv, cached>>
    BY <1>3 DEF vars, lvars, db
  <2> QED
    BY <1>3, <2>1, IInvQuiet, RowsQuiet, CachedQuiet
<1>4. J => CachedTotalExact
  OBVIOUS
<1> HIDE DEF J
<1> QED
  BY <1>1, <1>2, <1>3, <1>4, PTL DEF Spec

\* Claims and inventory grow together in every step, those of a pass included.
LEMMA ExposureNext ==
  ASSUME IInv, IInv', Next
  PROVE  /\ BuyBounded => BuyBounded'
         /\ SellBounded => SellBounded'
<1>0. LInv /\ LTypeOK /\ LTypeOK'
  BY DEF IInv, LInv
<1>1. CASE LifecycleNext \/ Crash \/ Restart \/ Rebuild
  BY <1>0, <1>1, ExposureStep
<1>2. ASSUME UNCHANGED <<event, venue, trade, task>>, NEW p \in Orders
      PROVE  Unaccounted(p)' \subseteq Unaccounted(p)
  BY <1>2 DEF Unaccounted, Matched, Accounted
<1>3. CASE PassRead \/ ApplyReport \/ FinishPass \/ FailPass \/ StreamDown \/ CancelPass
  <2>1. UNCHANGED <<shares, event, venue, trade, task>>
    BY <1>3, ReadFrame, ApplyFrame
       DEF ApplyReport, FinishPass, FailPass, StreamDown, CancelPass, lvars, db, inbox,
           market, process
  <2> QED
    BY <1>0, <1>2, <2>1, ExposureKept
<1>4. ASSUME NEW l \in Lots, RecoverFill(l)
      PROVE  /\ BuyBounded => BuyBounded'
             /\ SellBounded => SellBounded'
  <2>1. UNCHANGED <<shares, venue, trade, task>> /\ InsertReceived(l)
    BY <1>4 DEF RecoverFill, market, process
  <2>2. \A k \in Lots : event[k] = "PROCESSED" => event'[k] = "PROCESSED"
    BY <1>0, <2>1 DEF InsertReceived, LTypeOK
  <2>3. \A p \in Orders : Unaccounted(p)' \subseteq Unaccounted(p)
    BY <2>1, <2>2 DEF Unaccounted, Matched, Accounted, LotsOf
  <2> QED
    BY <1>0, <2>1, <2>3, ExposureKept
<1> QED
  BY <1>1, <1>3, <1>4 DEF Next, Beside, ReconcileStep, PassRead

\* Stuttering changes neither.
LEMMA ExposureQuiet ==
  ASSUME IInv, UNCHANGED vars
  PROVE  /\ BuyBounded => BuyBounded'
         /\ SellBounded => SellBounded'
<1>1. UNCHANGED <<shares, event, venue, trade, task>>
  BY DEF vars, lvars, db, inbox, market, process
<1>2. \A p \in Orders : Unaccounted(p)' \subseteq Unaccounted(p)
  BY <1>1 DEF Unaccounted, Matched, Accounted
<1> QED
  BY <1>1, <1>2, ExposureKept DEF IInv, LInv

\* What the venue can still buy, on top of the cost basis, stays within the
\* global and the market caps, and what it can still sell is in the inventory,
\* across crashes, failed transactions and stale reports, if the process starts
\* within the caps.
THEOREM ExposureHolds == InitialWithinCaps => (Spec => []RealExposureBounded)
<1> SUFFICES ASSUME InitialWithinCaps PROVE Spec => []RealExposureBounded
  OBVIOUS
<1> DEFINE J == IInv /\ BuyBounded /\ SellBounded
<1>1. Init => J
  BY IInvInit, ExposureInit DEF Init
<1>2. ASSUME J, Next  PROVE J'
  BY <1>2, IInvStep, ExposureNext
<1>3. ASSUME J, UNCHANGED vars  PROVE J'
  <2>1. UNCHANGED <<lvars, rvars>>
    BY <1>3 DEF vars
  <2> QED
    BY <1>3, <2>1, IInvQuiet, ExposureQuiet
<1>4. J => RealExposureBounded
  BY DEF BuyBounded, SellBounded, RealExposureBounded
<1> HIDE DEF J
<1> QED
  BY <1>1, <1>2, <1>3, <1>4, PTL DEF Spec

\* A fill in the inbox is refused only because an earlier fill of its market had
\* no authoritative fee: whatever the order path, crashes and stale reports did
\* since the venue matched it, its order is active with enough left, and a SELL
\* finds the inventory.  Nothing is assumed of the caps.
THEOREM RefusedForFeesOnly == Spec => []FillsAccepted
<1> DEFINE J == IInv /\ SellBounded
<1>1. Init => J
  BY IInvInit, ExposureInit DEF Init
<1>2. ASSUME J, Next  PROVE J'
  BY <1>2, IInvStep, ExposureNext
<1>3. ASSUME J, UNCHANGED vars  PROVE J'
  <2>1. UNCHANGED <<lvars, rvars>>
    BY <1>3 DEF vars
  <2> QED
    BY <1>3, <2>1, IInvQuiet, ExposureQuiet
<1>4. J => FillsAccepted
  BY ReceivedAccepted DEF IInv
<1> HIDE DEF J
<1> QED
  BY <1>1, <1>2, <1>3, <1>4, PTL DEF Spec

-------------------------------------------------------------------------------
(* Submissions nobody can attribute *)

Unattributed(o) == journal[o].status = "UNKNOWN" /\ ~journal[o].xid

\* An ambiguous submit halts before its outcome is persisted.
RepliedHalted ==
    \A o \in Orders : task[o] = "replied" /\ outcome[o] = "UNKNOWN" => halted

\* What a step of the order path leaves: the halt and the missing readiness
\* stay, and no row becomes unattributed unless trading is halted.
KeepsBlocked ==
    /\ phase' = phase /\ (halted => halted') /\ (openOk' => openOk)
    /\ \A p \in Orders :
          /\ Unattributed(p)' => Unattributed(p) \/ halted'
          /\ task'[p] = "replied" /\ outcome'[p] = "UNKNOWN" => halted'
          /\ phase # "run" /\ task[p] \in {"idle", "done"} => task'[p] = task[p]

\* So does create_order, ...
LEMMA BlockedCreate ==
  ASSUME LTypeOK, RepliedHalted, NEW o \in Orders, CreateOrderStep(o)
  PROVE  KeepsBlocked
<1>0. /\ journal \in JournalType
      /\ task \in [Orders -> {"idle", "admitted", "reserved", "unjournaled", "journaled",
                       "sent", "replied", "persisted", "unpersisted", "done", "abandoned"}]
      /\ outcome \in [Orders -> {"none", "OPEN", "MATCHED", "FAILED", "UNKNOWN"}]
      /\ halted \in BOOLEAN /\ openOk \in BOOLEAN
  BY DEF LTypeOK, JournalType
<1> DEFINE Flags == phase' = phase /\ (halted => halted') /\ (openOk' => openOk)
           Started == task[o] = "idle" => phase = "run"
<1>1. Flags /\ Started /\ task[o] # "done"
  <2>1. Started /\ task[o] # "done"
    BY DEF CreateOrderStep, Admit, Reserve, ReserveFails, JournalPending, JournalFails,
       ReleaseUnjournaled, Submit, NotSubmitted, SubmitAmbiguous, SubmitRejected,
       SubmitAccepted, SubmitMatched, PersistOutcome, PersistFails, MarkUnpersisted,
       SettleReservation, SettleFails, AbandonCreate
  <2>2. phase' = phase
    BY DEF CreateOrderStep, Admit, Reserve, ReserveFails, JournalPending, JournalFails,
       ReleaseUnjournaled, Submit, NotSubmitted, SubmitAmbiguous, SubmitRejected,
       SubmitAccepted, SubmitMatched, PersistOutcome, PersistFails, MarkUnpersisted,
       SettleReservation, SettleFails, AbandonCreate, control
  <2>3. openOk' \in {openOk, FALSE}
    BY DEF CreateOrderStep, Admit, Reserve, ReserveFails, JournalPending, JournalFails,
       ReleaseUnjournaled, Submit, NotSubmitted, SubmitAmbiguous, SubmitRejected,
       SubmitAccepted, SubmitMatched, PersistOutcome, PersistFails, MarkUnpersisted,
       SettleReservation, SettleFails, AbandonCreate, flags
  <2>4. ASSUME halted  PROVE halted'
    <3>1. CASE UNCHANGED halted
      BY <2>4, <3>1
    <3>2. CASE ReserveFails(o)
      BY <2>4, <3>2 DEF ReserveFails
    <3>3. CASE NotSubmitted(o) \/ SubmitRejected(o)
      BY <2>4, <3>3 DEF NotSubmitted, SubmitRejected
    <3>4. CASE SubmitAmbiguous(o) \/ PersistFails(o)
      BY <3>4 DEF SubmitAmbiguous, PersistFails
    <3>5. CASE SubmitMatched(o) \/ SettleFails(o)
      BY <2>4, <3>5 DEF SubmitMatched, SettleFails
    <3>6. CASE AbandonCreate(o)
      BY <2>4, <3>6 DEF AbandonCreate
    <3> QED
      BY <3>1, <3>2, <3>3, <3>4, <3>5, <3>6
         DEF CreateOrderStep, Admit, Reserve, JournalPending, JournalFails,
             ReleaseUnjournaled, Submit, SubmitAccepted, PersistOutcome, MarkUnpersisted,
             SettleReservation, flags
  <2>5. openOk' => openOk
    BY <1>0, <2>3
  <2> QED
    BY <2>1, <2>2, <2>4, <2>5
<1>2. ASSUME NEW pc, task' = [task EXCEPT ![o] = pc],
             outcome' = [outcome EXCEPT ![o] = outcome'[o]],
             pc = "replied" /\ outcome'[o] = "UNKNOWN" => halted',
             \A p \in Orders : Unattributed(p)' => Unattributed(p) \/ halted'
      PROVE  KeepsBlocked
  <2> SUFFICES ASSUME NEW p \in Orders
               PROVE  /\ task'[p] = "replied" /\ outcome'[p] = "UNKNOWN" => halted'
                      /\ phase # "run" /\ task[p] \in {"idle", "done"} => task'[p] = task[p]
    BY <1>1, <1>2 DEF KeepsBlocked
  <2>1. CASE p = o
    BY <1>0, <1>1, <1>2, <2>1
  <2>2. CASE p # o
    <3>1. task'[p] = task[p] /\ outcome'[p] = outcome[p]
      BY <1>0, <1>2, <2>2
    <3> QED
      BY <1>1, <3>1 DEF RepliedHalted
  <2> QED
    BY <2>1, <2>2
<1>3. ASSUME UNCHANGED journal  PROVE \A p \in Orders : Unattributed(p)' => Unattributed(p) \/ halted'
  BY <1>3 DEF Unattributed
<1>4. outcome' = outcome => outcome' = [outcome EXCEPT ![o] = outcome'[o]]
  BY <1>0
<1> HIDE DEF Flags, Started
<1>5. CASE Admit(o) \/ Reserve(o) \/ ReserveFails(o) \/ JournalFails(o) \/ Submit(o)
           \/ PersistFails(o)
  BY <1>2, <1>3, <1>4, <1>5
     DEF Admit, Reserve, ReserveFails, JournalFails, Submit, PersistFails, GoTo, db
<1>6. CASE ReleaseUnjournaled(o)
  BY <1>2, <1>3, <1>4, <1>6 DEF ReleaseUnjournaled, GoTo
<1>7. CASE NotSubmitted(o) \/ SubmitAmbiguous(o) \/ SubmitRejected(o) \/ SubmitAccepted(o)
           \/ SubmitMatched(o)
  <2>1. /\ task' = [task EXCEPT ![o] = "replied"] /\ UNCHANGED journal
        /\ \E r \in {"FAILED", "UNKNOWN", "OPEN", "MATCHED"} :
              outcome' = [outcome EXCEPT ![o] = r] /\ (r = "UNKNOWN" => halted')
    BY <1>7 DEF NotSubmitted, SubmitAmbiguous, SubmitRejected, SubmitAccepted, SubmitMatched,
       Replied, GoTo, db
  <2>2. PICK r \in {"FAILED", "UNKNOWN", "OPEN", "MATCHED"} :
              outcome' = [outcome EXCEPT ![o] = r] /\ (r = "UNKNOWN" => halted')
    BY <2>1
  <2>3. outcome'[o] = r
    BY <1>0, <2>2
  <2>4. \A p \in Orders : Unattributed(p)' => Unattributed(p) \/ halted'
    BY <1>3, <2>1
  <2> QED
    BY <1>2, <2>1, <2>2, <2>3, <2>4
<1>8. CASE MarkUnpersisted(o) \/ SettleReservation(o) \/ SettleFails(o)
  <2>1. /\ task' = [task EXCEPT ![o] = "done"] /\ UNCHANGED journal
        /\ outcome' = [outcome EXCEPT ![o] = "none"]
    BY <1>8 DEF MarkUnpersisted, SettleReservation, SettleFails, EndTask, GoTo, db
  <2>2. outcome'[o] = "none"
    BY <1>0, <2>1
  <2> QED
    BY <1>2, <1>3, <2>1, <2>2
<1>11. CASE AbandonCreate(o)
  <2>1. /\ task' = [task EXCEPT ![o] = "abandoned"] /\ UNCHANGED journal
        /\ outcome' = [outcome EXCEPT ![o] = "none"]
    BY <1>11 DEF AbandonCreate, GoTo, db
  <2>2. outcome'[o] = "none"
    BY <1>0, <2>1
  <2> QED
    BY <1>2, <1>3, <2>1, <2>2
<1>9. CASE JournalPending(o)
  <2>1. /\ task' = [task EXCEPT ![o] = "journaled"] /\ outcome' = outcome
        /\ journal' = [journal EXCEPT ![o].status = "PENDING"]
    BY <1>9 DEF JournalPending, GoTo
  <2>2. \A p \in Orders : Unattributed(p)' => Unattributed(p)
    BY <1>0, <2>1 DEF Unattributed, JournalType
  <2> QED
    BY <1>2, <1>4, <2>1, <2>2
<1>10. CASE PersistOutcome(o)
  <2>1. /\ task' = [task EXCEPT ![o] = "persisted"] /\ outcome' = outcome
        /\ task[o] = "replied"
        /\ journal' = [journal EXCEPT
               ![o].status = IF outcome[o] = "MATCHED" THEN "UNKNOWN" ELSE outcome[o],
               ![o].xid    = @ \/ outcome[o] \in {"OPEN", "MATCHED"}]
    BY <1>10 DEF PersistOutcome, GoTo
  <2>2. /\ \A p \in Orders : p # o => journal'[p] = journal[p]
        /\ journal'[o].status = IF outcome[o] = "MATCHED" THEN "UNKNOWN" ELSE outcome[o]
        /\ outcome[o] \in {"OPEN", "MATCHED"} => journal'[o].xid
    BY <1>0, <2>1 DEF JournalType
  <2>3. Unattributed(o)' => halted'
    <3>1. Unattributed(o)' => outcome[o] = "UNKNOWN"
      BY <2>2 DEF Unattributed
    <3>2. outcome[o] = "UNKNOWN" => halted
      BY <2>1 DEF RepliedHalted
    <3> QED
      BY <1>1, <3>1, <3>2 DEF Flags
  <2>4. \A p \in Orders : Unattributed(p)' => Unattributed(p) \/ halted'
    BY <2>2, <2>3 DEF Unattributed
  <2> QED
    BY <1>2, <1>4, <2>1, <2>4
<1> QED
  BY <1>5, <1>6, <1>7, <1>8, <1>9, <1>10, <1>11 DEF CreateOrderStep

\* ... cancel_order, which only closes or doubts orders with an exchange id, ...
LEMMA BlockedCancel ==
  ASSUME LTypeOK, AllLinked, RepliedHalted, NEW o \in Orders, CancelStep(o)
  PROVE  KeepsBlocked
<1>0. journal \in JournalType /\ halted \in BOOLEAN /\ openOk \in BOOLEAN /\ Linked(o)
  BY DEF LTypeOK, JournalType, AllLinked
<1>1. UNCHANGED <<task, outcome>>
  BY CancelFrame
<1>2. phase' = phase /\ (halted => halted') /\ (openOk' => openOk)
  BY <1>0 DEF CancelStep, CancelSend, CancelFails, CancelConfirmed, CancelFoundMatched,
     CommitMatched, MarkMatchedUnknown, StreamCancel, MarkCancelPending, flags, control
<1>3. \A p \in Orders : Unattributed(p)' => Unattributed(p)
  <2>1. CASE CancelConfirmed(o) \/ StreamCancel(o)
    <3>1. journal' = [journal EXCEPT ![o].status = "CANCELED"]
      BY <2>1 DEF CancelConfirmed, StreamCancel
    <3> QED
      BY <1>0, <3>1 DEF Unattributed, JournalType
  <2>2. CASE CommitMatched(o)
    <3>1. WriteFilled(o, "UNKNOWN", cancel[o].seen) /\ journal[o].xid
      BY <1>0, <2>2 DEF CommitMatched, WriteFilled, Linked
    <3>2. /\ \A p \in Orders : p # o => journal'[p] = journal[p]
          /\ journal'[o].xid
      BY <1>0, <3>1 DEF WriteFilled, JournalType
    <3> QED
      BY <3>2 DEF Unattributed
  <2>3. CASE UNCHANGED journal
    BY <2>3 DEF Unattributed
  <2> QED
    BY <2>1, <2>2, <2>3 DEF CancelStep, CancelSend, CancelFails, CancelFoundMatched,
       MarkMatchedUnknown, MarkCancelPending, db
<1> QED
  BY <1>1, <1>2, <1>3 DEF KeepsBlocked, RepliedHalted

\* ... and everything else in the process and at the venue.
LEMMA BlockedLife ==
  ASSUME LTypeOK, AllLinked, RepliedHalted, LifecycleNext
  PROVE  KeepsBlocked
<1>0. halted \in BOOLEAN /\ openOk \in BOOLEAN
  BY DEF LTypeOK
<1>1. CASE VenueStep \/ PersistHalt
  <2>1. UNCHANGED <<journal, task, outcome, halted, openOk, phase>>
    BY <1>1 DEF VenueStep, VenueReceive, VenueRefuse, VenueCancel, VenueMatch, SettleConfirm,
       SettleFail, PersistHalt, db, process, flags, control
  <2> QED
    BY <2>1 DEF KeepsBlocked, RepliedHalted, Unattributed
<1>2. ASSUME NEW l \in Lots, FillStep(l)  PROVE KeepsBlocked
  <2>1. UNCHANGED <<task, outcome>>
    BY <1>2, FillFrame
  <2>2. phase' = phase /\ (halted => halted') /\ openOk' = openOk
    BY <1>0, <1>2
       DEF FillStep, RecordFill, ProcessFill, FailFill, AbandonFill, FlagFee, flags, control
  <2>3. \A p \in Orders : Unattributed(p)' => Unattributed(p)
    <3>1. CASE ProcessFill(l)
      BY <3>1, FillRows DEF Unattributed
    <3>2. CASE UNCHANGED journal
      BY <3>2 DEF Unattributed
    <3> QED
      BY <1>2, <3>1, <3>2 DEF FillStep, RecordFill, FailFill, AbandonFill, FlagFee, db
  <2> QED
    BY <2>1, <2>2, <2>3 DEF KeepsBlocked, RepliedHalted
<1> QED
  BY <1>1, <1>2, BlockedCreate, BlockedCancel DEF LifecycleNext

\* A process that is down runs no coroutine and no pass.
DownQuiet ==
    phase = "down" => pass = "idle" /\ \A o \in Orders : task[o] \in {"idle", "done"}

\* What keeps new risk blocked while a submission is unattributed: the halt, a
\* process that is down, a report that is about to halt, or missing readiness.
\* Only a report can restore that, and one in the making has read the row
\* without exchange id; the end of the user stream's session withdraws it.
Blocked(o) ==
    Unattributed(o)
    => \/ halted \/ phase = "down"
       \/ pass = "applied" /\ verdict = "sticky"
       \/ pass = "canceled"
       \/ /\ ~openOk /\ pass # "applied"
          /\ pass \in {"loaded", "fetched"} => facts[o].in /\ ~facts[o].xid

BlockInv == RepliedHalted /\ DownQuiet /\ \A o \in Orders : Blocked(o)

\* A step of the order path, and the restart of a process.
LEMMA BlockLife ==
  ASSUME LTypeOK, AllLinked, BlockInv, Beside(LifecycleNext)
  PROVE  BlockInv'
<1>1. KeepsBlocked /\ UNCHANGED <<pass, verdict, facts>>
  BY BlockedLife DEF Beside, BlockInv, rvars
<1>2. RepliedHalted' /\ DownQuiet'
  BY <1>1 DEF KeepsBlocked, BlockInv, RepliedHalted, DownQuiet
<1>3. ASSUME NEW o \in Orders  PROVE Blocked(o)'
  <2>1. Blocked(o) /\ (Unattributed(o)' => Unattributed(o) \/ halted')
    BY <1>1 DEF BlockInv, KeepsBlocked
  <2>2. phase' = phase /\ (halted => halted') /\ (openOk' => openOk)
    BY <1>1 DEF KeepsBlocked
  <2> QED
    BY <1>1, <2>1, <2>2 DEF Blocked
<1> QED
  BY <1>2, <1>3 DEF BlockInv

\* A crash, a restart and the rebuild.
LEMMA BlockCrash ==
  ASSUME LTypeOK, BlockInv, (Crash /\ EndPass) \/ Beside(Restart) \/ Beside(Rebuild)
  PROVE  BlockInv'
<1>1. CASE Crash /\ EndPass
  <2>1. /\ phase' = "down" /\ pass' = "idle"
        /\ \A o \in Orders : task'[o] \in {"idle", "done"}
    BY <1>1 DEF Crash, EndPass
  <2> QED
    BY <2>1 DEF BlockInv, RepliedHalted, DownQuiet, Blocked
<1>2. CASE Beside(Restart)
  <2>1. /\ phase = "down" /\ phase' # "down" /\ ~openOk' /\ pass' = pass /\ task' = task
    BY <1>2 DEF Beside, Restart, rvars, process
  <2>2. pass' = "idle" /\ \A o \in Orders : task'[o] \in {"idle", "done"}
    BY <2>1 DEF BlockInv, DownQuiet
  <2> QED
    BY <2>1, <2>2 DEF BlockInv, RepliedHalted, DownQuiet, Blocked
<1>3. CASE Beside(Rebuild)
  <2>1. /\ phase' # "down" /\ phase # "down" /\ (halted => halted')
        /\ UNCHANGED <<journal, openOk, pass, verdict, facts, task, outcome>>
    BY <1>3 DEF Beside, Rebuild, rvars, process
  <2> QED
    BY <2>1 DEF BlockInv, RepliedHalted, DownQuiet, Blocked, Unattributed
<1> QED
  BY <1>1, <1>2, <1>3

\* A read keeps what is blocked, and loads the rows that block.
LEMMA BlockRead ==
  ASSUME LTypeOK, BlockInv, PassRead \/ \E l \in Lots : RecoverFill(l)
  PROVE  BlockInv'
<1>1. UNCHANGED <<journal, task, outcome, halted, openOk, phase>>
  BY ReadFrame DEF RecoverFill, lvars, db, process, flags, control
<1>2. RepliedHalted' /\ DownQuiet'
  BY <1>1 DEF BlockInv, RepliedHalted, DownQuiet, PassRead, BeginPass, ReadTrades,
              FinishRecovery, LoadFacts, FetchOrders, RecoverFill, rvars
<1>3. ASSUME NEW o \in Orders  PROVE Blocked(o)'
  <2>1. Blocked(o) /\ (Unattributed(o)' <=> Unattributed(o))
    BY <1>1 DEF BlockInv, Unattributed
  <2>2. CASE LoadFacts
    <3>1. pass = "recovered" /\ pass' = "loaded"
      BY <2>2 DEF LoadFacts
    <3>2. Unattributed(o) => facts'[o].in /\ ~facts'[o].xid
      <4>1. facts'[o] = IF Unresolved(o)
               THEN [in |-> TRUE, xid |-> journal[o].xid,
                     filled |-> journal[o].filled, rem |-> resv[o].rem]
               ELSE NoFact
        BY <2>2 DEF LoadFacts
      <4>2. Unattributed(o) => Unresolved(o) /\ ~journal[o].xid
        BY DEF Unattributed, Unresolved, OpenJournalStatuses
      <4> QED
        BY <4>1, <4>2
    <3> QED
      BY <1>1, <2>1, <3>1, <3>2 DEF Blocked
  <2>3. CASE FetchOrders
    <3>1. pass = "loaded" /\ pass' = "fetched" /\ UNCHANGED facts
      BY <2>3 DEF FetchOrders
    <3> QED
      BY <1>1, <2>1, <3>1 DEF Blocked
  <2>4. CASE BeginPass \/ ReadTrades \/ FinishRecovery \/ \E l \in Lots : RecoverFill(l)
    <3>1. pass \notin {"applied", "canceled"} /\ pass' \notin {"loaded", "fetched", "applied"}
      BY <2>4 DEF BeginPass, ReadTrades, FinishRecovery, RecoverFill, rvars
    <3> QED
      BY <1>1, <2>1, <3>1 DEF Blocked
  <2> QED
    BY <2>2, <2>3, <2>4 DEF PassRead
<1> QED
  BY <1>2, <1>3 DEF BlockInv

\* A report that doubts any order is sticky; a row it leaves unattributed was
\* doubted by it.
LEMMA BlockApply ==
  ASSUME LTypeOK, PassType, FactsLinked, BlockInv, ApplyReport
  PROVE  BlockInv'
<1>1. /\ UNCHANGED <<task, outcome, halted, openOk, phase>>
      /\ pass = "fetched" /\ pass' = "applied"
  BY DEF ApplyReport, process, flags, control
<1>2. ASSUME NEW o \in Orders, Verdict(o) \in Sticky  PROVE verdict' = "sticky"
  <2> DEFINE V == {Verdict(p) : p \in Orders}
  <2>1. verdict' = IF V \cap Blockers = {} THEN "safe"
                   ELSE IF V \cap Sticky = {} THEN "pending" ELSE "sticky"
    BY DEF ApplyReport
  <2>2. Verdict(o) \in V \cap Sticky /\ Verdict(o) \in V \cap Blockers
    BY <1>2 DEF Blockers
  <2> HIDE DEF V
  <2> QED
    BY <2>1, <2>2
<1>3. ASSUME NEW o \in Orders  PROVE Blocked(o)'
  <2>1. Blocked(o) /\ journal'[o] = JournalAfter(o)
    BY DEF BlockInv, ApplyReport
  <2>2. journal[o] \in [status : JournalStatuses, xid : BOOLEAN, filled : Nat]
    BY DEF LTypeOK
  <2>3. facts[o].in /\ ~facts[o].xid => Verdict(o) \in Sticky
    BY DEF Verdict, Sticky
  <2>4. Unattributed(o)' => Unattributed(o) \/ Verdict(o) \in Sticky
    BY <2>1, <2>2 DEF JournalAfter, Unattributed
  <2> QED
    BY <1>1, <1>2, <2>1, <2>3, <2>4 DEF Blocked
<1>4. phase # "down"
  BY <1>1 DEF BlockInv, DownQuiet
<1> QED
  BY <1>1, <1>3, <1>4 DEF BlockInv, RepliedHalted, DownQuiet

\* The end of a pass: only a safe report restores readiness.
LEMMA BlockEnd ==
  ASSUME LTypeOK, BlockInv, FinishPass \/ FailPass
  PROVE  BlockInv'
<1>1. /\ UNCHANGED <<journal, task, outcome>> /\ (halted => halted') /\ pass' = "idle"
      /\ phase' = IF phase = "boot" THEN "rebuild" ELSE phase
      /\ pass # "idle"
  BY DEF FinishPass, FailPass, EndPass, AfterPass, db, process
<1>2. FailPass => halted'
  BY DEF FailPass
<1>3. FinishPass => pass = "applied" /\ (verdict = "sticky" => halted')
  BY DEF FinishPass
<1>4. phase # "down" /\ phase' # "down"
  BY <1>1 DEF BlockInv, DownQuiet
<1>5. ASSUME NEW o \in Orders  PROVE Blocked(o)'
  <2>1. Blocked(o) /\ (Unattributed(o)' <=> Unattributed(o))
    BY <1>1 DEF BlockInv, Unattributed
  <2> QED
    BY <1>1, <1>2, <1>3, <1>4, <2>1 DEF Blocked
<1>6. RepliedHalted'
  BY <1>1 DEF BlockInv, RepliedHalted
<1> QED
  BY <1>4, <1>5, <1>6 DEF BlockInv, DownQuiet

\* A pass that is canceled, and the end of its session, which withdraws readiness
\* whatever the pass wrote.
LEMMA BlockCanceled ==
  ASSUME LTypeOK, BlockInv, CancelPass \/ StreamDown
  PROVE  BlockInv'
<1>1. /\ UNCHANGED <<journal, task, outcome, halted, phase>> /\ pass' # "applied"
      /\ pass' \notin {"loaded", "fetched"}
      /\ pass' = "canceled" \/ ~openOk'
  BY DEF CancelPass, StreamDown, EndPass, lvars, db, process, flags, control
<1>2. phase # "down"
  BY DEF CancelPass, StreamDown, BlockInv, DownQuiet
<1>3. \A o \in Orders : Blocked(o)'
  BY <1>1 DEF Blocked
<1> QED
  BY <1>1, <1>2, <1>3 DEF BlockInv, RepliedHalted, DownQuiet

\* A submission whose outcome and exchange id are unknown blocks new risk, also
\* across a crash that loses the halt, with reports that were read before it and
\* with passes and submissions that are canceled anywhere, until an operator resolves it: no pass attributes it, and none restores
\* readiness over it.
THEOREM UnattributedHolds == Spec => []UnattributedBlocksNewRisk
<1> DEFINE J == IInv /\ RowsLinked /\ BlockInv
<1>1. Init => J
  <2> SUFFICES ASSUME Init PROVE BlockInv
    BY IInvInit, RowsInit
  <2>1. phase = "run" /\ \A o \in Orders : task[o] = "idle" /\ journal[o].status = "none"
    BY DEF Init, LInit
  <2> QED
    BY <2>1 DEF BlockInv, RepliedHalted, DownQuiet, Blocked, Unattributed
<1>2. ASSUME J, Next  PROVE J'
  <2>1. LTypeOK /\ PassType /\ AllLinked /\ FactsLinked /\ BlockInv
    BY <1>2 DEF IInv, LInv, RowsLinked
  <2>2. IInv' /\ RowsLinked'
    BY <1>2, <2>1, IInvStep, RowsStep
  <2>3. BlockInv'
    BY <1>2, <2>1, BlockLife, BlockCrash, BlockRead, BlockApply, BlockEnd, BlockCanceled
       DEF Next, ReconcileStep, PassRead
  <2> QED
    BY <2>2, <2>3
<1>3. ASSUME J, UNCHANGED vars  PROVE J'
  <2>1. UNCHANGED <<journal, task, outcome, halted, openOk, phase, pass, verdict, facts>>
    BY <1>3 DEF vars, lvars, rvars, db, process, flags, control
  <2>2. BlockInv'
    BY <1>3, <2>1 DEF BlockInv, RepliedHalted, DownQuiet, Blocked, Unattributed
  <2>3. UNCHANGED <<lvars, rvars>>
    BY <1>3 DEF vars
  <2> QED
    BY <1>3, <2>2, <2>3, IInvQuiet, RowsQuiet
<1>4. J => UnattributedBlocksNewRisk
  BY DEF BlockInv, Blocked, Unattributed, UnattributedBlocksNewRisk
<1> HIDE DEF J
<1> QED
  BY <1>1, <1>2, <1>3, <1>4, PTL DEF Spec

-------------------------------------------------------------------------------
(* Reservations without a journal row *)

\* A reservation without its row is one that create_order is about to journal
\* or to release, or gave up in this process, or one that a crash left behind in a
\* process that does not trade.
Orphaned(o) ==
    OrphanReservation(o)
    => \/ task[o] \in {"reserved", "unjournaled", "abandoned"}
       \/ task[o] = "done" /\ phase # "run"
NoOrphanTrades == \A o \in Orders : Orphaned(o)

\* Only Reserve makes an order active that was not.
ActiveKept == \A p \in Orders : OrphanReservation(p)' => OrphanReservation(p)

\* create_order: the orphan it makes is its own.
LEMMA OrphanCreate ==
  ASSUME LTypeOK, AllLinked, NoOrphanTrades, NEW o \in Orders, CreateOrderStep(o)
  PROVE  NoOrphanTrades'
<1> SUFFICES ASSUME NEW p \in Orders, OrphanReservation(p)'
             PROVE  \/ task'[p] \in {"reserved", "unjournaled", "abandoned"}
                    \/ task'[p] = "done" /\ phase' # "run"
  BY DEF NoOrphanTrades, Orphaned
<1>0. /\ journal \in JournalType /\ resv \in ResvType
      /\ task \in [Orders -> {"idle", "admitted", "reserved", "unjournaled", "journaled",
                       "sent", "replied", "persisted", "unpersisted", "done", "abandoned"}]
      /\ Orphaned(p) /\ Linked(p) /\ Linked(o)
  BY DEF LTypeOK, JournalType, ResvType, NoOrphanTrades, AllLinked
<1>1. phase' = phase /\ JournalGrows /\ \A q \in Orders : q # o => task'[q] = task[q]
  <2>1. phase' = phase
    BY DEF CreateOrderStep, Admit, Reserve, ReserveFails, JournalPending, JournalFails,
       ReleaseUnjournaled, Submit, NotSubmitted, SubmitAmbiguous, SubmitRejected,
       SubmitAccepted, SubmitMatched, PersistOutcome, PersistFails, MarkUnpersisted,
       SettleReservation, SettleFails, AbandonCreate, control
  <2>2. \A q \in Orders : q # o => task'[q] = task[q]
    BY <1>0 DEF CreateOrderStep, Admit, Reserve, ReserveFails, JournalPending, JournalFails,
       ReleaseUnjournaled, Submit, NotSubmitted, SubmitAmbiguous, SubmitRejected,
       SubmitAccepted, SubmitMatched, PersistOutcome, PersistFails, MarkUnpersisted,
       SettleReservation, SettleFails, AbandonCreate, GoTo, EndTask, Replied
  <2> QED
    BY <2>1, <2>2, LinkedCreate
<1>2. ASSUME ~Reserve(o)  PROVE Active(p)' => Active(p)
  <2>1. CASE UNCHANGED resv
    BY <2>1 DEF Active
  <2>2. CASE ReleaseUnjournaled(o) \/ MarkUnpersisted(o) \/ SettleReservation(o)
    <3>1. resv'[p] = resv[p] \/ (p = o /\ Active(o))
      BY <1>0, <2>2 DEF ReleaseUnjournaled, MarkUnpersisted, SettleReservation, Release, Mark,
         ResvType, Active, ActiveStatuses
    <3> QED
      BY <3>1 DEF Active
  <2> QED
    BY <1>2, <2>1, <2>2 DEF CreateOrderStep, Admit, ReserveFails, JournalPending,
       JournalFails, Submit, NotSubmitted, SubmitAmbiguous, SubmitRejected, SubmitAccepted,
       SubmitMatched, PersistOutcome, PersistFails, SettleFails, AbandonCreate, db
<1>3. journal[p].status = "none" /\ Active(p)'
  BY <1>1 DEF OrphanReservation, JournalGrows
<1>4. CASE Reserve(o) /\ p = o
  BY <1>0, <1>4 DEF Reserve, GoTo
<1>5. CASE ~(Reserve(o) /\ p = o)
  <2>1. Active(p)
    <3>1. CASE Reserve(o)
      BY <1>0, <1>3, <1>5, <3>1 DEF Reserve, Active, ResvType
    <3> QED
      BY <1>2, <1>3, <3>1
  <2>2. OrphanReservation(p)
    BY <1>3, <2>1 DEF OrphanReservation
  <2>3. CASE p # o
    BY <1>0, <1>1, <2>2, <2>3 DEF Orphaned
  <2>4. CASE p = o
    <3>1. task[o] \in {"reserved", "unjournaled", "abandoned", "done"}
      BY <1>0, <2>2, <2>4 DEF Orphaned
    <3>2. CASE JournalPending(o)
      BY <1>0, <2>4, <3>2 DEF JournalPending, OrphanReservation, JournalType
    <3>3. CASE JournalFails(o)
      BY <1>0, <2>4, <3>3 DEF JournalFails, GoTo
    <3>4. CASE ReleaseUnjournaled(o)
      <4>1. CASE Release(o, "JOURNAL_FAILED")
        <5>1. ~Active(o)'
          BY <1>0, <4>1 DEF Release, Active, ActiveStatuses, ResvType
        <5> QED
          BY <1>3, <2>4, <5>1
      <4>2. CASE GoTo(o, "abandoned")
        BY <1>0, <2>4, <4>2 DEF GoTo
      <4> QED
        BY <3>4, <4>1, <4>2 DEF ReleaseUnjournaled
    <3>5. CASE AbandonCreate(o)
      BY <1>0, <2>4, <3>5 DEF AbandonCreate, GoTo
    <3> QED
      BY <3>1, <3>2, <3>3, <3>4, <3>5
         DEF CreateOrderStep, Admit, Reserve, ReserveFails, Submit, NotSubmitted,
             SubmitAmbiguous, SubmitRejected, SubmitAccepted, SubmitMatched, PersistOutcome,
             PersistFails, MarkUnpersisted, SettleReservation, SettleFails, AbandonCreate
  <2> QED
    BY <2>3, <2>4
<1> QED
  BY <1>4, <1>5

\* Every other step of the order path makes no orphan and moves no coroutine of
\* create_order.
LEMMA OrphanOther ==
  ASSUME LTypeOK, AllLinked,
         \/ VenueStep \/ PersistHalt
         \/ \E o \in Orders : CancelStep(o)
         \/ \E l \in Lots : FillStep(l)
  PROVE  ActiveKept /\ task' = task /\ phase' = phase
<1>0. resv \in ResvType
  BY DEF LTypeOK, ResvType
<1>1. JournalGrows
  BY LinkedLife DEF LifecycleNext
<1>2. ASSUME \A p \in Orders : Active(p)' => Active(p)  PROVE ActiveKept
  BY <1>1, <1>2 DEF ActiveKept, OrphanReservation, JournalGrows
<1>3. CASE VenueStep \/ PersistHalt
  <2>1. UNCHANGED <<resv, task, phase>>
    BY <1>3 DEF VenueStep, VenueReceive, VenueRefuse, VenueCancel, VenueMatch, SettleConfirm,
       SettleFail, PersistHalt, db, process, control
  <2> QED
    BY <1>2, <2>1 DEF Active
<1>4. ASSUME NEW o \in Orders, CancelStep(o)  PROVE ActiveKept /\ task' = task /\ phase' = phase
  <2>1. task' = task
    BY <1>4, CancelFrame
  <2>2. phase' = phase
    BY <1>4 DEF CancelStep, CancelSend, CancelFails, CancelConfirmed, CancelFoundMatched,
       CommitMatched, MarkMatchedUnknown, StreamCancel, MarkCancelPending, control
  <2>3. ASSUME NEW st, Mark(o, st)  PROVE \A p \in Orders : Active(p)' => Active(p)
    BY <1>0, <2>3 DEF Mark, Active, ResvType
  <2>4. UNCHANGED resv \/ Mark(o, "UNKNOWN") \/ Mark(o, "CANCEL_PENDING_RECONCILE")
    BY <1>4 DEF CancelStep, CancelSend, CancelFails, CancelConfirmed, CancelFoundMatched,
       CommitMatched, MarkMatchedUnknown, StreamCancel, MarkCancelPending, db
  <2>5. \A p \in Orders : Active(p)' => Active(p)
    BY <2>3, <2>4 DEF Active
  <2> QED
    BY <1>2, <2>1, <2>2, <2>5
<1>5. ASSUME NEW l \in Lots, FillStep(l)  PROVE ActiveKept /\ task' = task /\ phase' = phase
  <2>1. task' = task
    BY <1>5, FillFrame
  <2>2. phase' = phase
    BY <1>5 DEF FillStep, RecordFill, ProcessFill, FailFill, AbandonFill, FlagFee, control
  <2>3. \A p \in Orders : Active(p)' => Active(p)
    <3>1. CASE ProcessFill(l)
      BY <3>1, FillRows DEF Active
    <3>2. CASE UNCHANGED resv
      BY <3>2 DEF Active
    <3> QED
      BY <1>5, <3>1, <3>2 DEF FillStep, RecordFill, FailFill, AbandonFill, FlagFee, db
  <2> QED
    BY <1>2, <2>1, <2>2, <2>3
<1> QED
  BY <1>3, <1>4, <1>5

\* Every step keeps it: a crash and a restart leave the process down or
\* rebuilding, the rebuild trades only over a book without orphans, and a pass
\* writes only rows whose orders are journaled.
LEMMA OrphanStep ==
  ASSUME LTypeOK, RowsLinked, NoOrphanTrades, Next
  PROVE  NoOrphanTrades'
<1>0. AllLinked /\ FactsLinked
  BY DEF RowsLinked
<1>1. ASSUME ActiveKept, task' = task, phase' = phase  PROVE NoOrphanTrades'
  BY <1>1 DEF ActiveKept, NoOrphanTrades, Orphaned
<1>2. CASE Beside(LifecycleNext)
  BY <1>0, <1>1, <1>2, OrphanCreate, OrphanOther DEF Beside, LifecycleNext
<1>3. CASE Crash /\ EndPass
  <2> SUFFICES ASSUME NEW o \in Orders, OrphanReservation(o)'  PROVE task'[o] = "done" /\ phase' # "run"
    BY DEF NoOrphanTrades, Orphaned
  <2>1. /\ UNCHANGED <<journal, resv>> /\ phase' = "down"
        /\ task'[o] = IF task[o] = "idle" THEN "idle" ELSE "done"
    BY <1>3 DEF Crash
  <2>2. OrphanReservation(o)
    BY <2>1 DEF OrphanReservation, Active
  <2>3. task[o] # "idle"
    BY <1>0, <2>2 DEF AllLinked, Linked, OrphanReservation, Active, ActiveStatuses
  <2> QED
    BY <2>1, <2>3
<1>4. CASE Beside(Restart)
  <2>1. UNCHANGED <<journal, resv, task>> /\ phase' # "run"
    BY <1>4 DEF Beside, Restart, db, process
  <2> QED
    BY <2>1 DEF NoOrphanTrades, Orphaned, OrphanReservation, Active
<1>5. CASE Beside(Rebuild)
  <2>1. /\ UNCHANGED <<journal, resv, task>>
        /\ phase' # "run" \/ \A o \in Orders : ~OrphanReservation(o)
    BY <1>5 DEF Beside, Rebuild, RebuildSafe, process
  <2> QED
    BY <2>1 DEF NoOrphanTrades, Orphaned, OrphanReservation, Active
<1>6. CASE PassRead \/ \E l \in Lots : RecoverFill(l)
  <2>1. UNCHANGED <<journal, resv, task, phase>>
    BY <1>6, ReadFrame DEF RecoverFill, lvars, db, process, control
  <2> QED
    BY <1>1, <2>1 DEF ActiveKept, OrphanReservation, Active
<1>7. CASE ApplyReport
  <2>1. UNCHANGED <<task, phase>>
    BY <1>7 DEF ApplyReport, process, control
  <2>2. ASSUME NEW o \in Orders  PROVE OrphanReservation(o)' => OrphanReservation(o)
    <3>1. /\ ~facts[o].in => journal'[o] = journal[o] /\ resv'[o] = resv[o]
          /\ journal[o].status # "none" => journal'[o].status # "none"
      BY <1>7, ApplyRows
    <3>2. facts[o].in => journal[o].status # "none"
      BY <1>0 DEF FactsLinked
    <3> QED
      BY <3>1, <3>2 DEF OrphanReservation, Active
  <2> QED
    BY <1>1, <2>1, <2>2 DEF ActiveKept
<1>8. CASE FinishPass \/ FailPass
  <2>1. UNCHANGED <<journal, resv, task>> /\ (phase' = "run" => phase = "run")
    BY <1>8 DEF FinishPass, FailPass, AfterPass, db, process
  <2> QED
    BY <2>1 DEF NoOrphanTrades, Orphaned, OrphanReservation, Active
<1>9. CASE StreamDown \/ CancelPass
  <2>1. UNCHANGED <<journal, resv, task, phase>>
    BY <1>9 DEF StreamDown, CancelPass, lvars, db, process, control
  <2> QED
    BY <1>1, <2>1 DEF ActiveKept, OrphanReservation, Active
<1> QED
  BY <1>2, <1>3, <1>4, <1>5, <1>6, <1>7, <1>8, <1>9 DEF Next, ReconcileStep, PassRead

\* Trading never resumes over a reservation that an earlier process left without
\* its journal row, whatever left it there: a crash, a release that failed after
\* the failed insert, or a create_order that was canceled.  A process that trades
\* has at most those of its own create_order calls.
THEOREM OrphanHolds == Spec => []OrphanBlocksResume
<1> DEFINE J == IInv /\ RowsLinked /\ NoOrphanTrades
<1>1. Init => J
  <2> SUFFICES ASSUME Init PROVE NoOrphanTrades
    BY IInvInit, RowsInit
  <2>1. \A o \in Orders : resv[o].status = "none"
    BY DEF Init, LInit
  <2> QED
    BY <2>1 DEF NoOrphanTrades, Orphaned, OrphanReservation, Active, ActiveStatuses
<1>2. ASSUME J, Next  PROVE J'
  <2>1. LTypeOK
    BY <1>2 DEF IInv, LInv
  <2> QED
    BY <1>2, <2>1, IInvStep, RowsStep, OrphanStep
<1>3. ASSUME J, UNCHANGED vars  PROVE J'
  <2>1. UNCHANGED <<journal, resv, task, phase>> /\ UNCHANGED <<lvars, rvars>>
    BY <1>3 DEF vars, lvars, db, process, control
  <2>2. NoOrphanTrades'
    BY <1>3, <2>1 DEF NoOrphanTrades, Orphaned, OrphanReservation, Active
  <2> QED
    BY <1>3, <2>1, <2>2, IInvQuiet, RowsQuiet
<1>4. J => OrphanBlocksResume
  BY DEF NoOrphanTrades, Orphaned, OrphanBlocksResume
<1> HIDE DEF J
<1> QED
  BY <1>1, <1>2, <1>3, <1>4, PTL DEF Spec
===============================================================================
