------------------------- MODULE ExecutionLeaseProofs -------------------------
(***************************************************************************)
(* Proofs about ExecutionLease, for any processes, clock and TTL.          *)
(*                                                                         *)
(* Beyond types, nobody may wipe the database beside a live process        *)
(* (~WipeLive): tokens would start again at 1 under its eyes.              *)
(* FenceInv needs no assumption on owner ids: the row holds the largest    *)
(* token, and whoever has that token has the row's owner id.  GrantInv     *)
(* adds, for distinct owner ids, that an unexpired grant is the row's      *)
(* current one; then two of them are one.                                  *)
(***************************************************************************)
EXTENDS ExecutionLease, TLAPS

FenceBound   == \A p \in Processes : fence[p] <= row.token
CurrentFence == \A p \in Processes :
                    fence[p] # 0 /\ fence[p] = row.token => row.owner = OwnerOf[p]
FenceInv     == TypeOK /\ FenceBound /\ CurrentFence /\ FenceNamesOwner

DistinctOwners == \A p, q \in Processes : OwnerOf[p] = OwnerOf[q] => p = q
GrantCurrent   == \A p \in Processes :
                      Holds(p) => row.token = fence[p] /\ granted[p] <= row.expires
GrantInv       == FenceInv /\ GrantCurrent

\* A process writes its own owner id into the row, which is one of Owners.
LEMMA OwnersLemma == \A p \in Processes : OwnerOf[p] \in Owners
  BY DEF Owners

-------------------------------------------------------------------------------
\* The variables keep their types: TypeOK is inductive by itself.
LEMMA TypeStep == ASSUME TypeOK, [Next]_vars PROVE TypeOK'
<1> USE LeaseAssumption DEF TypeOK
<1>1. CASE Tick
  BY <1>1 DEF Tick
<1>2. ASSUME NEW p \in Processes, Acquire(p) PROVE TypeOK'
  BY <1>2, OwnersLemma DEF Acquire, Grant, NextToken
<1>3. ASSUME NEW p \in Processes, RenewLoop(p) PROVE TypeOK'
  BY <1>3, OwnersLemma DEF RenewLoop, Renewable, Grant, LeaseLost
<1>4. ASSUME NEW p \in Processes, Admit(p) PROVE TypeOK'
  BY <1>4, OwnersLemma DEF Admit, Renewable, Grant, LeaseLost
<1>5. ASSUME NEW p \in Processes, ClearToSubmit(p) PROVE TypeOK'
  BY <1>5, OwnersLemma DEF ClearToSubmit, Renewable, Grant, LeaseLost
<1>6. ASSUME NEW p \in Processes, Submit(p) PROVE TypeOK'
  BY <1>6 DEF Submit
<1>7. ASSUME NEW p \in Processes, Release(p) PROVE TypeOK'
  BY <1>7 DEF Release, Gone
<1>8. ASSUME NEW p \in Processes, Crash(p) PROVE TypeOK'
  BY <1>8 DEF Crash, Gone
<1>9. CASE Wipe
  BY <1>9 DEF Wipe, NoRow
<1>10. CASE UNCHANGED vars
  BY <1>10 DEF vars
<1> QED
  BY <1>1, <1>2, <1>3, <1>4, <1>5, <1>6, <1>7, <1>8, <1>9, <1>10 DEF Next

\* A renewal keeps owner and token; it moves only expiry and grant of its process.
LEMMA RenewalLemma ==
  ASSUME TypeOK, NEW p \in Processes, Renewable(p), Grant(p, row.token)
  PROVE  /\ row' = [row EXCEPT !.expires = now + TTL]
         /\ granted' = [granted EXCEPT ![p] = now + TTL]
  BY DEF TypeOK, Renewable, Grant

\* A wipe finds no fence and leaves none.
LEMMA WipeLemma ==
  ASSUME ~WipeLive, Wipe
  PROVE  fence' = fence /\ \A p \in Processes : fence[p] = 0
  BY DEF Wipe

\* What every step but Acquire and Wipe does to the tokens: none appears, the row's
\* stays.
LEMMA NoNewFence ==
  ASSUME TypeOK, [Next]_vars, \A p \in Processes : ~Acquire(p), ~Wipe
  PROVE  /\ row'.token = row.token /\ row'.owner = row.owner
         /\ \A q \in Processes : fence'[q] \in {0, fence[q]}
<1>1. CASE Tick
  BY <1>1 DEF Tick
<1>2. ASSUME NEW p \in Processes, RenewLoop(p) \/ Admit(p) \/ ClearToSubmit(p)
      PROVE /\ row'.token = row.token /\ row'.owner = row.owner
            /\ fence' = fence
  <2>1. fence' = fence
    BY <1>2 DEF RenewLoop, Admit, ClearToSubmit
  <2>2. (Renewable(p) /\ Grant(p, row.token)) \/ LeaseLost(p)
    BY <1>2 DEF RenewLoop, Admit, ClearToSubmit
  <2>3. CASE Renewable(p) /\ Grant(p, row.token)
    BY <2>1, <2>3, RenewalLemma DEF TypeOK
  <2>4. CASE LeaseLost(p)
    BY <2>1, <2>4 DEF LeaseLost
  <2> QED
    BY <2>2, <2>3, <2>4
<1>3. ASSUME NEW p \in Processes, Submit(p)
      PROVE row' = row /\ fence' = fence
  BY <1>3 DEF Submit
<1>4. ASSUME NEW p \in Processes, Release(p) \/ Crash(p)
      PROVE /\ row'.token = row.token /\ row'.owner = row.owner
            /\ \A q \in Processes : fence'[q] \in {0, fence[q]}
  BY <1>4 DEF Release, Crash, Gone, TypeOK
<1>5. CASE UNCHANGED vars
  BY <1>5 DEF vars
<1> QED
  BY <1>1, <1>2, <1>3, <1>4, <1>5 DEF Next

\* Every step keeps the fences.
LEMMA FenceStep == ASSUME ~WipeLive, FenceInv, [Next]_vars PROVE FenceInv'
<1>1. TypeOK'
  BY TypeStep DEF FenceInv
<1>2. ASSUME NEW p \in Processes, Acquire(p)
      PROVE FenceBound' /\ CurrentFence' /\ FenceNamesOwner'
  <2>1. /\ row'.owner = OwnerOf[p] /\ row'.token = NextToken(p)
        /\ fence' = [fence EXCEPT ![p] = NextToken(p)]
    BY <1>2 DEF Acquire, Grant
  <2>2. CASE row.owner = OwnerOf[p]
    BY <2>1, <2>2 DEF FenceInv, TypeOK, NextToken, FenceBound, CurrentFence,
       FenceNamesOwner
  <2>3. CASE row.owner # OwnerOf[p]
    BY <2>1, <2>3 DEF FenceInv, TypeOK, NextToken, FenceBound, CurrentFence,
       FenceNamesOwner
  <2> QED
    BY <2>2, <2>3
<1>3. ASSUME \A p \in Processes : ~Acquire(p), ~Wipe
      PROVE FenceBound' /\ CurrentFence' /\ FenceNamesOwner'
  <2>1. /\ row'.token = row.token /\ row'.owner = row.owner
        /\ \A q \in Processes : fence'[q] \in {0, fence[q]}
    BY <1>3, NoNewFence DEF FenceInv
  <2> QED
    BY <2>1 DEF FenceInv, TypeOK, FenceBound, CurrentFence, FenceNamesOwner
<1>4. CASE Wipe
  BY <1>1, <1>4, WipeLemma DEF TypeOK, FenceInv, FenceBound, CurrentFence,
     FenceNamesOwner
<1> QED
  BY <1>1, <1>2, <1>3, <1>4 DEF FenceInv

\* Before anyone holds the lease the fences are in order.
LEMMA FenceInit == Init => FenceInv
  BY DEF Init, NoRow, FenceInv, TypeOK, FenceBound, CurrentFence, FenceNamesOwner

\* Each variable of the lease protocol stays in its domain.
THEOREM TypeCorrect == Spec => []TypeOK
<1>1. Init => TypeOK
  BY FenceInit DEF FenceInv
<1>2. TypeOK /\ [Next]_vars => TypeOK'
  BY TypeStep
<1> QED
  BY <1>1, <1>2, PTL DEF Spec

\* The fences are in order in every reachable state.
LEMMA FenceInvariant == ASSUME ~WipeLive PROVE Spec => []FenceInv
<1>1. FenceInv /\ [Next]_vars => FenceInv'
  BY FenceStep
<1> QED
  BY <1>1, FenceInit, PTL DEF Spec

\* A fencing token belongs to one owner, even when slots share an owner id:
\* takeovers draw a larger token than any handed out before, as long as nobody
\* wipes the row under a live process.
THEOREM FenceNamesOwnerHolds == ASSUME ~WipeLive PROVE Spec => []FenceNamesOwner
<1>1. FenceInv => FenceNamesOwner
  BY DEF FenceInv
<1> QED
  BY <1>1, FenceInvariant, PTL

\* The pre-submit renewal passes only under the newest token.
THEOREM ClearedUnderNewest == ASSUME ~WipeLive PROVE Spec => ClearedUnderNewestFence
<1> DEFINE A == \A p \in Processes :
                    order[p] # "cleared" /\ order'[p] = "cleared"
                    => \A q \in Processes : fence[q] <= fence[p]
<1>1. ASSUME FenceInv, [Next]_vars, NEW p \in Processes,
             order[p] # "cleared", order'[p] = "cleared"
      PROVE  \A q \in Processes : fence[q] <= fence[p]
  <2>1. ASSUME NEW r \in Processes, ClearToSubmit(r)
        PROVE \A q \in Processes : fence[q] <= fence[p]
    <3>1. r = p /\ Renewable(p)
      BY <1>1, <2>1 DEF ClearToSubmit, FenceInv, TypeOK
    <3> QED
      BY <3>1, <1>1 DEF Renewable, FenceInv, FenceBound
  <2>2. ASSUME NEW r \in Processes, ClearToSubmit(r) \/ Submit(r) \/ Acquire(r)
               \/ RenewLoop(r) \/ Admit(r) \/ Release(r) \/ Crash(r) \/ Wipe
        PROVE ClearToSubmit(r)
    BY <1>1, <2>2 DEF Submit, Acquire, RenewLoop, Admit, Release, Crash, Gone,
       Wipe, FenceInv, TypeOK
  <2> QED
    BY <1>1, <2>1, <2>2 DEF Next, Tick, Wipe, vars
<1>2. FenceInv /\ [Next]_vars => [A]_vars
  BY <1>1
<1>3. Spec => [][A]_vars
  BY <1>2, FenceInvariant, PTL DEF Spec
<1> QED
  BY <1>3 DEF ClearedUnderNewestFence
-------------------------------------------------------------------------------
\* Every step keeps the grants under the row, when no two processes share a name.
LEMMA GrantStep ==
  ASSUME ~WipeLive, DistinctOwners, GrantInv, [Next]_vars
  PROVE  GrantInv'
<1> USE LeaseAssumption DEF Holds
<1> FenceInv'
  BY FenceStep DEF GrantInv
<1> SUFFICES ASSUME NEW p \in Processes, Holds(p)'
             PROVE (row.token = fence[p] /\ granted[p] <= row.expires)'
  BY DEF GrantInv, GrantCurrent
<1>1. ASSUME Holds(p) PROVE /\ row.owner = OwnerOf[p] /\ row.token = fence[p]
                            /\ granted[p] <= row.expires /\ row.expires > now
  BY <1>1 DEF GrantInv, FenceInv, TypeOK, GrantCurrent, CurrentFence
<1>2. CASE Tick
  BY <1>1, <1>2 DEF Tick, GrantInv, FenceInv, TypeOK
<1>3. ASSUME NEW q \in Processes, Acquire(q)
      PROVE (row.token = fence[p] /\ granted[p] <= row.expires)'
  <2>1. CASE p = q
    BY <1>3, <2>1 DEF Acquire, Grant, NextToken, GrantInv, FenceInv, TypeOK
  <2>2. CASE p # q
    <3>1. Holds(p)
      BY <1>3, <2>2 DEF Acquire, Grant, GrantInv, FenceInv, TypeOK
    <3> QED
      BY <1>1, <1>3, <2>2, <3>1 DEF Acquire, Free, DistinctOwners, GrantInv,
         FenceInv, TypeOK
  <2> QED
    BY <2>1, <2>2
<1>4. ASSUME NEW q \in Processes, RenewLoop(q) \/ Admit(q) \/ ClearToSubmit(q)
      PROVE (row.token = fence[p] /\ granted[p] <= row.expires)'
  <2>1. fence' = fence /\ now' = now
    BY <1>4 DEF RenewLoop, Admit, ClearToSubmit
  <2>2. (Renewable(q) /\ Grant(q, row.token)) \/ LeaseLost(q)
    BY <1>4 DEF RenewLoop, Admit, ClearToSubmit
  <2>3. CASE Renewable(q) /\ Grant(q, row.token)
    <3>1. /\ row' = [row EXCEPT !.expires = now + TTL]
          /\ granted' = [granted EXCEPT ![q] = now + TTL]
      BY <2>3, RenewalLemma DEF GrantInv, FenceInv
    <3>2. CASE p = q
      BY <2>1, <2>3, <3>1, <3>2 DEF Renewable, GrantInv, FenceInv, TypeOK
    <3>3. CASE p # q
      <4>1. Holds(p)
        BY <2>1, <3>1, <3>3 DEF GrantInv, FenceInv, TypeOK
      <4> QED
        BY <1>1, <2>3, <3>3, <4>1 DEF Renewable, DistinctOwners
    <3> QED
      BY <3>2, <3>3
  <2>4. CASE LeaseLost(q)
    BY <1>1, <2>1, <2>4 DEF LeaseLost
  <2> QED
    BY <2>2, <2>3, <2>4
<1>5. ASSUME NEW q \in Processes, Submit(q)
      PROVE (row.token = fence[p] /\ granted[p] <= row.expires)'
  BY <1>1, <1>5 DEF Submit
<1>6. ASSUME NEW q \in Processes, Release(q) \/ Crash(q)
      PROVE (row.token = fence[p] /\ granted[p] <= row.expires)'
  <2>1. p # q /\ Holds(p)
    BY <1>6 DEF Release, Crash, Gone, GrantInv, FenceInv, TypeOK
  <2>2. row' = row
    BY <1>1, <1>6, <2>1 DEF Release, Crash, DistinctOwners
  <2> QED
    BY <1>1, <1>6, <2>1, <2>2 DEF Release, Crash, Gone, GrantInv, FenceInv, TypeOK
<1>7. CASE Wipe
  BY <1>7, WipeLemma
<1>8. CASE UNCHANGED vars
  BY <1>1, <1>8 DEF vars
<1> QED
  BY <1>2, <1>3, <1>4, <1>5, <1>6, <1>7, <1>8 DEF Next

\* With an owner id for every slot, at most one process holds an unexpired grant.
THEOREM OneHolderHolds ==
  ASSUME DistinctOwners, ~WipeLive
  PROVE  Spec => []OneHolder
<1>1. Init => GrantInv
  BY FenceInit DEF Init, GrantInv, GrantCurrent, Holds
<1>2. GrantInv /\ [Next]_vars => GrantInv'
  BY GrantStep
<1>3. GrantInv => OneHolder
  BY DEF GrantInv, FenceInv, GrantCurrent, CurrentFence, OneHolder, Holds,
     DistinctOwners
<1> QED
  BY <1>1, <1>2, <1>3, PTL DEF Spec
===============================================================================
