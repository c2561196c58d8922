-------------------------- MODULE QuotingEngineProofs --------------------------
(***************************************************************************)
(* Proofs about QuotingEngine, for any number of orders, levels, prices,   *)
(* lots, starts and faults.                                                *)
(*                                                                         *)
(* A quote that the engine does not track has to come from somewhere: a    *)
(* lost answer, a failed store or a match halts; a task that was stopped   *)
(* in place_orders leaves rows that the next bootstrap reads back; and an  *)
(* order leaves active_orders only once the venue has closed it.  That is  *)
(* Core, which holds until the process halts.                              *)
(*                                                                         *)
(* TableInv holds in every state: the rows against the venue, one entry    *)
(* with enough size for every tracked order, and a budget that covers what *)
(* every BUY can still buy.  With both, LevelInv follows the pass of       *)
(* sync_orders_diff: what it keeps and what it asks for fits the grid.     *)
(***************************************************************************)
EXTENDS QuotingEngine, DataInduction, FiniteSetTheorems

Reasons == {"pause", "exit", "fault", "suspend", "complete", "finally", "diff"}
Messages == [kind : CommandKinds, id : {0}] \union [kind : {"status"}, id : Ids]

\* Types, as far as the argument needs them: a quote stays the record it is.
JobType == job \in [why : Reasons \union {"none"}, wait : {job.wait}, ok : SUBSET Ids,
                    failed : BOOLEAN, want : {job.want}, calls : {job.calls}]
FlagType == /\ pc \in {"off", "booted", "idle", "cancel", "place", "stopped"}
            /\ flags \in [suspended : BOOLEAN, exiting : BOOLEAN, shutdown : BOOLEAN]
            /\ safety \in [halted : BOOLEAN, reconciled : BOOLEAN]
OrderType(r) == r \in [row : {"none", "OPEN", "PENDING", "UNKNOWN", "CANCELED", "FILLED",
                              "FAILED"},
                       venue : {"none", "sent", "live", "closed", "filled", "refused"},
                       mapped : BOOLEAN, side : {r.side}, price : {r.price},
                       post : {r.post}, filled : Nat, booked : Nat]
ListType == /\ active \in Seq(ToSet(active)) /\ IdsIn(active) \subseteq Ids
            /\ inbox \in Seq(Messages)
BookType == DOMAIN order = Ids /\ \A o \in Ids : OrderType(order[o])
Types == JobType /\ FlagType /\ ListType /\ BookType

\* The row of an order against the venue: what rests there, or may yet, can be
\* read back; what has not been answered is not mapped.
RowInv(o) ==
    /\ order[o].booked <= order[o].filled
    /\ order[o].row = "none" => order[o].venue = "none"
    /\ order[o].venue \in {"none", "sent", "refused"} =>
          ~order[o].mapped /\ order[o].filled = 0
    /\ order[o].venue = "sent" => order[o].row \in {"PENDING", "UNKNOWN"}
    /\ order[o].venue = "live" => /\ order[o].row \in UnresolvedRows
                                  /\ order[o].filled < Lot

\* A status message is about an order that is over.
MessageInv == \A i \in DOMAIN inbox :
                 inbox[i].kind = "status" => order[inbox[i].id].venue \in {"closed", "filled"}

\* The quotes that rest at the venue or are on their way there.
Loose == {o \in Ids : order[o].venue \in {"sent", "live"} /\ order[o].post}
Known == IdsIn(active)
Cancels(why) == pc = "cancel" /\ job.why = why

\* What a handler has seen of its gather.
GatherInv ==
    pc = "cancel" => /\ job.why \in Reasons \ {"fault"}
                     /\ \A o \in job.ok : order[o].venue = "closed"
                     /\ job.why # "diff" /\ ~job.failed => Known \subseteq job.wait \union job.ok
TrackInv ==
    /\ pc \in {"booted", "idle"} => Loose \subseteq Known
    /\ pc = "cancel" /\ job.why # "finally" => Loose \subseteq Known
    /\ pc = "place" => Loose \subseteq Known \union job.ok \union job.calls
QuietInv ==
    /\ pc = "booted" => ~flags.suspended /\ ~flags.shutdown
    /\ flags.suspended =>
         /\ pc # "place" /\ ~Cancels("pause") /\ ~Cancels("complete") /\ ~Cancels("diff")
         /\ pc = "idle" \/ Cancels("exit") => Loose = {}
    /\ flags.shutdown => Loose = {} /\ (pc = "stopped" \/ Cancels("finally"))

\* Before the process halts; it never lifts a halt.
Core == (\A o \in Ids : RowInv(o)) /\ MessageInv /\ GatherInv /\ TrackInv /\ QuietInv
IInv == Types /\ (safety.halted \/ Core)

-------------------------------------------------------------------------------
\* Lists of orders.

\* Ranked enumerates the set: every element has a rank of its own.
LEMMA RankedOnto ==
  ASSUME NEW S, S \subseteq Nat, IsFiniteSet(S)
  PROVE  /\ DOMAIN Ranked(S) = 1 .. Cardinality(S) /\ Cardinality(S) \in Nat
         /\ \A i \in DOMAIN Ranked(S) : Ranked(S)[i] \in S
         /\ \A x \in S : \E i \in DOMAIN Ranked(S) : Ranked(S)[i] = x
         /\ \A i \in DOMAIN Ranked(S) : Cardinality({y \in S : y <= Ranked(S)[i]}) = i
<1> DEFINE Upto(x) == {y \in S : y <= x}
           n == Cardinality(S)
           f == [x \in S |-> Cardinality(Upto(x))]
<1>1. n \in Nat
  BY FS_CardinalityType
<1>2. \A x \in S : IsFiniteSet(Upto(x)) /\ Cardinality(Upto(x)) \in 1 .. n
  <2> TAKE x \in S
  <2>1. Upto(x) \in SUBSET S
    OBVIOUS
  <2>2. IsFiniteSet(Upto(x)) /\ Cardinality(Upto(x)) <= n
    BY <2>1, FS_Subset
  <2>3. Cardinality(Upto(x)) \in Nat
    BY <2>2, FS_CardinalityType
  <2>4. Upto(x) # {}
    <3>1. x \in Nat /\ x <= x
      OBVIOUS
    <3> QED
      BY <3>1
  <2>5. Cardinality(Upto(x)) # 0
    BY <2>2, <2>4, FS_EmptySet
  <2> QED
    BY <1>1, <2>2, <2>3, <2>5
<1>3. ASSUME NEW x \in S, NEW z \in S, x < z PROVE f[x] # f[z]
  <2>1. x \in Nat /\ z \in Nat
    OBVIOUS
  <2>2. Upto(x) \in SUBSET Upto(z)
    <3>1. ASSUME NEW y \in S, y <= x PROVE y <= z
      <4>1. y \in Nat
        OBVIOUS
      <4> QED
        BY <1>3, <2>1, <3>1, <4>1
    <3> QED
      BY <3>1
  <2>3. z \in Upto(z) /\ z \notin Upto(x)
    BY <1>3, <2>1
  <2>4. Upto(x) # Upto(z)
    BY <2>3
  <2>5. IsFiniteSet(Upto(z))
    BY <1>2
  <2> HIDE DEF Upto
  <2>6. Cardinality(Upto(x)) # Cardinality(Upto(z))
    BY <2>2, <2>4, <2>5, FS_Subset
  <2> QED
    BY <2>6
<1>4. ASSUME NEW x \in S, NEW z \in S, f[x] = f[z] PROVE x = z
  <2>1. x \in Nat /\ z \in Nat
    OBVIOUS
  <2>2. x < z \/ z < x \/ x = z
    BY <2>1
  <2> HIDE DEF f
  <2> QED
    BY <1>3, <1>4, <2>2
<1>5. f \in [S -> 1 .. n]
  BY <1>2
<1>6. f \in Injection(S, 1 .. n)
  <2> HIDE DEF f
  <2> QED
    BY <1>4, <1>5 DEF Injection, IsInjective
<1>7. IsFiniteSet(1 .. n) /\ Cardinality(1 .. n) = n
  BY <1>1, FS_Interval
<1>8. f \in Surjection(S, 1 .. n)
  BY <1>6, <1>7, FS_Injection
<1>9. \A i \in 1 .. n : \E x \in S : f[x] = i
  <2> HIDE DEF f
  <2> QED
    BY <1>8 DEF Surjection
<1>10. \A i \in 1 .. n : \E x \in S : Cardinality(Upto(x)) = i
  BY <1>9
<1>11. Ranked(S) = [i \in 1 .. n |-> CHOOSE x \in S : Cardinality(Upto(x)) = i]
  BY DEF Ranked
<1> HIDE DEF Upto, n
<1>12. \A i \in 1 .. n : Ranked(S)[i] \in S /\ Cardinality(Upto(Ranked(S)[i])) = i
  BY <1>10, <1>11
<1>13. \A x \in S : Ranked(S)[Cardinality(Upto(x))] = x
  <2> TAKE x \in S
  <2> DEFINE z == Ranked(S)[Cardinality(Upto(x))]
  <2>1. z \in S /\ Cardinality(Upto(z)) = Cardinality(Upto(x))
    BY <1>2, <1>12
  <2> HIDE DEF z
  <2>2. z = x
    BY <1>4, <2>1
  <2> QED
    BY <2>2 DEF z
<1>14. \A i \in 1 .. n : Cardinality({y \in S : y <= Ranked(S)[i]}) = i
  BY <1>12 DEF Upto
<1> QED
  BY <1>1, <1>2, <1>11, <1>12, <1>13, <1>14 DEF n

\* A function on 1 .. n is a sequence of its values.
LEMMA SequenceOf ==
  ASSUME NEW n \in Nat, NEW s, s = [i \in 1 .. n |-> s[i]]
  PROVE  s \in Seq(ToSet(s)) /\ Len(s) = n /\ DOMAIN s = 1 .. n
<1>1. DOMAIN s = 1 .. n
  OBVIOUS
<1>2. \A i \in 1 .. n : s[i] \in ToSet(s)
  BY <1>1 DEF ToSet
<1>3. s \in [1 .. n -> ToSet(s)]
  BY <1>2
<1>4. s \in Seq(ToSet(s))
  BY <1>3
<1> QED
  BY <1>1, <1>4

\* The ids of a list, by position.
LEMMA IdsOf ==
  ASSUME NEW s
  PROVE  \A o : o \in IdsIn(s) <=> \E i \in DOMAIN s : s[i].id = o
  BY DEF IdsIn, ToSet

\* What Without keeps, and what it drops.
LEMMA WithoutIds ==
  ASSUME NEW s, s \in Seq(ToSet(s)), NEW S
  PROVE  /\ IdsIn(Without(s, S)) = IdsIn(s) \ S
         /\ Without(s, S) \in Seq(ToSet(Without(s, S)))
<1> DEFINE K == {i \in DOMAIN s : s[i].id \notin S}
           kept == Ranked(K)
           w == Without(s, S)
<1>1. DOMAIN s = 1 .. Len(s) /\ Len(s) \in Nat
  OBVIOUS
<1>2. K \subseteq Nat /\ K \in SUBSET (1 .. Len(s))
  BY <1>1
<1>3. IsFiniteSet(K)
  <2>1. IsFiniteSet(1 .. Len(s))
    BY <1>1, FS_Interval
  <2> QED
    BY <1>2, <2>1, FS_Subset
<1>4. /\ DOMAIN kept = 1 .. Cardinality(K) /\ Cardinality(K) \in Nat
      /\ \A i \in DOMAIN kept : kept[i] \in K
      /\ \A x \in K : \E i \in DOMAIN kept : kept[i] = x
  <2> HIDE DEF K
  <2> QED
    BY <1>2, <1>3, RankedOnto
<1>5. w = [i \in DOMAIN kept |-> s[kept[i]]]
  BY DEF Without
<1> HIDE DEF kept, w
<1>6. \A o : o \in IdsIn(w) <=> o \in IdsIn(s) /\ o \notin S
  <2> TAKE o
  <2>1. ASSUME o \in IdsIn(w) PROVE o \in IdsIn(s) /\ o \notin S
    <3>1. PICK i \in DOMAIN w : w[i].id = o
      BY <2>1, IdsOf
    <3>2. kept[i] \in K /\ w[i] = s[kept[i]]
      BY <1>4, <1>5, <3>1
    <3> QED
      BY <3>1, <3>2, IdsOf
  <2>2. ASSUME o \in IdsIn(s), o \notin S PROVE o \in IdsIn(w)
    <3>1. PICK j \in DOMAIN s : s[j].id = o
      BY <2>2, IdsOf
    <3>2. j \in K
      BY <2>2, <3>1
    <3>3. PICK i \in DOMAIN kept : kept[i] = j
      BY <1>4, <3>2
    <3>4. i \in DOMAIN w /\ w[i].id = o
      BY <1>5, <3>1, <3>3
    <3> QED
      BY <3>4, IdsOf
  <2> QED
    BY <2>1, <2>2
<1>7. w = [i \in 1 .. Cardinality(K) |-> w[i]]
  BY <1>4, <1>5
<1>8. w \in Seq(ToSet(w))
  BY <1>4, <1>7, SequenceOf
<1> QED
  BY <1>6, <1>8 DEF w

\* The entries of a set of orders, and the same with other sizes.
LEMMA EntriesIds ==
  ASSUME NEW S, S \subseteq Ids
  PROVE  /\ IdsIn(Entries(S)) = S /\ Entries(S) \in Seq(ToSet(Entries(S)))
         /\ DOMAIN Entries(S) = 1 .. Cardinality(S) /\ Cardinality(S) \in Nat
         /\ \A i \in DOMAIN Entries(S) : Entries(S)[i] = Entry(Ranked(S)[i])
<1>1. S \subseteq Nat /\ IsFiniteSet(S)
  <2>0. MaxOrders \in Nat
    BY EngineAssumption
  <2>1. IsFiniteSet(Ids) /\ Ids \subseteq Nat
    BY <2>0, FS_Interval DEF Ids
  <2> QED
    BY <2>1, FS_Subset
<1>2. /\ DOMAIN Ranked(S) = 1 .. Cardinality(S) /\ Cardinality(S) \in Nat
      /\ \A i \in DOMAIN Ranked(S) : Ranked(S)[i] \in S
      /\ \A x \in S : \E i \in DOMAIN Ranked(S) : Ranked(S)[i] = x
  BY <1>1, RankedOnto
<1> DEFINE e == Entries(S)
<1>3. e = [i \in DOMAIN Ranked(S) |-> Entry(Ranked(S)[i])]
  BY DEF Entries
<1> HIDE DEF e
<1>4. \A o : Entry(o).id = o
  BY DEF Entry
<1>5. \A i \in DOMAIN e : e[i].id = Ranked(S)[i]
  BY <1>3, <1>4
<1>6. \A o : o \in IdsIn(e) <=> o \in S
  BY <1>2, <1>3, <1>5, IdsOf
<1>7. e = [i \in 1 .. Cardinality(S) |-> e[i]]
  BY <1>2, <1>3
<1>8. e \in Seq(ToSet(e))
  BY <1>2, <1>7, SequenceOf
<1> QED
  BY <1>2, <1>3, <1>6, <1>8 DEF e

\* What place_orders adds are the ids that came back.
LEMMA PlacedIds ==
  ASSUME job.ok \subseteq Ids
  PROVE  IdsIn(Placed) = job.ok /\ Placed \in Seq(ToSet(Placed))
<1> DEFINE e == Entries(job.ok)
           p == Placed
           n == Cardinality(job.ok)
<1>1. /\ IdsIn(e) = job.ok /\ DOMAIN e = 1 .. n /\ n \in Nat
      /\ \A i \in DOMAIN e : e[i] = Entry(Ranked(job.ok)[i])
  BY EntriesIds
<1>2. p = [i \in DOMAIN e |-> [e[i] EXCEPT !.size = Lot]]
  BY DEF Placed
<1>3. \A i \in DOMAIN e : [e[i] EXCEPT !.size = Lot].id = e[i].id
  BY <1>1 DEF Entry
<1> HIDE DEF e, p, n
<1>4. DOMAIN p = DOMAIN e /\ \A i \in DOMAIN e : p[i].id = e[i].id
  BY <1>2, <1>3
<1>5. \A o : o \in IdsIn(p) <=> o \in IdsIn(e)
  BY <1>4, IdsOf
<1>6. p = [i \in 1 .. n |-> p[i]]
  BY <1>1, <1>2
<1>7. p \in Seq(ToSet(p))
  BY <1>1, <1>6, SequenceOf
<1> QED
  BY <1>1, <1>5, <1>7 DEF p

\* The ids of two lists joined.
LEMMA JoinedIds ==
  ASSUME NEW s, NEW t, s \in Seq(ToSet(s)), t \in Seq(ToSet(t))
  PROVE  /\ IdsIn(s \o t) = IdsIn(s) \union IdsIn(t)
         /\ s \o t \in Seq(ToSet(s \o t))
<1> DEFINE A == ToSet(s) \union ToSet(t)
           j == s \o t
           n == Len(s) + Len(t)
<1>1. s \in Seq(A) /\ t \in Seq(A) /\ Len(s) \in Nat /\ Len(t) \in Nat
      /\ DOMAIN s = 1 .. Len(s) /\ DOMAIN t = 1 .. Len(t)
  <2>1. s \in [1 .. Len(s) -> ToSet(s)] /\ t \in [1 .. Len(t) -> ToSet(t)]
        /\ Len(s) \in Nat /\ Len(t) \in Nat
    OBVIOUS
  <2>2. s \in [1 .. Len(s) -> A] /\ t \in [1 .. Len(t) -> A]
    BY <2>1
  <2> HIDE DEF A
  <2> QED
    BY <2>1, <2>2
<1> HIDE DEF A
<1>2. /\ j \in Seq(A) /\ Len(j) = n /\ DOMAIN j = 1 .. n /\ n \in Nat
      /\ \A i \in 1 .. n : j[i] = IF i <= Len(s) THEN s[i] ELSE t[i - Len(s)]
  BY <1>1
<1> HIDE DEF j, n
<1>3. \A o : o \in IdsIn(j) <=> o \in IdsIn(s) \/ o \in IdsIn(t)
  <2> TAKE o
  <2>1. ASSUME o \in IdsIn(j) PROVE o \in IdsIn(s) \/ o \in IdsIn(t)
    <3>1. PICK i \in 1 .. n : j[i].id = o
      BY <1>2, <2>1, IdsOf
    <3>2. CASE i <= Len(s)
      BY <1>1, <1>2, <3>1, <3>2, IdsOf
    <3>3. CASE ~(i <= Len(s))
      <4>1. i - Len(s) \in 1 .. Len(t)
        BY <1>1, <3>1, <3>3 DEF n
      <4> QED
        BY <1>1, <1>2, <3>1, <3>3, <4>1, IdsOf
    <3> QED
      BY <3>2, <3>3
  <2>2. ASSUME o \in IdsIn(s) PROVE o \in IdsIn(j)
    <3>1. PICK i \in 1 .. Len(s) : s[i].id = o
      BY <1>1, <2>2, IdsOf
    <3>2. i \in 1 .. n /\ j[i] = s[i]
      BY <1>1, <1>2, <3>1 DEF n
    <3> QED
      BY <1>2, <3>1, <3>2, IdsOf
  <2>3. ASSUME o \in IdsIn(t) PROVE o \in IdsIn(j)
    <3>1. PICK i \in 1 .. Len(t) : t[i].id = o
      BY <1>1, <2>3, IdsOf
    <3>2. i + Len(s) \in 1 .. n /\ j[i + Len(s)] = t[i]
      <4>1. i + Len(s) \in 1 .. n /\ ~(i + Len(s) <= Len(s)) /\ (i + Len(s)) - Len(s) = i
        BY <1>1, <3>1 DEF n
      <4> QED
        BY <1>2, <4>1
    <3> QED
      BY <1>2, <3>1, <3>2, IdsOf
  <2> QED
    BY <2>1, <2>2, <2>3
<1>4. j = [i \in 1 .. n |-> j[i]]
  BY <1>2
<1>5. j \in Seq(ToSet(j))
  BY <1>2, <1>4, SequenceOf
<1> QED
  BY <1>3, <1>5 DEF j

-------------------------------------------------------------------------------
\* Types.

\* An order has a size.
LEMMA LotType == Lot \in Nat /\ Lot > 0
  BY EngineAssumption

\* The fields of a job that a step changes, and those it leaves.
LEMMA JobFields ==
  ASSUME JobType
  PROVE  /\ job.why \in Reasons \union {"none"} /\ job.ok \subseteq Ids
         /\ job.failed \in BOOLEAN
         /\ job = [why |-> job.why, wait |-> job.wait, ok |-> job.ok,
                   failed |-> job.failed, want |-> job.want, calls |-> job.calls]
  BY DEF JobType

\* A job with these fields is a job.
LEMMA JobTypeOf ==
  ASSUME NEW w, NEW k, NEW f, NEW a, NEW q, NEW c,
         w \in Reasons \union {"none"}, k \subseteq Ids, f \in BOOLEAN,
         job' = [why |-> w, wait |-> a, ok |-> k, failed |-> f, want |-> q, calls |-> c]
  PROVE  JobType'
  BY DEF JobType

\* No job is a job.
LEMMA NoJobType ==
  ASSUME job' = NoJob
  PROVE  JobType'
  BY DEF NoJob, JobType

\* A gather begins with nothing confirmed.
LEMMA GatherType ==
  ASSUME NEW why \in Reasons, NEW s, NEW want, Gather(why, s, want)
  PROVE  /\ JobType' /\ pc' = "cancel" /\ job'.why = why /\ job'.wait = IdsIn(s)
         /\ job'.ok = {} /\ job'.failed = FALSE
  BY DEF Gather, NoJob, JobType

\* An order after its field changes.
LEMMA OrderTypeOf ==
  ASSUME NEW r, NEW w \in {"none", "OPEN", "PENDING", "UNKNOWN", "CANCELED", "FILLED",
                           "FAILED"},
         NEW v \in {"none", "sent", "live", "closed", "filled", "refused"},
         NEW m \in BOOLEAN, NEW n \in Nat, NEW b \in Nat, NEW s, NEW p, NEW t,
         r = [row |-> w, venue |-> v, mapped |-> m, side |-> s, price |-> p,
              post |-> t, filled |-> n, booked |-> b]
  PROVE  OrderType(r)
  BY DEF OrderType

\* The fields of an order, and the order from its fields.
LEMMA OrderFields ==
  ASSUME NEW r, OrderType(r)
  PROVE  /\ r = [row |-> r.row, venue |-> r.venue, mapped |-> r.mapped, side |-> r.side,
                 price |-> r.price, post |-> r.post, filled |-> r.filled,
                 booked |-> r.booked]
         /\ r.row \in {"none", "OPEN", "PENDING", "UNKNOWN", "CANCELED", "FILLED", "FAILED"}
         /\ r.venue \in {"none", "sent", "live", "closed", "filled", "refused"}
         /\ r.mapped \in BOOLEAN /\ r.filled \in Nat /\ r.booked \in Nat
  BY DEF OrderType

\* An order with another row, venue state, mapping and fills: its quote stays.
Moved(r, row, venue, mapped, filled, booked) ==
    [row |-> row, venue |-> venue, mapped |-> mapped, side |-> r.side,
     price |-> r.price, post |-> r.post, filled |-> filled, booked |-> booked]

\* The step turns the order o into this, and leaves the others.
Becomes(o, row, venue, mapped, filled, booked) ==
    order' = [order EXCEPT ![o] = Moved(order[o], row, venue, mapped, filled, booked)]

\* An order that moves keeps its quote and its types, and the others stay.
LEMMA MovedType ==
  ASSUME Types
  PROVE  \A o \in Ids :
         \A w \in {"none", "OPEN", "PENDING", "UNKNOWN", "CANCELED", "FILLED", "FAILED"},
            v \in {"none", "sent", "live", "closed", "filled", "refused"},
            m \in BOOLEAN, n \in Nat, b \in Nat :
           Becomes(o, w, v, m, n, b) =>
             /\ BookType'
             /\ \A p \in Ids : p # o => order'[p] = order[p]
             /\ order'[o].row = w /\ order'[o].venue = v /\ order'[o].mapped = m
             /\ order'[o].post = order[o].post
             /\ order'[o].filled = n /\ order'[o].booked = b
<1> TAKE o \in Ids
<1> TAKE w \in {"none", "OPEN", "PENDING", "UNKNOWN", "CANCELED", "FILLED", "FAILED"},
         v \in {"none", "sent", "live", "closed", "filled", "refused"},
         m \in BOOLEAN, n \in Nat, b \in Nat
<1> HAVE Becomes(o, w, v, m, n, b)
<1> DEFINE r == Moved(order[o], w, v, m, n, b)
<1>1. OrderType(r)
  BY DEF OrderType, Moved
<1>2. /\ r.row = w /\ r.venue = v /\ r.mapped = m /\ r.post = order[o].post
      /\ r.filled = n /\ r.booked = b
  BY DEF Moved
<1> HIDE DEF r
<1>3. order' = [order EXCEPT ![o] = r]
  BY DEF r, Becomes
<1>4. DOMAIN order = Ids /\ \A p \in Ids : OrderType(order[p])
  BY DEF Types, BookType
<1>5. order'[o] = r /\ \A p \in Ids : p # o => order'[p] = order[p]
  BY <1>3, <1>4
<1>6. DOMAIN order' = Ids
  BY <1>3, <1>4
<1> QED
  BY <1>1, <1>2, <1>4, <1>5, <1>6 DEF BookType

\* What each step makes of an order.
LEMMA MovedBy ==
  ASSUME Types, NEW o \in Ids
  PROVE  LET r == order[o] IN
         /\ CancelConfirmed(o) =>
              Becomes(o, "CANCELED", "closed", r.mapped, r.filled, r.booked)
         /\ CancelMatched(o) =>
              Becomes(o, "UNKNOWN", r.venue, r.mapped, r.filled, r.booked)
         /\ \A w, m, s : Outcome(o, w, m, s) =>
              Becomes(o, w, r.venue, m, r.filled, r.booked)
         /\ ProcessFill(o) =>
              Becomes(o, IF r.booked + 1 = Lot THEN "FILLED" ELSE "OPEN", r.venue,
                      r.mapped, r.filled, r.booked + 1)
         /\ StreamCancel(o) =>
              Becomes(o, "CANCELED", r.venue, r.mapped, r.filled, r.booked)
         /\ VenueStep(o) =>
              \/ /\ r.venue = "sent"
                 /\ \E v \in {"live", "refused"} :
                      Becomes(o, r.row, v, r.mapped, r.filled, r.booked)
              \/ /\ r.venue = "live"
                 /\ Becomes(o, r.row, "closed", r.mapped, r.filled, r.booked)
              \/ /\ r.venue = "live"
                 /\ Becomes(o, r.row, IF r.filled + 1 = Lot THEN "filled" ELSE r.venue,
                            r.mapped, r.filled + 1, r.booked)
<1> DEFINE r == order[o]
<1>1. /\ DOMAIN order = Ids
      /\ r = [row |-> r.row, venue |-> r.venue, mapped |-> r.mapped, side |-> r.side,
              price |-> r.price, post |-> r.post, filled |-> r.filled,
              booked |-> r.booked]
  BY OrderFields DEF Types, BookType
<1>2. CancelConfirmed(o) =>
        Becomes(o, "CANCELED", "closed", r.mapped, r.filled, r.booked)
  BY <1>1 DEF CancelConfirmed, Moved, Becomes
<1>3. CancelMatched(o) =>
        Becomes(o, "UNKNOWN", r.venue, r.mapped, r.filled, r.booked)
  BY <1>1 DEF CancelMatched, Moved, Becomes
<1>4. \A w, m, s : Outcome(o, w, m, s) =>
        Becomes(o, w, r.venue, m, r.filled, r.booked)
  BY <1>1 DEF Outcome, Moved, Becomes
<1>5. ProcessFill(o) =>
        Becomes(o, IF r.booked + 1 = Lot THEN "FILLED" ELSE "OPEN", r.venue,
                r.mapped, r.filled, r.booked + 1)
  <2> HAVE ProcessFill(o)
  <2> DEFINE b == r.booked + 1
             w == IF r.booked + 1 = Lot THEN "FILLED" ELSE "OPEN"
  <2>1. order' = [order EXCEPT ![o].booked = b, ![o].row = w]
    BY DEF ProcessFill
  <2> HIDE DEF b, w
  <2>2. [r EXCEPT !.booked = b, !.row = w] = Moved(order[o], w, r.venue, r.mapped, r.filled, b)
    <3>1. [r EXCEPT !.booked = b] = Moved(order[o], r.row, r.venue, r.mapped, r.filled, b)
      BY <1>1 DEF Moved
    <3>2. [Moved(order[o], r.row, r.venue, r.mapped, r.filled, b) EXCEPT !.row = w]
             = Moved(order[o], w, r.venue, r.mapped, r.filled, b)
      BY DEF Moved
    <3>3. [r EXCEPT !.booked = b, !.row = w] = [[r EXCEPT !.booked = b] EXCEPT !.row = w]
      OBVIOUS
    <3> QED
      BY <3>1, <3>2, <3>3
  <2>3. order' = [order EXCEPT ![o] = [r EXCEPT !.booked = b, !.row = w]]
    BY <1>1, <2>1
  <2> QED
    BY <2>2, <2>3 DEF b, w, Becomes
<1>6. StreamCancel(o) =>
        Becomes(o, "CANCELED", r.venue, r.mapped, r.filled, r.booked)
  BY <1>1 DEF StreamCancel, Moved, Becomes
<1>7. ASSUME NEW v, order' = [order EXCEPT ![o].venue = v]
      PROVE  Becomes(o, r.row, v, r.mapped, r.filled, r.booked)
  <2>1. [r EXCEPT !.venue = v] = Moved(order[o], r.row, v, r.mapped, r.filled, r.booked)
    BY <1>1 DEF Moved
  <2>2. order' = [order EXCEPT ![o] = [r EXCEPT !.venue = v]]
    BY <1>1, <1>7
  <2> QED
    BY <2>1, <2>2 DEF Becomes
<1>8. ASSUME order' = [order EXCEPT ![o].filled = @ + 1,
                         ![o].venue = IF order[o].filled + 1 = Lot THEN "filled" ELSE @]
      PROVE  Becomes(o, r.row, IF r.filled + 1 = Lot THEN "filled" ELSE r.venue,
                     r.mapped, r.filled + 1, r.booked)
  <2> DEFINE n == r.filled + 1
             v == IF r.filled + 1 = Lot THEN "filled" ELSE r.venue
  <2>1. order' = [order EXCEPT ![o].filled = n, ![o].venue = v]
    BY <1>8
  <2> HIDE DEF n, v
  <2>2. [r EXCEPT !.filled = n, !.venue = v] = Moved(order[o], r.row, v, r.mapped, n, r.booked)
    <3>1. [r EXCEPT !.filled = n] = Moved(order[o], r.row, r.venue, r.mapped, n, r.booked)
      BY <1>1 DEF Moved
    <3>2. [Moved(order[o], r.row, r.venue, r.mapped, n, r.booked) EXCEPT !.venue = v]
             = Moved(order[o], r.row, v, r.mapped, n, r.booked)
      BY DEF Moved
    <3>3. [r EXCEPT !.filled = n, !.venue = v] = [[r EXCEPT !.filled = n] EXCEPT !.venue = v]
      OBVIOUS
    <3> QED
      BY <3>1, <3>2, <3>3
  <2>3. order' = [order EXCEPT ![o] = [r EXCEPT !.filled = n, !.venue = v]]
    BY <1>1, <2>1
  <2> QED
    BY <2>2, <2>3 DEF n, v, Becomes
<1>9. VenueStep(o) =>
        \/ /\ r.venue = "sent"
           /\ \E v \in {"live", "refused"} :
                Becomes(o, r.row, v, r.mapped, r.filled, r.booked)
        \/ /\ r.venue = "live"
           /\ Becomes(o, r.row, "closed", r.mapped, r.filled, r.booked)
        \/ /\ r.venue = "live"
           /\ Becomes(o, r.row, IF r.filled + 1 = Lot THEN "filled" ELSE r.venue,
                      r.mapped, r.filled + 1, r.booked)
  <2> HAVE VenueStep(o)
  <2>1. CASE order[o].venue = "sent"
             /\ \E v \in {"live", "refused"} : order' = [order EXCEPT ![o].venue = v]
    BY <1>7, <2>1
  <2>2. CASE order[o].venue = "live" /\ order' = [order EXCEPT ![o].venue = "closed"]
    BY <1>7, <2>2
  <2>3. CASE order[o].venue = "live"
             /\ order' = [order EXCEPT ![o].filled = @ + 1,
                            ![o].venue = IF order[o].filled + 1 = Lot THEN "filled" ELSE @]
    BY <1>8, <2>3
  <2> QED
    BY <2>1, <2>2, <2>3 DEF VenueStep
<1> QED
  BY <1>2, <1>3, <1>4, <1>5, <1>6, <1>9

\* The call for the quote d is out, as the order o.
Calling(o, d) == job' = [job EXCEPT !.want = @ \ {d}, !.calls = @ \union {o}]

\* The order that is sent is new.
LEMMA Sent ==
  ASSUME Types, NEW d, CreateSend(d)
  PROVE  \E o \in Ids :
            /\ order[o].row = "none" /\ order'[o].row = "PENDING"
            /\ order'[o].venue = "sent" /\ order'[o].mapped = FALSE
            /\ order'[o].filled = 0 /\ order'[o].booked = 0
            /\ order'[o].side = d.side /\ order'[o].post = d.post
            /\ \A p \in Ids : p # o => order'[p] = order[p]
            /\ BookType'
            /\ Calling(o, d)
<1>1. PICK o \in Ids :
        /\ order[o].row = "none"
        /\ order' = [order EXCEPT ![o] =
             [NoOrder EXCEPT !.row = "PENDING", !.venue = "sent", !.side = d.side,
                             !.price = d.price, !.post = d.post]]
        /\ Calling(o, d)
  BY DEF CreateSend, Calling
<1> DEFINE n == [NoOrder EXCEPT !.row = "PENDING", !.venue = "sent", !.side = d.side,
                                !.price = d.price, !.post = d.post]
<1>3. OrderType(n)
  BY DEF OrderType, NoOrder
<1>4. /\ n.row = "PENDING" /\ n.venue = "sent" /\ n.mapped = FALSE
      /\ n.filled = 0 /\ n.booked = 0 /\ n.side = d.side /\ n.post = d.post
  BY DEF NoOrder
<1> HIDE DEF n
<1>5. order' = [order EXCEPT ![o] = n]
  BY <1>1 DEF n
<1>6. order'[o] = n /\ \A p \in Ids : p # o => order'[p] = order[p]
  BY <1>5 DEF Types, BookType
<1>7. BookType'
  BY <1>3, <1>5, <1>6 DEF Types, BookType
<1> QED
  BY <1>1, <1>4, <1>6, <1>7

\* A reconciliation pass moves the row of a mapped or confirmed order.
LEMMA Reconciled ==
  ASSUME Types, Reconcile
  PROVE  /\ BookType'
         /\ \A o \in Ids :
              \/ order'[o] = order[o]
              \/ /\ ~(order[o].row \in {"PENDING", "UNKNOWN"} /\ ~order[o].mapped)
                 /\ order[o].row \in UnresolvedRows
                 /\ \E w \in {"OPEN", "CANCELED", "FILLED"} :
                      /\ order'[o] = Moved(order[o], w, order[o].venue, order[o].mapped,
                                           order[o].filled, order[o].booked)
                      /\ order[o].venue = "live" => w = "OPEN"
<1> DEFINE blind == {o \in Ids : order[o].row \in {"PENDING", "UNKNOWN"}
                                 /\ ~order[o].mapped}
           M(o, w) == Moved(order[o], w, order[o].venue, order[o].mapped, order[o].filled,
                            order[o].booked)
<1>1. order' = [o \in Ids |->
         IF order[o].row \notin UnresolvedRows \/ o \in blind THEN order[o]
         ELSE [order[o] EXCEPT !.row =
                 CASE order[o].venue = "live"   -> "OPEN"
                   [] order[o].venue = "closed" -> "CANCELED"
                   [] OTHER                     -> "FILLED"]]
  BY DEF Reconcile
<1>2. \A o \in Ids : \A w : [order[o] EXCEPT !.row = w] = M(o, w)
  <2> TAKE o \in Ids
  <2> TAKE w
  <2>1. OrderType(order[o])
    BY DEF Types, BookType
  <2> QED
    BY <2>1, OrderFields DEF Moved
<1>3. \A o \in Ids : \A w \in {"OPEN", "CANCELED", "FILLED"} : OrderType(M(o, w))
  <2> TAKE o \in Ids
  <2> TAKE w \in {"OPEN", "CANCELED", "FILLED"}
  <2>1. OrderType(order[o])
    BY DEF Types, BookType
  <2> DEFINE m == M(o, w)
  <2>2. m \in [row : {"OPEN", "CANCELED", "FILLED"},
               venue : {"none", "sent", "live", "closed", "filled", "refused"},
               mapped : BOOLEAN, side : {m.side}, price : {m.price}, post : {m.post},
               filled : Nat, booked : Nat]
    BY <2>1, OrderFields DEF Moved
  <2> HIDE DEF m
  <2> QED
    BY <2>2 DEF OrderType, m
<1> HIDE DEF M
<1>4. ASSUME NEW o \in Ids
      PROVE  /\ OrderType(order'[o])
             /\ \/ order'[o] = order[o]
                \/ /\ o \notin blind /\ order[o].row \in UnresolvedRows
                   /\ \E w \in {"OPEN", "CANCELED", "FILLED"} :
                        order'[o] = M(o, w) /\ (order[o].venue = "live" => w = "OPEN")
  <2> HIDE DEF blind
  <2>1. CASE order[o].row \notin UnresolvedRows \/ o \in blind
    <3>1. order'[o] = order[o]
      BY <1>1, <2>1
    <3>2. OrderType(order[o])
      BY DEF Types, BookType
    <3> QED
      BY <3>1, <3>2
  <2>2. CASE ~(order[o].row \notin UnresolvedRows \/ o \in blind)
    <3>1. CASE order[o].venue = "live"
      BY <1>1, <1>2, <1>3, <2>2, <3>1
    <3>2. CASE order[o].venue = "closed"
      BY <1>1, <1>2, <1>3, <2>2, <3>2
    <3>3. CASE order[o].venue \notin {"live", "closed"}
      BY <1>1, <1>2, <1>3, <2>2, <3>3
    <3> QED
      BY <3>1, <3>2, <3>3
  <2> QED
    BY <2>1, <2>2
<1>5. BookType'
  BY <1>1, <1>4 DEF BookType
<1> QED
  BY <1>4, <1>5 DEF M

\* A status message is a message.
LEMMA PublishedType ==
  ASSUME ListType, NEW o \in Ids
  PROVE  Published(o) \in Seq(Messages)
<1>1. [kind |-> "status", id |-> o] \in Messages
  BY DEF Messages
<1> QED
  BY <1>1 DEF Published, ListType

\* The initial states have the types.
LEMMA TypesInit == Init => Types
<1> SUFFICES ASSUME Init PROVE Types
  OBVIOUS
<1>1. JobType
  BY DEF Init, JobType, NoJob
<1>2. FlagType
  BY DEF Init, FlagType
<1>3. ListType
  <2>1. active = [i \in 1 .. 0 |-> active[i]]
    BY DEF Init
  <2>2. active \in Seq(ToSet(active)) /\ DOMAIN active = 1 .. 0
    BY <2>1, SequenceOf
  <2>3. IdsIn(active) \subseteq Ids
    BY <2>2, IdsOf
  <2> QED
    BY <2>2, <2>3 DEF Init, ListType
<1>4. BookType
  <2>1. OrderType(NoOrder)
    BY DEF OrderType, NoOrder
  <2> QED
    BY <2>1 DEF Init, BookType
<1> QED
  BY <1>1, <1>2, <1>3, <1>4 DEF Types

\* Types through the steps around the engine.
LEMMA TypesWorld ==
  ASSUME Types,
         \/ \E msg \in Commands : Control(msg)
         \/ \E o \in Ids : VenueStep(o) \/ ProcessFill(o) \/ StreamCancel(o)
         \/ Reconcile
         \/ \E c \in BOOLEAN : Contract(c)
  PROVE  Types'
<1>1. JobType' /\ UNCHANGED <<pc, flags, active>>
  BY DEF Control, VenueStep, ProcessFill, StreamCancel, Reconcile, Contract, engine,
         Types, JobType
<1>2. ASSUME UNCHANGED safety PROVE FlagType'
  BY <1>1, <1>2 DEF Types, FlagType
<1>3. ASSUME inbox' \in Seq(Messages) PROVE ListType'
  BY <1>1, <1>3 DEF Types, ListType
<1>4. inbox \in Seq(Messages) /\ BookType
  BY DEF Types, ListType
<1>5. ASSUME NEW msg \in Commands, Control(msg) PROVE Types'
  <2>1. [kind |-> msg, id |-> 0] \in Messages
    BY EngineAssumption DEF Messages
  <2>2. inbox' \in Seq(Messages)
    BY <1>4, <1>5, <2>1 DEF Control
  <2>3. UNCHANGED <<order, safety>>
    BY <1>5 DEF Control, world
  <2> QED
    BY <1>1, <1>2, <1>3, <1>4, <2>2, <2>3 DEF Types, BookType
<1>6. ASSUME NEW o \in Ids, VenueStep(o) PROVE Types'
  <2> DEFINE r == order[o]
  <2>1. /\ r.row \in {"none", "OPEN", "PENDING", "UNKNOWN", "CANCELED", "FILLED", "FAILED"}
        /\ r.venue \in {"none", "sent", "live", "closed", "filled", "refused"}
        /\ r.mapped \in BOOLEAN /\ r.filled \in Nat /\ r.booked \in Nat
    BY <1>4, OrderFields DEF BookType
  <2>2. PICK w \in {"none", "OPEN", "PENDING", "UNKNOWN", "CANCELED", "FILLED", "FAILED"},
             v \in {"none", "sent", "live", "closed", "filled", "refused"},
             m \in BOOLEAN, n \in Nat, b \in Nat :
          Becomes(o, w, v, m, n, b)
    <3>1. r.filled + 1 \in Nat
          /\ (IF r.filled + 1 = Lot THEN "filled" ELSE r.venue)
                \in {"none", "sent", "live", "closed", "filled", "refused"}
      BY <2>1
    <3> QED
      BY <1>6, <2>1, <3>1, MovedBy
  <2>3. BookType'
    BY <2>2, MovedType
  <2>4. UNCHANGED <<inbox, safety>>
    BY <1>6 DEF VenueStep
  <2> QED
    BY <1>1, <1>2, <1>3, <1>4, <2>3, <2>4 DEF Types
<1>7. ASSUME NEW o \in Ids, ProcessFill(o) \/ StreamCancel(o) PROVE Types'
  <2> DEFINE r == order[o]
  <2>1. /\ r.venue \in {"none", "sent", "live", "closed", "filled", "refused"}
        /\ r.mapped \in BOOLEAN /\ r.filled \in Nat /\ r.booked \in Nat
    BY <1>4, OrderFields DEF BookType
  <2>2. PICK w \in {"none", "OPEN", "PENDING", "UNKNOWN", "CANCELED", "FILLED", "FAILED"},
             v \in {"none", "sent", "live", "closed", "filled", "refused"},
             m \in BOOLEAN, n \in Nat, b \in Nat :
          Becomes(o, w, v, m, n, b)
    <3>1. r.booked + 1 \in Nat
          /\ (IF r.booked + 1 = Lot THEN "FILLED" ELSE "OPEN")
                \in {"none", "OPEN", "PENDING", "UNKNOWN", "CANCELED", "FILLED", "FAILED"}
      BY <2>1
    <3> QED
      BY <1>7, <2>1, <3>1, MovedBy
  <2>3. BookType'
    BY <2>2, MovedType
  <2>4. Published(o) \in Seq(Messages)
    BY PublishedType DEF Types
  <2>5. inbox' \in Seq(Messages)
    BY <1>4, <1>7, <2>4 DEF ProcessFill, StreamCancel
  <2>6. FlagType'
    BY <1>1, <1>7 DEF ProcessFill, StreamCancel, Types, FlagType
  <2> QED
    BY <1>1, <1>3, <2>3, <2>5, <2>6 DEF Types
<1>8. CASE Reconcile
  <2>1. BookType' /\ UNCHANGED inbox
    BY <1>8, Reconciled DEF Reconcile
  <2>2. FlagType'
    BY <1>1, <1>8 DEF Reconcile, Types, FlagType
  <2> QED
    BY <1>1, <1>3, <1>4, <2>1, <2>2 DEF Types
<1>9. ASSUME NEW c \in BOOLEAN, Contract(c) PROVE Types'
  <2>1. UNCHANGED <<order, inbox, safety>>
    BY <1>9 DEF Contract
  <2> QED
    BY <1>1, <1>2, <1>3, <1>4, <2>1 DEF Types, BookType
<1> QED
  BY <1>5, <1>6, <1>7, <1>8, <1>9

\* A job that goes on, with another set of confirmed orders.
LEMMA JobGoesOn ==
  ASSUME JobType, NEW k, NEW f, NEW a, NEW q, NEW c, k \subseteq Ids, f \in BOOLEAN,
         job' = [why |-> job.why, wait |-> a, ok |-> k, failed |-> f, want |-> q, calls |-> c]
  PROVE  JobType'
<1>1. job.why \in Reasons \union {"none"}
  BY JobFields
<1> QED
  BY <1>1 DEF JobType

\* Types through the order path.
LEMMA TypesCancel ==
  ASSUME Types, NEW o \in Ids, CancelReturns(o)
  PROVE  Types'
<1>1. JobType /\ ListType /\ FlagType
  BY DEF Types
<1>2. CancelConfirmed(o) \/ CancelMatched(o) \/ CancelUnconfirmed(o)
  BY DEF CancelReturns
<1>3. UNCHANGED <<active, flags, pc, inbox>>
  BY DEF CancelReturns
<1>4. ListType'
  BY <1>1, <1>3 DEF ListType
<1>5. FlagType'
  <2>1. safety' \in [halted : BOOLEAN, reconciled : BOOLEAN]
    BY <1>1, <1>2 DEF FlagType, CancelConfirmed, CancelMatched, CancelUnconfirmed, HaltIf
  <2> QED
    BY <1>1, <1>3, <2>1 DEF FlagType
<1>6. JobType'
  <2>1. /\ job.why \in Reasons \union {"none"} /\ job.ok \subseteq Ids
        /\ job.failed \in BOOLEAN
        /\ job = [why |-> job.why, wait |-> job.wait, ok |-> job.ok,
                  failed |-> job.failed, want |-> job.want, calls |-> job.calls]
    BY <1>1, JobFields
  <2>2. PICK a, k, f : /\ k \subseteq Ids /\ f \in BOOLEAN
                       /\ job' = [why |-> job.why, wait |-> a, ok |-> k, failed |-> f,
                                  want |-> job.want, calls |-> job.calls]
    <3>1. CASE CancelConfirmed(o)
      <4> DEFINE a == job.wait \ {o}
                 k == job.ok \union {o}
      <4>1. job' = [job EXCEPT !.wait = a, !.ok = k]
        BY <3>1 DEF CancelConfirmed
      <4>2. k \subseteq Ids
        BY <2>1
      <4> HIDE DEF a, k
      <4>3. job' = [why |-> job.why, wait |-> a, ok |-> k, failed |-> job.failed,
                    want |-> job.want, calls |-> job.calls]
        BY <2>1, <4>1
      <4> QED
        BY <2>1, <4>2, <4>3
    <3>2. CASE CancelMatched(o) \/ CancelUnconfirmed(o)
      <4> DEFINE a == job.wait \ {o}
      <4>1. job' = [job EXCEPT !.wait = a, !.failed = TRUE]
        BY <3>2 DEF CancelMatched, CancelUnconfirmed
      <4> HIDE DEF a
      <4>2. job' = [why |-> job.why, wait |-> a, ok |-> job.ok, failed |-> TRUE,
                    want |-> job.want, calls |-> job.calls]
        BY <2>1, <4>1
      <4> QED
        BY <2>1, <4>2
    <3> QED
      BY <1>2, <3>1, <3>2
  <2> QED
    BY <2>1, <2>2 DEF JobType
<1>7. BookType'
  <2>1. CASE CancelUnconfirmed(o)
    BY <2>1 DEF CancelUnconfirmed, Types, BookType
  <2>2. CASE CancelConfirmed(o) \/ CancelMatched(o)
    <3>1. /\ order[o].venue \in {"none", "sent", "live", "closed", "filled", "refused"}
          /\ order[o].mapped \in BOOLEAN /\ order[o].filled \in Nat
          /\ order[o].booked \in Nat
      BY OrderFields DEF Types, BookType
    <3>2. PICK w \in {"CANCELED", "UNKNOWN"},
               v \in {"none", "sent", "live", "closed", "filled", "refused"} :
            Becomes(o, w, v, order[o].mapped, order[o].filled, order[o].booked)
      BY <2>2, <3>1, MovedBy
    <3> QED
      BY <3>1, <3>2, MovedType
  <2> QED
    BY <1>2, <2>1, <2>2
<1> QED
  BY <1>4, <1>5, <1>6, <1>7 DEF Types

\* An order whose id does not come back: it halts, or it is no quote that rests.
Excused(o) == \/ safety'.halted \/ order[o].venue = "refused"
              \/ order[o].filled > 0 /\ ~order[o].post

\* What an answer of create_order does to the job, the row and the safety state.
LEMMA Answered ==
  ASSUME Types, NEW o \in Ids, CreateReturns(o)
  PROVE  \E w \in {"OPEN", "UNKNOWN", "FAILED", "PENDING"}, m \in BOOLEAN :
           /\ Becomes(o, w, order[o].venue, m, order[o].filled, order[o].booked)
           /\ JobType' /\ FlagType' /\ pc' = "place" /\ job'.calls = job.calls \ {o}
           /\ \/ job'.ok = job.ok \union {o} /\ w = "OPEN" /\ m = TRUE
                 /\ order[o].venue \in {"live", "closed", "filled"}
              \/ /\ job'.ok = job.ok /\ Excused(o) /\ w # "OPEN"
                 /\ w = "FAILED" => order[o].venue = "refused"
                 /\ m = TRUE => order[o].filled > 0
<1>1. JobType /\ FlagType
  BY DEF Types
<1>2. /\ job.why \in Reasons \union {"none"} /\ job.ok \subseteq Ids
      /\ job.failed \in BOOLEAN
      /\ job = [why |-> job.why, wait |-> job.wait, ok |-> job.ok,
                failed |-> job.failed, want |-> job.want, calls |-> job.calls]
  BY <1>1, JobFields
<1>3. safety.halted \in BOOLEAN /\ safety.reconciled \in BOOLEAN
      /\ pc = "place" /\ pc' = pc /\ flags' = flags
  BY <1>1 DEF CreateReturns, FlagType
<1>4. \A w, m, s : Outcome(o, w, m, s) =>
        Becomes(o, w, order[o].venue, m, order[o].filled, order[o].booked) /\ safety' = s
  BY MovedBy DEF Outcome
<1> DEFINE c == job.calls \ {o}
           k == job.ok \union {o}
<1>5. ASSUME job' = [job EXCEPT !.calls = c]
      PROVE  JobType' /\ job'.ok = job.ok /\ job'.calls = c
  <2> HIDE DEF c
  <2>1. job' = [why |-> job.why, wait |-> job.wait, ok |-> job.ok, failed |-> job.failed,
                want |-> job.want, calls |-> c]
    BY <1>2, <1>5
  <2> QED
    BY <1>2, <2>1 DEF JobType
<1>6. ASSUME job' = [job EXCEPT !.calls = c, !.ok = k]
      PROVE  JobType' /\ job'.ok = k /\ job'.calls = c
  <2>1. k \subseteq Ids
    BY <1>2
  <2> HIDE DEF c, k
  <2>2. job' = [why |-> job.why, wait |-> job.wait, ok |-> k, failed |-> job.failed,
                want |-> job.want, calls |-> c]
    BY <1>2, <1>6
  <2> QED
    BY <1>2, <2>1, <2>2 DEF JobType
<1>7. ASSUME NEW s, s \in [halted : BOOLEAN, reconciled : BOOLEAN], safety' = s
      PROVE  FlagType'
  BY <1>1, <1>3, <1>7 DEF FlagType
<1>8. /\ safety \in [halted : BOOLEAN, reconciled : BOOLEAN]
      /\ HaltIf(TRUE) \in [halted : BOOLEAN, reconciled : BOOLEAN] /\ HaltIf(TRUE).halted
  BY <1>1 DEF FlagType, HaltIf
<1>9. CASE /\ order[o].venue \in {"live", "closed", "filled"}
           /\ Outcome(o, "OPEN", TRUE, safety)
           /\ job' = [job EXCEPT !.calls = @ \ {o}, !.ok = @ \union {o}]
  <2>1. Becomes(o, "OPEN", order[o].venue, TRUE, order[o].filled, order[o].booked)
        /\ FlagType'
    BY <1>4, <1>7, <1>8, <1>9
  <2> QED
    BY <1>3, <1>6, <1>9, <2>1
<1>10. CASE /\ order[o].filled > 0
            /\ Outcome(o, "UNKNOWN", TRUE,
                 [halted |-> safety.halted \/ order[o].post, reconciled |-> FALSE])
            /\ job' = [job EXCEPT !.calls = @ \ {o}]
  <2> DEFINE s == [halted |-> safety.halted \/ order[o].post, reconciled |-> FALSE]
  <2>1. s \in [halted : BOOLEAN, reconciled : BOOLEAN] /\ (s.halted \/ ~order[o].post)
    BY <1>3
  <2>2. Outcome(o, "UNKNOWN", TRUE, s)
    BY <1>10
  <2> HIDE DEF s
  <2>3. /\ Becomes(o, "UNKNOWN", order[o].venue, TRUE, order[o].filled, order[o].booked)
        /\ safety' = s
    BY <1>4, <2>2
  <2>4. FlagType'
    BY <1>7, <2>1, <2>3
  <2>5. JobType' /\ job'.ok = job.ok /\ job'.calls = job.calls \ {o}
    BY <1>5, <1>10
  <2>6. Excused(o)
    BY <1>10, <2>1, <2>3 DEF Excused
  <2> QED
    BY <1>3, <1>10, <2>3, <2>4, <2>5, <2>6
<1>11. CASE /\ order[o].venue = "refused" /\ Outcome(o, "FAILED", FALSE, safety)
            /\ job' = [job EXCEPT !.calls = @ \ {o}]
  <2>1. Becomes(o, "FAILED", order[o].venue, FALSE, order[o].filled, order[o].booked)
        /\ FlagType'
    BY <1>4, <1>7, <1>8, <1>11
  <2>2. JobType' /\ job'.ok = job.ok /\ job'.calls = job.calls \ {o}
    BY <1>5, <1>11
  <2>3. Excused(o)
    BY <1>11, <2>1 DEF Excused
  <2> QED
    BY <1>3, <1>11, <2>1, <2>2, <2>3
<1>12. CASE /\ Outcome(o, "UNKNOWN", FALSE, HaltIf(TRUE))
            /\ job' = [job EXCEPT !.calls = @ \ {o}]
  <2>1. /\ Becomes(o, "UNKNOWN", order[o].venue, FALSE, order[o].filled, order[o].booked)
        /\ FlagType' /\ safety'.halted
    BY <1>4, <1>7, <1>8, <1>12
  <2>2. JobType' /\ job'.ok = job.ok /\ job'.calls = job.calls \ {o}
    BY <1>5, <1>12
  <2>3. Excused(o)
    BY <1>12, <2>1 DEF Excused
  <2> QED
    BY <1>3, <1>12, <2>1, <2>2, <2>3
<1>13. CASE /\ Outcome(o, "PENDING", FALSE, HaltIf(TRUE))
            /\ job' = [job EXCEPT !.calls = @ \ {o}]
  <2>1. /\ Becomes(o, "PENDING", order[o].venue, FALSE, order[o].filled, order[o].booked)
        /\ FlagType' /\ safety'.halted
    BY <1>4, <1>7, <1>8, <1>13
  <2>2. JobType' /\ job'.ok = job.ok /\ job'.calls = job.calls \ {o}
    BY <1>5, <1>13
  <2>3. Excused(o)
    BY <1>13, <2>1 DEF Excused
  <2> QED
    BY <1>3, <1>13, <2>1, <2>2, <2>3
<1> QED
  BY <1>9, <1>10, <1>11, <1>12, <1>13 DEF CreateReturns

\* What a tick makes of active_orders: cancels first, then places, or nothing.
LEMMA Synced ==
  ASSUME NEW b, SyncOrdersDiff(b)
  PROVE  \/ \E s, w : Gather("diff", s, w)
         \/ pc' = "place" /\ \E w : job' = [NoJob EXCEPT !.why = "diff", !.want = w]
         \/ Idle
<1>1. CASE Differences(b).stale # <<>>
  BY <1>1 DEF SyncOrdersDiff
<1>2. CASE Differences(b).stale = <<>> /\ Differences(b).want # {}
  BY <1>2 DEF SyncOrdersDiff
<1>3. CASE Differences(b).stale = <<>> /\ Differences(b).want = {}
  BY <1>3 DEF SyncOrdersDiff
<1> QED
  BY <1>1, <1>2, <1>3

\* Where a tick takes the engine.
LEMMA Ticked ==
  ASSUME NEW b, OnTick(b)
  PROVE  /\ pc = "idle" /\ ~flags.suspended
         /\ UNCHANGED <<active, flags, inbox, safety, starts, world>>
         /\ \/ Gather("pause", active, {}) \/ Gather("complete", active, {})
            \/ \E s, w : Gather("diff", s, w)
            \/ pc' = "place" /\ \E w : job' = [NoJob EXCEPT !.why = "diff", !.want = w]
            \/ Idle
<1>1. \/ CancelAll("pause", active) \/ CancelAll("complete", active)
      \/ SyncOrdersDiff(b)
  BY DEF OnTick
<1>2. pc = "idle" /\ ~flags.suspended
      /\ UNCHANGED <<active, flags, inbox, safety, starts, world>>
  BY DEF OnTick
<1> QED
  BY <1>1, <1>2, Synced DEF CancelAll

\* A tick keeps the types.
LEMMA TypesTick ==
  ASSUME Types, NEW b, OnTick(b)
  PROVE  Types'
<1>1. UNCHANGED <<active, flags, inbox, safety, order>>
  BY Ticked DEF world
<1>2. JobType' /\ pc' \in {"idle", "cancel", "place"}
  <2>1. ASSUME NEW why \in {"pause", "complete", "diff"}, NEW s, NEW w, Gather(why, s, w)
        PROVE  JobType' /\ pc' = "cancel"
    <3>1. why \in Reasons
      BY DEF Reasons
    <3> QED
      BY <2>1, <3>1, GatherType
  <2>2. ASSUME NEW w, job' = [NoJob EXCEPT !.why = "diff", !.want = w] PROVE JobType'
    BY <2>2 DEF NoJob, JobType, Reasons
  <2>3. Idle => JobType' /\ pc' = "idle"
    BY NoJobType DEF Idle
  <2> QED
    BY <2>1, <2>2, <2>3, Ticked
<1> QED
  BY <1>1, <1>2 DEF Types, FlagType, ListType, BookType

\* The start of the task keeps the types.
LEMMA TypesStart ==
  ASSUME Types, Bootstrap \/ Subscribe
  PROVE  Types'
<1>1. CASE Subscribe
  BY <1>1 DEF Subscribe, world, Types, JobType, FlagType, ListType, BookType
<1>2. CASE Bootstrap
  <2>1. JobType'
    BY <1>2, NoJobType DEF Bootstrap
  <2>2. FlagType' /\ BookType'
    BY <1>2 DEF Bootstrap, world, Types, FlagType, BookType
  <2>3. Unfilled \subseteq Ids
    BY DEF Unfilled
  <2>4. active' = Entries(Unfilled) /\ inbox' = <<>>
    BY <1>2 DEF Bootstrap, Rehydrated
  <2>5. IdsIn(active') \subseteq Ids /\ active' \in Seq(ToSet(active'))
    BY <2>3, <2>4, EntriesIds
  <2> QED
    BY <2>1, <2>2, <2>4, <2>5 DEF Types, ListType
<1> QED
  BY <1>1, <1>2

\* What active_orders becomes when a gather ends, and when quotes were placed.
LEMMA CancelsLeave ==
  ASSUME Types, CancelsDone
  PROVE  /\ IdsIn(active') = IdsIn(active) \ job.ok
         /\ active' \in Seq(ToSet(active'))
<1>1. active' = Without(active, job.ok) /\ active \in Seq(ToSet(active))
  BY DEF CancelsDone, Types, ListType
<1> QED
  BY <1>1, WithoutIds

\* The list when place_orders is done.
LEMMA PlacesAdd ==
  ASSUME Types, PlacesDone
  PROVE  /\ IdsIn(active') = IdsIn(active) \union job.ok
         /\ active' \in Seq(ToSet(active'))
<1>1. active' = active \o Placed /\ active \in Seq(ToSet(active)) /\ job.ok \subseteq Ids
  BY JobFields DEF PlacesDone, Types, ListType
<1> QED
  BY <1>1, PlacedIds, JoinedIds

\* Where the end of a gather takes the engine.
LEMMA Cancelled ==
  ASSUME Types, CancelsDone
  PROVE  /\ pc = "cancel" /\ job.wait = {}
         /\ UNCHANGED <<anchor, inbox, starts, world>>
         /\ flags' = [flags EXCEPT !.shutdown = @ \/ job.why = "complete"]
         /\ \/ job.why \in {"pause", "exit", "fault"} /\ Idle /\ UNCHANGED safety
            \/ job.why = "suspend" /\ Idle /\ safety' = HaltIf(job.failed)
            \/ /\ job.why = "complete" /\ Gather("finally", active', {})
               /\ safety' = HaltIf(job.failed)
            \/ /\ job.why = "finally" /\ pc' = "stopped" /\ job' = NoJob
               /\ safety' = HaltIf(job.failed)
            \/ /\ job.why = "diff" /\ job.failed /\ Idle
               /\ safety' = [halted |-> TRUE, reconciled |-> FALSE]
            \/ /\ job.why = "diff" /\ ~job.failed /\ UNCHANGED safety
               /\ Idle \/ (pc' = "place" /\ job' = [job EXCEPT !.ok = {}])
<1>1. /\ pc = "cancel" /\ job.wait = {}
      /\ UNCHANGED <<anchor, inbox, starts, world>>
      /\ flags' = [flags EXCEPT !.shutdown = @ \/ job.why = "complete"]
  BY DEF CancelsDone
<1>2. \/ job.why \in {"pause", "exit", "fault"} /\ Idle /\ UNCHANGED safety
      \/ job.why = "suspend" /\ Idle /\ safety' = HaltIf(job.failed)
      \/ /\ job.why = "complete" /\ CancelAll("finally", active')
         /\ safety' = HaltIf(job.failed)
      \/ /\ job.why = "finally" /\ pc' = "stopped" /\ job' = NoJob
         /\ safety' = HaltIf(job.failed)
      \/ /\ job.why = "diff" /\ job.failed /\ Idle
         /\ safety' = [halted |-> TRUE, reconciled |-> FALSE]
      \/ /\ job.why = "diff" /\ ~job.failed /\ UNCHANGED safety
         /\ Idle \/ (pc' = "place" /\ job' = [job EXCEPT !.ok = {}])
  BY DEF CancelsDone
<1> QED
  BY <1>1, <1>2 DEF CancelAll

\* The safety state with one more reason to halt.
LEMMA HaltIfType ==
  ASSUME FlagType, NEW c \in BOOLEAN
  PROVE  /\ HaltIf(c) \in [halted : BOOLEAN, reconciled : BOOLEAN]
         /\ HaltIf(c).halted = (safety.halted \/ c)
  BY DEF FlagType, HaltIf

\* The end of a gather keeps the types.
LEMMA TypesCancels ==
  ASSUME Types, CancelsDone
  PROVE  Types'
<1>1. JobType /\ FlagType /\ ListType /\ BookType
  BY DEF Types
<1>2. job.failed \in BOOLEAN
  BY <1>1, JobFields
<1>3. ListType'
  BY <1>1, CancelsLeave, Cancelled DEF ListType
<1>4. BookType'
  BY <1>1, Cancelled DEF world, BookType
<1>5. JobType' /\ pc' \in {"idle", "cancel", "place", "stopped"}
  <2>1. Idle => JobType' /\ pc' = "idle"
    BY NoJobType DEF Idle
  <2>2. ASSUME NEW s, NEW w, Gather("finally", s, w) PROVE JobType' /\ pc' = "cancel"
    <3>1. "finally" \in Reasons
      BY DEF Reasons
    <3> QED
      BY <2>2, <3>1, GatherType
  <2>3. job' = NoJob => JobType'
    BY NoJobType
  <2>4. ASSUME job' = [job EXCEPT !.ok = {}] PROVE JobType'
    <3>1. job' = [why |-> job.why, wait |-> job.wait, ok |-> {}, failed |-> job.failed,
                  want |-> job.want, calls |-> job.calls]
      BY <1>1, <2>4, JobFields
    <3>2. job.why \in Reasons \union {"none"} /\ job.failed \in BOOLEAN
      BY <1>1, JobFields
    <3> QED
      BY <3>1, <3>2 DEF JobType
  <2> QED
    BY <2>1, <2>2, <2>3, <2>4, Cancelled
<1>6. FlagType'
  <2>1. safety' \in [halted : BOOLEAN, reconciled : BOOLEAN]
    <3>1. safety \in [halted : BOOLEAN, reconciled : BOOLEAN]
          /\ HaltIf(job.failed) \in [halted : BOOLEAN, reconciled : BOOLEAN]
          /\ [halted |-> TRUE, reconciled |-> FALSE]
                \in [halted : BOOLEAN, reconciled : BOOLEAN]
      BY <1>1, <1>2, HaltIfType DEF FlagType
    <3> QED
      BY <3>1, Cancelled
  <2>2. flags' \in [suspended : BOOLEAN, exiting : BOOLEAN, shutdown : BOOLEAN]
    BY <1>1, Cancelled DEF FlagType
  <2> QED
    BY <1>5, <2>1, <2>2 DEF FlagType
<1> QED
  BY <1>3, <1>4, <1>5, <1>6 DEF Types

\* Placing the quotes keeps the types.
LEMMA TypesPlace ==
  ASSUME Types,
         PlacesDone \/ \E d \in job.want : CreateBlocked(d) \/ CreateSend(d)
  PROVE  Types'
<1>1. JobType /\ FlagType /\ ListType /\ BookType
  BY DEF Types
<1>2. /\ job.why \in Reasons \union {"none"} /\ job.ok \subseteq Ids
      /\ job.failed \in BOOLEAN
      /\ job = [why |-> job.why, wait |-> job.wait, ok |-> job.ok,
                failed |-> job.failed, want |-> job.want, calls |-> job.calls]
  BY <1>1, JobFields
<1>3. CASE PlacesDone
  <2>1. JobType' /\ pc' = "idle"
    BY <1>3, NoJobType DEF PlacesDone, Idle
  <2>2. FlagType' /\ BookType'
    BY <1>1, <1>3, <2>1 DEF PlacesDone, world, FlagType, BookType
  <2>3. ListType'
    BY <1>1, <1>2, <1>3, PlacesAdd DEF PlacesDone, ListType
  <2> QED
    BY <2>1, <2>2, <2>3 DEF Types
<1>4. ASSUME NEW d \in job.want, CreateBlocked(d) PROVE Types'
  <2> DEFINE q == job.want \ {d}
  <2>1. job' = [job EXCEPT !.want = q]
    BY <1>4 DEF CreateBlocked
  <2> HIDE DEF q
  <2>2. job' = [why |-> job.why, wait |-> job.wait, ok |-> job.ok, failed |-> job.failed,
                want |-> q, calls |-> job.calls]
    BY <1>2, <2>1
  <2>3. JobType'
    BY <1>2, <2>2 DEF JobType
  <2> QED
    BY <1>1, <1>4, <2>3 DEF CreateBlocked, world, Types, FlagType, ListType, BookType
<1>5. ASSUME NEW d \in job.want, CreateSend(d) PROVE Types'
  <2>1. PICK o \in Ids : BookType' /\ Calling(o, d)
    BY <1>5, Sent
  <2> DEFINE q == job.want \ {d}
             c == job.calls \union {o}
  <2>2. job' = [job EXCEPT !.want = q, !.calls = c]
    BY <2>1 DEF Calling
  <2> HIDE DEF q, c
  <2>3. job' = [why |-> job.why, wait |-> job.wait, ok |-> job.ok, failed |-> job.failed,
                want |-> q, calls |-> c]
    BY <1>2, <2>2
  <2>4. JobType'
    BY <1>2, <2>3 DEF JobType
  <2>5. UNCHANGED <<pc, active, flags, inbox, safety>>
    BY <1>5 DEF CreateSend
  <2> QED
    BY <1>1, <2>1, <2>4, <2>5 DEF Types, FlagType, ListType
<1> QED
  BY <1>3, <1>4, <1>5

\* Where a message takes the engine.
LEMMA Messaged ==
  ASSUME Types, OnMessage
  PROVE  /\ pc = "idle" /\ inbox # <<>> /\ inbox' = Tail(inbox)
         /\ UNCHANGED <<safety, starts, world>>
         /\ \/ /\ flags' = [flags EXCEPT !.suspended = TRUE] /\ active' = active
               /\ Gather("suspend", active, {})
            \/ /\ flags' = [flags EXCEPT !.suspended = FALSE]
               /\ UNCHANGED <<pc, job, active>>
            \/ UNCHANGED <<pc, job, active, flags>>
            \/ /\ flags' = [flags EXCEPT !.exiting = TRUE] /\ active' = active
               /\ Gather("exit", active, {})
            \/ /\ inbox[1].kind = "status" /\ UNCHANGED <<pc, job, flags>>
               /\ IdsIn(active') = IdsIn(active) \ {inbox[1].id}
               /\ active' \in Seq(ToSet(active'))
<1>1. /\ pc = "idle" /\ inbox # <<>> /\ inbox' = Tail(inbox)
      /\ UNCHANGED <<safety, starts, world>>
      /\ \/ OnSuspend \/ OnResume \/ OnGracefulExit
         \/ Head(inbox).kind = "status" /\ OnOrderStatus(Head(inbox).id)
  BY DEF OnMessage
<1>2. Head(inbox) = inbox[1]
  BY <1>1 DEF Types, ListType
<1>3. active \in Seq(ToSet(active))
  BY DEF Types, ListType
<1>4. CASE OnSuspend
  BY <1>1, <1>4 DEF OnSuspend, CancelAll
<1>5. CASE OnResume
  BY <1>1, <1>5 DEF OnResume
<1>6. CASE OnGracefulExit
  BY <1>1, <1>6 DEF OnGracefulExit, CancelAll, engine
<1>7. CASE Head(inbox).kind = "status" /\ OnOrderStatus(Head(inbox).id)
  <2>1. active' = Without(active, {inbox[1].id}) /\ UNCHANGED <<pc, job, flags>>
    BY <1>2, <1>7 DEF OnOrderStatus
  <2> QED
    BY <1>1, <1>2, <1>3, <1>7, <2>1, WithoutIds
<1> QED
  BY <1>1, <1>4, <1>5, <1>6, <1>7

\* A message keeps the types.
LEMMA TypesMessage ==
  ASSUME Types, OnMessage
  PROVE  Types'
<1>1. JobType /\ FlagType /\ ListType /\ BookType
  BY DEF Types
<1>2. BookType' /\ UNCHANGED safety
  BY <1>1, Messaged DEF world, BookType
<1>3. ASSUME NEW why \in {"suspend", "exit"}, Gather(why, active, {})
      PROVE  JobType' /\ pc' = "cancel"
  <2>1. why \in Reasons
    BY DEF Reasons
  <2> QED
    BY <1>3, <2>1, GatherType
<1>4. JobType' /\ pc' \in {"idle", "cancel"}
  BY <1>1, <1>3, Messaged DEF JobType
<1>5. FlagType'
  <2>1. flags' \in [suspended : BOOLEAN, exiting : BOOLEAN, shutdown : BOOLEAN]
    BY <1>1, Messaged DEF FlagType
  <2> QED
    BY <1>1, <1>2, <1>4, <2>1 DEF FlagType
<1>6. ListType'
  <2>1. inbox' \in Seq(Messages)
    BY <1>1, Messaged DEF ListType
  <2>2. active' \in Seq(ToSet(active')) /\ IdsIn(active') \subseteq Ids
    BY <1>1, Messaged DEF ListType
  <2> QED
    BY <2>1, <2>2 DEF ListType
<1> QED
  BY <1>2, <1>4, <1>5, <1>6 DEF Types

\* Where a fault or the supervisor takes the engine.
LEMMA TypesStop ==
  ASSUME Types, OnFault \/ StopTask
  PROVE  Types'
<1>1. JobType /\ FlagType /\ ListType /\ BookType
  BY DEF Types
<1>2. UNCHANGED <<inbox, order>>
  BY DEF OnFault, StopTask, world
<1>3. /\ flags' \in [suspended : BOOLEAN, exiting : BOOLEAN, shutdown : BOOLEAN]
      /\ safety' \in [halted : BOOLEAN, reconciled : BOOLEAN]
  BY <1>1, HaltIfType DEF OnFault, StopTask, FlagType
<1>4. JobType' /\ pc' \in {"cancel", "stopped"}
  <2>1. ASSUME NEW why \in {"fault", "finally"}, Gather(why, active', {})
        PROVE  JobType' /\ pc' = "cancel"
    <3>1. why \in Reasons
      BY DEF Reasons
    <3> QED
      BY <2>1, <3>1, GatherType
  <2>2. \/ Gather("fault", active', {}) \/ Gather("finally", active', {})
        \/ pc' = "stopped" /\ job' = NoJob
    BY DEF OnFault, StopTask, CancelAll
  <2> QED
    BY <2>1, <2>2, NoJobType
<1>5. active' \in Seq(ToSet(active')) /\ IdsIn(active') \subseteq Ids
  <2>1. \/ UNCHANGED active \/ active' = Without(active, job.ok)
        \/ active' = active \o Placed
    BY DEF OnFault, StopTask, Settled
  <2>2. active \in Seq(ToSet(active)) /\ IdsIn(active) \subseteq Ids /\ job.ok \subseteq Ids
    BY <1>1, JobFields DEF ListType
  <2>3. active' = Without(active, job.ok) =>
          IdsIn(active') = IdsIn(active) \ job.ok /\ active' \in Seq(ToSet(active'))
    BY <2>2, WithoutIds
  <2>4. active' = active \o Placed =>
          IdsIn(active') = IdsIn(active) \union job.ok /\ active' \in Seq(ToSet(active'))
    BY <2>2, PlacedIds, JoinedIds
  <2> QED
    BY <2>1, <2>2, <2>3, <2>4
<1> QED
  BY <1>1, <1>2, <1>3, <1>4, <1>5 DEF Types, FlagType, ListType, BookType

\* An answer to create_order keeps the types.
LEMMA TypesAnswer ==
  ASSUME Types, NEW o \in Ids, CreateReturns(o)
  PROVE  Types'
<1>1. PICK w \in {"OPEN", "UNKNOWN", "FAILED", "PENDING"}, m \in BOOLEAN :
        /\ Becomes(o, w, order[o].venue, m, order[o].filled, order[o].booked)
        /\ JobType' /\ FlagType'
  BY Answered
<1>2. /\ order[o].venue \in {"none", "sent", "live", "closed", "filled", "refused"}
      /\ order[o].filled \in Nat /\ order[o].booked \in Nat
  BY OrderFields DEF Types, BookType
<1>3. BookType'
  BY <1>1, <1>2, MovedType
<1>4. ListType'
  BY DEF CreateReturns, Types, ListType
<1> QED
  BY <1>1, <1>3, <1>4 DEF Types

\* Every step keeps the types.
LEMMA TypesStep == Types /\ [Next]_vars => Types'
<1> SUFFICES ASSUME Types, [Next]_vars PROVE Types'
  OBVIOUS
<1>1. ASSUME EngineStep PROVE Types'
  <2>1. CASE Bootstrap \/ Subscribe
    BY <2>1, TypesStart
  <2>2. CASE \E o \in Ids : CancelReturns(o) \/ CreateReturns(o)
    BY <2>2, TypesCancel, TypesAnswer
  <2>3. CASE CancelsDone
    BY <2>3, TypesCancels
  <2>4. CASE PlacesDone \/ \E d \in job.want : CreateBlocked(d) \/ CreateSend(d)
    BY <2>4, TypesPlace
  <2>5. CASE \E b \in Books : OnTick(b)
    BY <2>5, TypesTick
  <2>6. CASE OnMessage
    BY <2>6, TypesMessage
  <2>7. CASE OnFault \/ StopTask
    BY <2>7, TypesStop
  <2> QED
    BY <1>1, <2>1, <2>2, <2>3, <2>4, <2>5, <2>6, <2>7 DEF EngineStep
<1>2. CASE UNCHANGED vars
  BY <1>2 DEF vars, Types, JobType, FlagType, ListType, BookType
<1> QED
  BY <1>1, <1>2, TypesWorld DEF Next

-------------------------------------------------------------------------------
\* What the engine knows.  A halt stays: only steps without one matter.
LEMMA HaltStays ==
  ASSUME Types, [Next]_vars, safety.halted
  PROVE  safety'.halted
<1>1. safety \in [halted : BOOLEAN, reconciled : BOOLEAN] /\ JobType
  BY DEF Types, FlagType
<1>2. \A c : HaltIf(c).halted
  BY <1>1 DEF HaltIf
<1>3. ASSUME safety' = safety PROVE safety'.halted
  BY <1>3
<1>4. ASSUME NEW o \in Ids, CancelReturns(o) PROVE safety'.halted
  <2>1. [safety EXCEPT !.reconciled = FALSE].halted
    BY <1>1
  <2>2. CASE CancelConfirmed(o)
    BY <2>1, <2>2 DEF CancelConfirmed
  <2>3. CASE CancelMatched(o)
    BY <1>2, <2>3 DEF CancelMatched
  <2>4. CASE CancelUnconfirmed(o)
    BY <1>3, <2>4 DEF CancelUnconfirmed
  <2> QED
    BY <1>4, <2>2, <2>3, <2>4 DEF CancelReturns
<1>5. ASSUME NEW o \in Ids, CreateReturns(o) PROVE safety'.halted
  <2>1. [halted |-> safety.halted \/ order[o].post, reconciled |-> FALSE].halted
    OBVIOUS
  <2> QED
    BY <1>2, <1>3, <1>5, <2>1 DEF CreateReturns, Outcome
<1>6. CancelsDone => safety'.halted
  BY <1>2, <1>3, Cancelled
<1>7. (\E o \in Ids : VenueStep(o) \/ ProcessFill(o) \/ StreamCancel(o)) => safety'.halted
  <2>1. [safety EXCEPT !.reconciled = FALSE].halted
    BY <1>1
  <2> QED
    BY <1>3, <2>1 DEF VenueStep, ProcessFill, StreamCancel
<1>8. Reconcile => safety'.halted
  <2> HAVE Reconcile
  <2> DEFINE blind == {o \in Ids : order[o].row \in {"PENDING", "UNKNOWN"} /\ ~order[o].mapped}
  <2>1. safety' = [halted |-> safety.halted \/ blind # {}, reconciled |-> blind = {}]
    BY DEF Reconcile
  <2>2. (safety.halted \/ blind # {}) = TRUE
    OBVIOUS
  <2> HIDE DEF blind
  <2> QED
    BY <2>1, <2>2
<1>9. (\E b \in Books : OnTick(b)) => safety'.halted
  BY <1>3, Ticked
<1>10. Bootstrap \/ Subscribe \/ PlacesDone \/ StopTask
         \/ (\E d \in job.want : CreateBlocked(d) \/ CreateSend(d))
         \/ (\E msg \in Commands : Control(msg))
         \/ (\E c \in BOOLEAN : Contract(c)) \/ UNCHANGED vars => safety'.halted
  BY <1>3 DEF Bootstrap, Subscribe, PlacesDone, StopTask, CreateBlocked, CreateSend,
     Control, Contract, vars
<1>11. OnMessage \/ OnFault => safety'.halted
  BY <1>2, <1>3, Messaged DEF OnFault
<1> QED
  BY <1>4, <1>5, <1>6, <1>7, <1>8, <1>9, <1>10, <1>11 DEF Next, EngineStep

\* An order after the step: the same quote, no nearer to resting, and once over
\* it stays over.
Kept(p) ==
    /\ order'[p].post = order[p].post
    /\ order'[p].venue \in {"sent", "live"} => order[p].venue \in {"sent", "live"}
    /\ order[p].venue \in {"closed", "filled"} => order'[p].venue = order[p].venue

\* A step that leaves the orders keeps what is known of them.
LEMMA StillKept ==
  ASSUME UNCHANGED order, \A p \in Ids : RowInv(p)
  PROVE  (\A p \in Ids : Kept(p) /\ RowInv(p)') /\ Loose' = Loose
  BY DEF Kept, RowInv, Loose

\* When every order keeps its quote, no more of them rest or are on their way.
LEMMA LooseShrinks ==
  ASSUME \A p \in Ids : Kept(p)
  PROVE  Loose' \subseteq Loose
  BY DEF Kept, Loose

\* The fields of an order the argument moves, and when they fit the others.
Fits(o, w, v, m, n, b) ==
    /\ b <= n
    /\ w = "none" => v = "none"
    /\ v \in {"none", "sent", "refused"} => m = FALSE /\ n = 0
    /\ v = "sent" => w \in {"PENDING", "UNKNOWN"}
    /\ v = "live" => w \in UnresolvedRows /\ n < Lot
    /\ v \in {"sent", "live"} => order[o].venue \in {"sent", "live"}
    /\ order[o].venue \in {"closed", "filled"} => v = order[o].venue

\* An order that moves as the venue allows keeps what is known of its row.
LEMMA MoveKeeps ==
  ASSUME Types, \A p \in Ids : RowInv(p)
  PROVE  \A o \in Ids :
         \A w \in {"none", "OPEN", "PENDING", "UNKNOWN", "CANCELED", "FILLED", "FAILED"},
            v \in {"none", "sent", "live", "closed", "filled", "refused"},
            m \in BOOLEAN, n \in Nat, b \in Nat :
           Becomes(o, w, v, m, n, b) /\ Fits(o, w, v, m, n, b) =>
             \A p \in Ids : Kept(p) /\ RowInv(p)'
<1> TAKE o \in Ids
<1> TAKE w \in {"none", "OPEN", "PENDING", "UNKNOWN", "CANCELED", "FILLED", "FAILED"},
         v \in {"none", "sent", "live", "closed", "filled", "refused"},
         m \in BOOLEAN, n \in Nat, b \in Nat
<1> HAVE Becomes(o, w, v, m, n, b) /\ Fits(o, w, v, m, n, b)
<1>1. /\ \A p \in Ids : p # o => order'[p] = order[p]
      /\ order'[o].row = w /\ order'[o].venue = v /\ order'[o].mapped = m
      /\ order'[o].post = order[o].post
      /\ order'[o].filled = n /\ order'[o].booked = b
  BY MovedType
<1>2. Kept(o)
  BY <1>1 DEF Fits, Kept
<1>3. RowInv(o)'
  BY <1>1 DEF Fits, RowInv
<1>4. ASSUME NEW p \in Ids, p # o PROVE Kept(p) /\ RowInv(p)'
  <2>1. order'[p] = order[p] /\ RowInv(p)
    BY <1>1, <1>4
  <2> QED
    BY <2>1 DEF Kept, RowInv
<1> QED
  BY <1>2, <1>3, <1>4

\* A status message stays about an order that is over.
LEMMA MessagesKept ==
  ASSUME Types, MessageInv, \A p \in Ids : Kept(p), UNCHANGED inbox
  PROVE  MessageInv'
<1> SUFFICES ASSUME NEW i \in DOMAIN inbox, inbox[i].kind = "status"
             PROVE  order'[inbox[i].id].venue \in {"closed", "filled"}
  BY DEF MessageInv
<1>1. inbox[i] \in Messages
  BY DEF Types, ListType
<1>2. inbox[i].id \in Ids
  BY <1>1 DEF Messages, CommandKinds
<1>3. order[inbox[i].id].venue \in {"closed", "filled"}
  BY DEF MessageInv
<1> QED
  BY <1>2, <1>3 DEF Kept

\* The terminal status of an order that is over may be published.
LEMMA MessagesAdded ==
  ASSUME Types, MessageInv, \A p \in Ids : Kept(p),
         NEW o \in Ids, order'[o].venue \in {"closed", "filled"},
         inbox' = inbox \/ inbox' = Published(o)
  PROVE  MessageInv'
<1>1. CASE UNCHANGED inbox
  BY <1>1, MessagesKept
<1>2. CASE inbox' = Append(inbox, [kind |-> "status", id |-> o])
  <2>1. inbox \in Seq(Messages)
    BY DEF Types, ListType
  <2>2. SUFFICES ASSUME NEW i \in DOMAIN inbox', inbox'[i].kind = "status"
                 PROVE  order'[inbox'[i].id].venue \in {"closed", "filled"}
    BY DEF MessageInv
  <2>3. CASE i = Len(inbox) + 1
    BY <1>2, <2>1, <2>3
  <2>4. CASE i # Len(inbox) + 1
    <3>1. i \in DOMAIN inbox /\ inbox'[i] = inbox[i]
      BY <1>2, <2>1, <2>4
    <3>2. inbox[i] \in Messages
      BY <2>1, <3>1
    <3>3. inbox[i].id \in Ids
      BY <2>2, <3>1, <3>2 DEF Messages, CommandKinds
    <3>4. order[inbox[i].id].venue \in {"closed", "filled"}
      BY <2>2, <3>1 DEF MessageInv
    <3> QED
      BY <3>1, <3>3, <3>4 DEF Kept
  <2> QED
    BY <2>3, <2>4
<1> QED
  BY <1>1, <1>2 DEF Published

\* Steps that only move orders.
LEMMA Frame ==
  ASSUME Types, Core, \A p \in Ids : Kept(p) /\ RowInv(p)', MessageInv', GatherInv',
         UNCHANGED <<pc, flags, active>>, job'.why = job.why, pc = "place" => job' = job
  PROVE  Core'
<1>1. Loose' \subseteq Loose /\ Known' = Known
  BY LooseShrinks DEF Known
<1>2. TrackInv'
  BY <1>1 DEF Core, TrackInv
<1>3. QuietInv'
  BY <1>1 DEF Core, QuietInv, Cancels
<1> QED
  BY <1>2, <1>3 DEF Core

\* Steps around the engine that only move orders.
LEMMA WorldFrame ==
  ASSUME Types, Core, \A p \in Ids : Kept(p) /\ RowInv(p)', MessageInv',
         UNCHANGED <<pc, flags, active, job>>
  PROVE  Core'
<1>1. job.ok \subseteq Ids
  BY JobFields DEF Types
<1>2. GatherInv'
  <2>1. ASSUME pc = "cancel" PROVE \A o \in job.ok : order'[o].venue = "closed"
    BY <1>1, <2>1 DEF Core, GatherInv, Kept
  <2> QED
    BY <2>1 DEF Core, GatherInv, Known
<1> QED
  BY <1>2, Frame

\* The fields of an order, by name.
LEMMA Fields ==
  ASSUME Types, NEW o \in Ids
  PROVE  /\ order[o].row \in {"none", "OPEN", "PENDING", "UNKNOWN", "CANCELED", "FILLED",
                              "FAILED"}
         /\ order[o].venue \in {"none", "sent", "live", "closed", "filled", "refused"}
         /\ order[o].mapped \in BOOLEAN
         /\ order[o].filled \in Nat /\ order[o].booked \in Nat
  BY OrderFields DEF Types, BookType

\* The venue accepts, refuses, closes or fills an order.
LEMMA VenueKeeps ==
  ASSUME Types, Core, NEW o \in Ids, VenueStep(o)
  PROVE  Core'
<1>1. /\ order[o].row \in {"none", "OPEN", "PENDING", "UNKNOWN", "CANCELED", "FILLED",
                           "FAILED"}
      /\ order[o].venue \in {"none", "sent", "live", "closed", "filled", "refused"}
      /\ order[o].mapped \in BOOLEAN
      /\ order[o].filled \in Nat /\ order[o].booked \in Nat
  BY Fields
<1>2. RowInv(o) /\ \A p \in Ids : RowInv(p)
  BY DEF Core
<1>3. UNCHANGED <<pc, flags, active, job, inbox>>
  BY DEF VenueStep, engine
<1>4. \A p \in Ids : Kept(p) /\ RowInv(p)'
  <2>1. CASE /\ order[o].venue = "sent"
             /\ \E v \in {"live", "refused"} :
                  Becomes(o, order[o].row, v, order[o].mapped, order[o].filled,
                          order[o].booked)
    <3>1. PICK v \in {"live", "refused"} :
            Becomes(o, order[o].row, v, order[o].mapped, order[o].filled, order[o].booked)
      BY <2>1
    <3>2. Fits(o, order[o].row, v, order[o].mapped, order[o].filled, order[o].booked)
      BY <1>1, <1>2, <2>1, LotType DEF Fits, RowInv, UnresolvedRows
    <3> QED
      BY <1>1, <1>2, <3>1, <3>2, MoveKeeps
  <2>2. CASE /\ order[o].venue = "live"
             /\ Becomes(o, order[o].row, "closed", order[o].mapped, order[o].filled,
                        order[o].booked)
    <3>1. Fits(o, order[o].row, "closed", order[o].mapped, order[o].filled,
               order[o].booked)
      BY <1>1, <1>2, <2>2 DEF Fits, RowInv, UnresolvedRows
    <3> QED
      BY <1>1, <1>2, <2>2, <3>1, MoveKeeps
  <2>3. CASE /\ order[o].venue = "live"
             /\ Becomes(o, order[o].row,
                        IF order[o].filled + 1 = Lot THEN "filled" ELSE order[o].venue,
                        order[o].mapped, order[o].filled + 1, order[o].booked)
    <3>1. PICK v \in {"filled", "live"} :
            /\ v = IF order[o].filled + 1 = Lot THEN "filled" ELSE order[o].venue
            /\ Becomes(o, order[o].row, v, order[o].mapped, order[o].filled + 1,
                       order[o].booked)
      BY <2>3
    <3>2. order[o].filled + 1 \in Nat
      BY <1>1
    <3>3. Fits(o, order[o].row, v, order[o].mapped, order[o].filled + 1, order[o].booked)
      BY <1>1, <1>2, <2>3, <3>1, LotType DEF Fits, RowInv, UnresolvedRows
    <3> QED
      BY <1>1, <1>2, <3>1, <3>2, <3>3, MoveKeeps
  <2> QED
    BY <2>1, <2>2, <2>3, MovedBy
<1> QED
  BY <1>3, <1>4, MessagesKept, WorldFrame DEF Core

\* A fill is booked; the status goes out when the order is over.
LEMMA FillKeeps ==
  ASSUME Types, Core, NEW o \in Ids, ProcessFill(o)
  PROVE  Core'
<1>1. /\ order[o].row \in {"none", "OPEN", "PENDING", "UNKNOWN", "CANCELED", "FILLED",
                           "FAILED"}
      /\ order[o].venue \in {"none", "sent", "live", "closed", "filled", "refused"}
      /\ order[o].mapped = TRUE
      /\ order[o].filled \in Nat /\ order[o].booked \in Nat
      /\ order[o].booked < order[o].filled
  BY Fields DEF ProcessFill
<1>2. RowInv(o) /\ \A p \in Ids : RowInv(p)
  BY DEF Core
<1>3. UNCHANGED <<pc, flags, active, job>>
      /\ (inbox' = IF order[o].booked + 1 = Lot THEN Published(o) ELSE inbox)
  BY DEF ProcessFill, engine
<1>4. order[o].venue \in {"live", "closed", "filled"}
  BY <1>1, <1>2 DEF RowInv
<1>5. ASSUME order[o].booked + 1 = Lot PROVE order[o].venue \in {"closed", "filled"}
  <2>1. ~(order[o].filled < Lot)
    BY <1>1, <1>5, LotType
  <2> QED
    BY <1>2, <1>4, <2>1 DEF RowInv
<1>6. PICK w \in {"FILLED", "OPEN"} :
        /\ w = IF order[o].booked + 1 = Lot THEN "FILLED" ELSE "OPEN"
        /\ Becomes(o, w, order[o].venue, order[o].mapped, order[o].filled,
                   order[o].booked + 1)
  BY MovedBy
<1>7. order[o].booked + 1 \in Nat
  BY <1>1
<1>8. Fits(o, w, order[o].venue, order[o].mapped, order[o].filled, order[o].booked + 1)
  BY <1>1, <1>2, <1>4, <1>5, <1>6 DEF Fits, RowInv, UnresolvedRows
<1>9. \A p \in Ids : Kept(p) /\ RowInv(p)'
  BY <1>1, <1>2, <1>6, <1>7, <1>8, MoveKeeps
<1>10. MessageInv'
  <2>1. CASE order[o].booked + 1 = Lot
    <3>1. order'[o].venue \in {"closed", "filled"}
      BY <1>5, <1>9, <2>1 DEF Kept
    <3> QED
      BY <1>3, <1>9, <2>1, <3>1, MessagesAdded DEF Core
  <2>2. CASE order[o].booked + 1 # Lot
    BY <1>3, <1>9, <2>2, MessagesKept DEF Core
  <2> QED
    BY <2>1, <2>2
<1> QED
  BY <1>3, <1>9, <1>10, WorldFrame

\* The stream reports a cancellation that was not ours.
LEMMA StreamKeeps ==
  ASSUME Types, Core, NEW o \in Ids, StreamCancel(o)
  PROVE  Core'
<1>1. /\ order[o].venue = "closed"
      /\ order[o].mapped \in BOOLEAN
      /\ order[o].filled \in Nat /\ order[o].booked \in Nat
  BY Fields DEF StreamCancel
<1>2. RowInv(o) /\ \A p \in Ids : RowInv(p)
  BY DEF Core
<1>3. UNCHANGED <<pc, flags, active, job>> /\ inbox' = Published(o)
  BY DEF StreamCancel, engine
<1>4. Becomes(o, "CANCELED", order[o].venue, order[o].mapped, order[o].filled,
              order[o].booked)
  BY MovedBy
<1>5. Fits(o, "CANCELED", order[o].venue, order[o].mapped, order[o].filled,
           order[o].booked)
  BY <1>1, <1>2 DEF Fits, RowInv
<1>6. \A p \in Ids : Kept(p) /\ RowInv(p)'
  BY <1>1, <1>2, <1>4, <1>5, MoveKeeps
<1>7. MessageInv'
  <2>1. order'[o].venue \in {"closed", "filled"}
    BY <1>1, <1>6 DEF Kept
  <2> QED
    BY <1>3, <1>6, <2>1, MessagesAdded DEF Core
<1> QED
  BY <1>3, <1>6, <1>7, WorldFrame

\* A reconciliation pass leaves what it cannot see.
LEMMA ReconcileKeeps ==
  ASSUME Types, Core, Reconcile
  PROVE  Core'
<1>1. \A p \in Ids : RowInv(p)
  BY DEF Core
<1>2. UNCHANGED <<pc, flags, active, job, inbox>>
  BY DEF Reconcile, engine
<1>3. ASSUME NEW p \in Ids PROVE Kept(p) /\ RowInv(p)'
  <2>1. CASE order'[p] = order[p]
    BY <1>1, <2>1 DEF Kept, RowInv
  <2>2. CASE /\ ~(order[p].row \in {"PENDING", "UNKNOWN"} /\ ~order[p].mapped)
             /\ order[p].row \in UnresolvedRows
             /\ \E w \in {"OPEN", "CANCELED", "FILLED"} :
                  /\ order'[p] = Moved(order[p], w, order[p].venue, order[p].mapped,
                                       order[p].filled, order[p].booked)
                  /\ order[p].venue = "live" => w = "OPEN"
    <3>1. PICK w \in {"OPEN", "CANCELED", "FILLED"} :
            /\ order'[p].row = w /\ order'[p].venue = order[p].venue
            /\ order'[p].mapped = order[p].mapped /\ order'[p].post = order[p].post
            /\ order'[p].filled = order[p].filled /\ order'[p].booked = order[p].booked
            /\ order[p].venue = "live" => w = "OPEN"
      BY <2>2 DEF Moved
    <3>2. order[p].venue # "sent"
      BY <1>1, <2>2 DEF RowInv
    <3> QED
      BY <1>1, <3>1, <3>2 DEF Kept, RowInv, UnresolvedRows
  <2> QED
    BY <2>1, <2>2, Reconciled
<1> QED
  BY <1>2, <1>3, MessagesKept, WorldFrame DEF Core

\* A control message is no status message.
LEMMA ControlKeeps ==
  ASSUME Types, Core, NEW msg \in Commands, Control(msg)
  PROVE  Core'
<1>1. UNCHANGED <<pc, flags, active, job, order>>
      /\ inbox' = Append(inbox, [kind |-> msg, id |-> 0])
  BY DEF Control, engine, world
<1>2. \A p \in Ids : Kept(p) /\ RowInv(p)'
  BY <1>1, StillKept DEF Core
<1>3. msg # "status" /\ inbox \in Seq(Messages)
  BY EngineAssumption DEF CommandKinds, Types, ListType
<1>4. MessageInv'
  <2>1. SUFFICES ASSUME NEW i \in DOMAIN inbox', inbox'[i].kind = "status"
                 PROVE  order'[inbox'[i].id].venue \in {"closed", "filled"}
    BY DEF MessageInv
  <2>2. i \in DOMAIN inbox /\ inbox'[i] = inbox[i]
    BY <1>1, <1>3, <2>1
  <2> QED
    BY <1>1, <2>1, <2>2 DEF Core, MessageInv
<1> QED
  BY <1>1, <1>2, <1>4, WorldFrame

\* A call for a cancel returns.
LEMMA CancelKeeps ==
  ASSUME Types, Types', Core, NEW o \in Ids, CancelReturns(o), ~safety'.halted
  PROVE  Core'
<1>1. /\ order[o].venue \in {"none", "sent", "live", "closed", "filled", "refused"}
      /\ order[o].mapped \in BOOLEAN
      /\ order[o].filled \in Nat /\ order[o].booked \in Nat
  BY Fields
<1>2. RowInv(o) /\ \A p \in Ids : RowInv(p)
  BY DEF Core
<1>3. UNCHANGED <<pc, flags, active, inbox>> /\ pc = "cancel"
  BY DEF CancelReturns
<1>4. JobType /\ FlagType /\ job.ok \subseteq Ids
  BY JobFields DEF Types
<1>5. ~CancelMatched(o)
  BY <1>4, HaltIfType DEF CancelMatched
<1>6. CASE CancelConfirmed(o)
  <2>1. /\ Becomes(o, "CANCELED", "closed", order[o].mapped, order[o].filled,
                   order[o].booked)
        /\ order[o].venue \in {"live", "closed"}
    BY <1>6, MovedBy DEF CancelConfirmed
  <2>2. Fits(o, "CANCELED", "closed", order[o].mapped, order[o].filled, order[o].booked)
    BY <1>1, <1>2, <2>1 DEF Fits, RowInv
  <2>3. \A p \in Ids : Kept(p) /\ RowInv(p)'
    BY <1>1, <1>2, <2>1, <2>2, MoveKeeps
  <2>4. order'[o].venue = "closed"
    BY <1>1, <2>1, MovedType
  <2>5. /\ job'.why = job.why /\ job'.ok = job.ok \union {o} /\ job'.failed = job.failed
        /\ job'.wait = job.wait \ {o}
    BY <1>4, <1>6 DEF CancelConfirmed, JobType
  <2>6. \A p \in job'.ok : order'[p].venue = "closed"
    BY <1>3, <1>4, <2>3, <2>4, <2>5 DEF Core, GatherInv, Kept
  <2>7. GatherInv'
    BY <1>3, <2>5, <2>6 DEF Core, GatherInv, Known
  <2> QED
    BY <1>3, <2>3, <2>5, <2>7, MessagesKept, Frame DEF Core
<1>7. CASE CancelUnconfirmed(o)
  <2>1. UNCHANGED order
    BY <1>7 DEF CancelUnconfirmed
  <2>2. job'.why = job.why /\ job'.ok = job.ok /\ job'.failed = TRUE
    BY <1>4, <1>7 DEF CancelUnconfirmed, JobType
  <2>3. \A p \in Ids : Kept(p) /\ RowInv(p)'
    BY <1>2, <2>1, StillKept
  <2>4. GatherInv'
    BY <1>3, <2>1, <2>2 DEF Core, GatherInv, Known
  <2> QED
    BY <1>3, <2>2, <2>3, <2>4, MessagesKept, Frame DEF Core
<1> QED
  BY <1>5, <1>6, <1>7 DEF CancelReturns

\* A call for a new order returns: its id comes back, or it is excused.
LEMMA AnswerKeeps ==
  ASSUME Types, Types', Core, NEW o \in Ids, CreateReturns(o), ~safety'.halted
  PROVE  Core'
<1>1. /\ order[o].venue \in {"none", "sent", "live", "closed", "filled", "refused"}
      /\ order[o].mapped \in BOOLEAN
      /\ order[o].filled \in Nat /\ order[o].booked \in Nat
  BY Fields
<1>2. RowInv(o) /\ \A p \in Ids : RowInv(p)
  BY DEF Core
<1>3. UNCHANGED <<pc, flags, active, inbox>> /\ pc = "place"
  BY DEF CreateReturns
<1>4. PICK w \in {"OPEN", "UNKNOWN", "FAILED", "PENDING"}, m \in BOOLEAN :
        /\ Becomes(o, w, order[o].venue, m, order[o].filled, order[o].booked)
        /\ job'.calls = job.calls \ {o}
        /\ \/ job'.ok = job.ok \union {o} /\ w = "OPEN" /\ m = TRUE
              /\ order[o].venue \in {"live", "closed", "filled"}
           \/ /\ job'.ok = job.ok /\ Excused(o) /\ w # "OPEN"
              /\ w = "FAILED" => order[o].venue = "refused"
              /\ m = TRUE => order[o].filled > 0
  BY Answered
<1>5. Fits(o, w, order[o].venue, m, order[o].filled, order[o].booked)
  <2>1. order[o].venue \in {"none", "sent", "refused"} => m = FALSE /\ order[o].filled = 0
    BY <1>1, <1>2, <1>4 DEF RowInv
  <2>2. order[o].venue = "sent" => w \in {"PENDING", "UNKNOWN"}
    BY <1>4
  <2>3. order[o].venue = "live" => w \in UnresolvedRows /\ order[o].filled < Lot
    BY <1>2, <1>4 DEF RowInv, UnresolvedRows
  <2> QED
    BY <1>2, <1>4, <2>1, <2>2, <2>3 DEF Fits, RowInv
<1>6. \A p \in Ids : Kept(p) /\ RowInv(p)'
  BY <1>1, <1>2, <1>4, <1>5, MoveKeeps
<1>7. order'[o].venue = order[o].venue /\ order'[o].filled = order[o].filled
      /\ order'[o].post = order[o].post
  <2>1. Becomes(o, w, order[o].venue, m, order[o].filled, order[o].booked)
    BY <1>4
  <2>2. w \in {"none", "OPEN", "PENDING", "UNKNOWN", "CANCELED", "FILLED", "FAILED"}
    OBVIOUS
  <2>3. order'[o].venue = order[o].venue
    BY <1>1, <2>1, <2>2, MovedType
  <2>4. order'[o].filled = order[o].filled
    BY <1>1, <2>1, <2>2, MovedType
  <2>5. order'[o].post = order[o].post
    BY <1>6 DEF Kept
  <2> QED
    BY <2>3, <2>4, <2>5
<1>8. Loose' \subseteq Loose /\ (Excused(o) => o \notin Loose')
  <2>1. Loose' \subseteq Loose
    BY <1>6, LooseShrinks
  <2>2. ASSUME Excused(o), o \in Loose' PROVE FALSE
    <3>1. order[o].venue \in {"sent", "live"} /\ order[o].post
      BY <1>7, <2>2 DEF Loose
    <3> QED
      BY <2>2, <3>1 DEF Excused
  <2> QED
    BY <2>1, <2>2
<1>9. TrackInv'
  <2>1. Loose \subseteq Known \union job.ok \union job.calls
    BY <1>3 DEF Core, TrackInv
  <2>2. Loose' \subseteq Known \union job'.ok \union job'.calls
    BY <1>4, <1>8, <2>1
  <2> QED
    BY <1>3, <2>2 DEF TrackInv, Known
<1>10. GatherInv' /\ MessageInv'
  BY <1>3, <1>6, MessagesKept DEF GatherInv, Core
<1>11. QuietInv'
  BY <1>3 DEF Core, QuietInv, Cancels
<1> QED
  BY <1>6, <1>9, <1>10, <1>11 DEF Core

\* The engine starts: what the journal holds covers what may rest.
LEMMA StartKeeps ==
  ASSUME Types, Types', Core, Bootstrap \/ Subscribe
  PROVE  Core'
<1>1. UNCHANGED order /\ \A p \in Ids : RowInv(p)
  BY DEF Bootstrap, Subscribe, world, Core
<1>2. (\A p \in Ids : Kept(p) /\ RowInv(p)') /\ Loose' = Loose
  BY <1>1, StillKept
<1>3. CASE Subscribe
  <2>1. pc = "booted" /\ pc' = "idle" /\ UNCHANGED <<job, active, flags, inbox>>
    BY <1>3 DEF Subscribe
  <2>2. MessageInv' /\ GatherInv'
    BY <1>2, <2>1, MessagesKept DEF Core, GatherInv
  <2>3. TrackInv' /\ QuietInv'
    BY <1>2, <2>1 DEF Core, TrackInv, QuietInv, Cancels, Known
  <2> QED
    BY <1>2, <2>2, <2>3 DEF Core
<1>4. CASE Bootstrap
  <2>1. /\ pc' = "booted" /\ inbox' = <<>> /\ active' = Entries(Unfilled)
        /\ flags' = [suspended |-> FALSE, exiting |-> FALSE, shutdown |-> FALSE]
    BY <1>4 DEF Bootstrap, Rehydrated
  <2>2. Known' = Unfilled
    <3>1. Unfilled \subseteq Ids
      BY DEF Unfilled
    <3> QED
      BY <2>1, <3>1, EntriesIds DEF Known
  <2>3. Loose \subseteq Unfilled
    <3>1. ASSUME NEW o \in Loose PROVE o \in Unfilled
      <4>1. o \in Ids /\ order[o].venue \in {"sent", "live"} /\ RowInv(o)
        BY <1>1 DEF Loose
      <4>2. order[o].filled \in Nat /\ order[o].booked \in Nat
        BY <4>1, Fields
      <4> QED
        BY <4>1, <4>2, LotType DEF RowInv, Unfilled, UnresolvedRows
    <3> QED
      BY <3>1
  <2>4. TrackInv' /\ QuietInv' /\ GatherInv' /\ MessageInv'
    BY <1>2, <2>1, <2>2, <2>3 DEF TrackInv, QuietInv, GatherInv, MessageInv, Cancels
  <2> QED
    BY <1>2, <2>4 DEF Core
<1> QED
  BY <1>3, <1>4

\* A gather begins: everything tracked is asked to go, except for a diff.
LEMMA GatherKeeps ==
  ASSUME Types, Core, UNCHANGED <<order, active>>, MessageInv', Loose \subseteq Known,
         NEW why \in Reasons, why # "fault",
         NEW s, NEW w, Gather(why, s, w), why = "diff" \/ s = active,
         QuietInv'
  PROVE  Core'
<1>1. /\ pc' = "cancel" /\ job'.why = why /\ job'.wait = IdsIn(s)
      /\ job'.ok = {} /\ job'.failed = FALSE
  BY GatherType
<1>2. (\A p \in Ids : Kept(p) /\ RowInv(p)') /\ Loose' = Loose /\ Known' = Known
  BY StillKept DEF Core, Known
<1>3. GatherInv'
  BY <1>1, <1>2 DEF GatherInv, Known
<1>4. TrackInv'
  BY <1>1, <1>2 DEF TrackInv
<1> QED
  BY <1>2, <1>3, <1>4 DEF Core

\* A gather ends.
LEMMA CancelsKeep ==
  ASSUME Types, Types', Core, CancelsDone, ~safety.halted, ~safety'.halted
  PROVE  Core'
<1>1. /\ pc = "cancel" /\ job.wait = {} /\ UNCHANGED <<order, inbox>>
      /\ Known' = Known \ job.ok
      /\ JobType /\ FlagType /\ job.failed \in BOOLEAN /\ job.ok \subseteq Ids
  BY CancelsLeave, Cancelled, JobFields DEF Types, world, Known
<1>2. (\A p \in Ids : Kept(p) /\ RowInv(p)') /\ Loose' = Loose
  BY <1>1, StillKept DEF Core
<1>3. MessageInv'
  BY <1>1, <1>2, MessagesKept DEF Core
<1>4. \A o \in job.ok : o \notin Loose
  BY <1>1 DEF Core, GatherInv, Loose
<1>5. job.why # "finally" => Loose \subseteq Known'
  BY <1>1, <1>4 DEF Core, TrackInv
<1>6. job.why # "diff" /\ ~job.failed => Known' = {}
  BY <1>1 DEF Core, GatherInv
<1>7. safety' = HaltIf(job.failed) => ~job.failed
  BY <1>1, HaltIfType
<1>8. /\ flags'.suspended = flags.suspended
      /\ flags'.shutdown = (flags.shutdown \/ job.why = "complete")
  BY <1>1, Cancelled DEF FlagType
<1>9. flags.shutdown => job.why = "finally" /\ Loose = {}
  BY <1>1 DEF Core, QuietInv, Cancels
<1>10. CASE job.why \in {"pause", "exit", "fault"} /\ Idle
  <2>1. job.why \in {"pause", "exit"} /\ pc' = "idle"
    BY <1>1, <1>10 DEF Core, GatherInv, Idle
  <2>2. flags.suspended => Loose = {}
    BY <1>1, <2>1 DEF Core, QuietInv, Cancels
  <2>3. QuietInv'
    BY <1>2, <1>8, <1>9, <2>1, <2>2 DEF QuietInv, Cancels
  <2> QED
    BY <1>2, <1>3, <1>5, <2>1, <2>3 DEF Core, GatherInv, TrackInv
<1>11. CASE job.why = "suspend" /\ Idle /\ safety' = HaltIf(job.failed)
  <2>1. Loose = {} /\ pc' = "idle"
    BY <1>5, <1>6, <1>7, <1>11 DEF Idle
  <2>2. QuietInv'
    BY <1>2, <1>8, <1>9, <1>11, <2>1 DEF QuietInv, Cancels
  <2> QED
    BY <1>2, <1>3, <2>1, <2>2 DEF Core, GatherInv, TrackInv
<1>12. CASE job.why = "complete" /\ Gather("finally", active', {})
            /\ safety' = HaltIf(job.failed)
  <2>1. Loose = {}
    BY <1>5, <1>6, <1>7, <1>12
  <2>2. /\ pc' = "cancel" /\ job'.why = "finally" /\ job'.wait = Known'
        /\ job'.ok = {} /\ job'.failed = FALSE
    <3>1. "finally" \in Reasons
      BY DEF Reasons
    <3>2. Known' = IdsIn(active')
      BY DEF Known
    <3> QED
      BY <1>12, <3>1, <3>2 DEF Gather, NoJob
  <2>3. ~flags.suspended
    BY <1>1, <1>12 DEF Core, QuietInv, Cancels
  <2>4. QuietInv'
    BY <1>2, <1>8, <2>1, <2>2, <2>3 DEF QuietInv, Cancels
  <2>5. GatherInv'
    BY <2>2 DEF GatherInv, Reasons
  <2> QED
    BY <1>2, <1>3, <2>2, <2>4, <2>5 DEF Core, TrackInv
<1>13. CASE job.why = "finally" /\ pc' = "stopped"
  <2>1. QuietInv'
    BY <1>2, <1>8, <1>9, <1>13 DEF QuietInv, Cancels
  <2> QED
    BY <1>2, <1>3, <1>13, <2>1 DEF Core, GatherInv, TrackInv
<1>14. CASE job.why = "diff" /\ (Idle \/ pc' = "place")
  <2>1. ~flags.suspended /\ pc' \in {"idle", "place"}
    BY <1>1, <1>14 DEF Core, QuietInv, Cancels, Idle
  <2>2. QuietInv'
    BY <1>8, <1>9, <1>14, <2>1 DEF QuietInv, Cancels
  <2>3. TrackInv'
    BY <1>2, <1>5, <1>14, <2>1 DEF TrackInv
  <2> QED
    BY <1>2, <1>3, <2>1, <2>2, <2>3 DEF Core, GatherInv
<1> QED
  BY <1>10, <1>11, <1>12, <1>13, <1>14, Cancelled

\* place_orders sends, and joins what came back.
LEMMA PlaceKeeps ==
  ASSUME Types, Types', Core,
         PlacesDone \/ \E d \in job.want : CreateBlocked(d) \/ CreateSend(d)
  PROVE  Core'
<1>1. /\ pc = "place" /\ UNCHANGED <<flags, inbox>>
      /\ \A p \in Ids : RowInv(p)
  BY DEF PlacesDone, CreateBlocked, CreateSend, Core
<1>2. Loose \subseteq Known \union job.ok \union job.calls
  BY <1>1 DEF Core, TrackInv
<1>3. ~flags.suspended /\ ~flags.shutdown
  BY <1>1 DEF Core, QuietInv, Cancels
<1>4. ASSUME pc' \in {"idle", "place"} PROVE QuietInv' /\ GatherInv'
  BY <1>1, <1>3, <1>4 DEF QuietInv, GatherInv, Cancels
<1>5. CASE PlacesDone
  <2>1. /\ UNCHANGED order /\ job.calls = {} /\ pc' = "idle"
        /\ Known' = Known \union job.ok
    BY <1>5, PlacesAdd DEF PlacesDone, world, Idle, Known
  <2>2. (\A p \in Ids : Kept(p) /\ RowInv(p)') /\ Loose' = Loose
    BY <1>1, <2>1, StillKept
  <2>3. MessageInv' /\ TrackInv'
    BY <1>1, <1>2, <2>1, <2>2, MessagesKept DEF Core, TrackInv
  <2> QED
    BY <1>4, <2>1, <2>2, <2>3 DEF Core
<1>6. ASSUME NEW d \in job.want, CreateBlocked(d) PROVE Core'
  <2>1. /\ UNCHANGED <<order, active, pc>>
        /\ job'.ok = job.ok /\ job'.calls = job.calls
    BY <1>6 DEF CreateBlocked, world, Types, JobType
  <2>2. (\A p \in Ids : Kept(p) /\ RowInv(p)') /\ Loose' = Loose
    BY <1>1, <2>1, StillKept
  <2>3. MessageInv' /\ TrackInv'
    BY <1>1, <1>2, <2>1, <2>2, MessagesKept DEF Core, TrackInv, Known
  <2> QED
    BY <1>1, <1>4, <2>1, <2>2, <2>3 DEF Core
<1>7. ASSUME NEW d \in job.want, CreateSend(d) PROVE Core'
  <2>1. PICK o \in Ids :
          /\ order[o].row = "none" /\ order'[o].row = "PENDING"
          /\ order'[o].venue = "sent" /\ order'[o].mapped = FALSE
          /\ order'[o].filled = 0 /\ order'[o].booked = 0
          /\ \A p \in Ids : p # o => order'[p] = order[p]
          /\ Calling(o, d)
    BY <1>7, Sent
  <2>2. UNCHANGED <<pc, active>>
    BY <1>7 DEF CreateSend
  <2>3. job'.ok = job.ok /\ job'.calls = job.calls \union {o}
    BY <2>1 DEF Calling, Types, JobType
  <2>4. Loose' \subseteq Loose \union {o}
    BY <2>1 DEF Loose
  <2>5. TrackInv'
    BY <1>1, <1>2, <2>2, <2>3, <2>4 DEF TrackInv, Known
  <2>6. \A p \in Ids : RowInv(p)'
    BY <1>1, <2>1 DEF RowInv, UnresolvedRows
  <2>7. MessageInv'
    <3>1. SUFFICES ASSUME NEW i \in DOMAIN inbox, inbox[i].kind = "status"
                   PROVE  order'[inbox[i].id].venue \in {"closed", "filled"}
      BY <1>1 DEF MessageInv
    <3>2. inbox[i] \in Messages
      BY DEF Types, ListType
    <3>3. inbox[i].id \in Ids
      BY <3>1, <3>2 DEF Messages, CommandKinds
    <3>4. order[inbox[i].id].venue \in {"closed", "filled"}
      BY <3>1 DEF Core, MessageInv
    <3>5. inbox[i].id # o
      BY <1>1, <2>1, <3>4 DEF RowInv
    <3> QED
      BY <2>1, <3>3, <3>4, <3>5
  <2> QED
    BY <1>1, <1>4, <2>2, <2>5, <2>6, <2>7 DEF Core
<1> QED
  BY <1>5, <1>6, <1>7

\* A tick is not served while the engine is suspended.
LEMMA TickKeeps ==
  ASSUME Types, Types', Core, NEW b, OnTick(b)
  PROVE  Core'
<1>1. /\ pc = "idle" /\ ~flags.suspended /\ UNCHANGED <<active, flags, inbox, order>>
      /\ Loose \subseteq Known /\ ~flags.shutdown
  BY Ticked DEF world, Core, TrackInv, QuietInv, Cancels
<1>2. (\A p \in Ids : Kept(p) /\ RowInv(p)') /\ Loose' = Loose /\ Known' = Known
  BY <1>1, StillKept DEF Core, Known
<1>3. MessageInv' /\ QuietInv'
  BY <1>1, <1>2, MessagesKept DEF Core, QuietInv
<1>4. ASSUME NEW why \in {"pause", "complete", "diff"}, NEW s, NEW w, Gather(why, s, w),
             why = "diff" \/ s = active
      PROVE  Core'
  <2>1. why \in Reasons /\ why # "fault"
    BY DEF Reasons
  <2> QED
    BY <1>1, <1>3, <1>4, <2>1, GatherKeeps
<1>5. CASE pc' \in {"place", "idle"}
  BY <1>1, <1>2, <1>3, <1>5 DEF Core, GatherInv, TrackInv
<1> QED
  BY <1>4, <1>5, Ticked DEF Idle

\* A message: the commands ask everything to go, a status drops what is over.
LEMMA MessageKeeps ==
  ASSUME Types, Types', Core, OnMessage
  PROVE  Core'
<1>1. /\ pc = "idle" /\ inbox # <<>> /\ inbox' = Tail(inbox) /\ UNCHANGED order
      /\ Loose \subseteq Known /\ ~flags.shutdown /\ inbox \in Seq(Messages)
      /\ flags.suspended => Loose = {}
  BY Messaged DEF world, Core, TrackInv, QuietInv, Cancels, Types, ListType
<1>2. (\A p \in Ids : Kept(p) /\ RowInv(p)') /\ Loose' = Loose
  BY <1>1, StillKept DEF Core
<1>3. MessageInv'
  <2>1. SUFFICES ASSUME NEW i \in DOMAIN inbox', inbox'[i].kind = "status"
                 PROVE  order'[inbox'[i].id].venue \in {"closed", "filled"}
    BY DEF MessageInv
  <2>2. i + 1 \in DOMAIN inbox /\ inbox'[i] = inbox[i + 1]
    BY <1>1, <2>1
  <2> QED
    BY <1>1, <2>1, <2>2 DEF Core, MessageInv
<1>4. flags \in [suspended : BOOLEAN, exiting : BOOLEAN, shutdown : BOOLEAN]
  BY DEF Types, FlagType
<1>5. ASSUME NEW why \in {"suspend", "exit"}, Gather(why, active, {}), active' = active,
             flags'.shutdown = flags.shutdown,
             why = "exit" => flags'.suspended = flags.suspended
      PROVE  Core'
  <2>1. why \in Reasons /\ why # "fault"
    BY DEF Reasons
  <2>2. pc' = "cancel" /\ job'.why = why
    BY <1>5, <2>1, GatherType
  <2>3. QuietInv'
    BY <1>1, <1>2, <1>5, <2>2 DEF QuietInv, Cancels
  <2> QED
    BY <1>1, <1>3, <1>5, <2>1, <2>3, GatherKeeps
<1>6. CASE /\ flags' = [flags EXCEPT !.suspended = TRUE] /\ active' = active
           /\ Gather("suspend", active, {})
  BY <1>4, <1>5, <1>6
<1>7. CASE /\ flags' = [flags EXCEPT !.exiting = TRUE] /\ active' = active
           /\ Gather("exit", active, {})
  BY <1>4, <1>5, <1>7
<1>8. CASE /\ UNCHANGED <<pc, job, active>>
           /\ flags' = [flags EXCEPT !.suspended = FALSE] \/ UNCHANGED flags
  <2>1. flags'.shutdown = flags.shutdown /\ (flags'.suspended => flags.suspended)
    BY <1>4, <1>8
  <2>2. QuietInv'
    BY <1>1, <1>2, <1>8, <2>1 DEF QuietInv, Cancels
  <2> QED
    BY <1>1, <1>2, <1>3, <1>8, <2>2 DEF Core, GatherInv, TrackInv, Known
<1>9. CASE /\ inbox[1].kind = "status" /\ UNCHANGED <<pc, job, flags>>
           /\ IdsIn(active') = IdsIn(active) \ {inbox[1].id}
  <2>1. 1 \in DOMAIN inbox
    BY <1>1
  <2>2. order[inbox[1].id].venue \in {"closed", "filled"}
    BY <1>9, <2>1 DEF Core, MessageInv
  <2>3. inbox[1].id \notin Loose
    BY <2>2 DEF Loose
  <2>4. Known' = Known \ {inbox[1].id}
    BY <1>9 DEF Known
  <2>5. QuietInv'
    BY <1>1, <1>2, <1>9 DEF QuietInv, Cancels
  <2> QED
    BY <1>1, <1>2, <1>3, <1>9, <2>3, <2>4, <2>5 DEF Core, GatherInv, TrackInv
<1> QED
  BY <1>6, <1>7, <1>8, <1>9, Messaged

\* The supervisor cancels the task.
LEMMA StopKeeps ==
  ASSUME Types, Types', Core, StopTask
  PROVE  Core'
<1>1. UNCHANGED <<order, active, flags, inbox>>
  BY DEF StopTask, world
<1>2. (\A p \in Ids : Kept(p) /\ RowInv(p)') /\ Loose' = Loose /\ Known' = Known
  BY <1>1, StillKept DEF Core, Known
<1>3. MessageInv'
  BY <1>1, <1>2, MessagesKept DEF Core
<1>4. ~flags.shutdown
  BY DEF StopTask, Core, QuietInv, Cancels
<1>5. CASE pc = "booted" /\ pc' = "stopped"
  <2>1. ~flags.suspended
    BY <1>5 DEF Core, QuietInv
  <2> QED
    BY <1>1, <1>2, <1>3, <1>4, <1>5, <2>1 DEF Core, GatherInv, TrackInv, QuietInv
<1>6. CASE Gather("finally", active, {})
  <2>1. "finally" \in Reasons
    BY DEF Reasons
  <2>2. /\ pc' = "cancel" /\ job'.why = "finally" /\ job'.wait = IdsIn(active)
        /\ job'.ok = {} /\ job'.failed = FALSE
    BY <1>6, <2>1, GatherType
  <2>3. GatherInv' /\ TrackInv'
    BY <1>2, <2>1, <2>2 DEF GatherInv, TrackInv, Known
  <2>4. QuietInv'
    BY <1>1, <1>4, <2>2 DEF QuietInv, Cancels
  <2> QED
    BY <1>2, <1>3, <2>3, <2>4 DEF Core
<1> QED
  BY <1>5, <1>6 DEF StopTask, CancelAll

\* Until the process halts every step keeps the argument.
LEMMA CoreStep ==
  ASSUME Types, Types', Core, [Next]_vars, ~safety.halted, ~safety'.halted
  PROVE  Core'
<1>1. ASSUME EngineStep PROVE Core'
  <2>1. ASSUME NEW o \in Ids, CancelReturns(o) \/ CreateReturns(o) PROVE Core'
    BY <2>1, CancelKeeps, AnswerKeeps
  <2>2. CASE Bootstrap \/ Subscribe
    BY <2>2, StartKeeps
  <2>3. CASE CancelsDone
    BY <2>3, CancelsKeep
  <2>4. CASE PlacesDone \/ \E d \in job.want : CreateBlocked(d) \/ CreateSend(d)
    BY <2>4, PlaceKeeps
  <2>5. CASE \E b \in Books : OnTick(b)
    BY <2>5, TickKeeps
  <2>6. CASE OnMessage
    BY <2>6, MessageKeeps
  <2>7. CASE StopTask
    BY <2>7, StopKeeps
  <2>8. ~OnFault
    BY HaltIfType DEF OnFault, Types
  <2> QED
    BY <1>1, <2>1, <2>2, <2>3, <2>4, <2>5, <2>6, <2>7, <2>8 DEF EngineStep
<1>2. ASSUME NEW o \in Ids, VenueStep(o) \/ ProcessFill(o) \/ StreamCancel(o) PROVE Core'
  BY <1>2, VenueKeeps, FillKeeps, StreamKeeps
<1>3. ASSUME NEW msg \in Commands, Control(msg) PROVE Core'
  BY <1>3, ControlKeeps
<1>4. CASE Reconcile
  BY <1>4, ReconcileKeeps
<1>5. CASE (\E c \in BOOLEAN : Contract(c)) \/ UNCHANGED vars
  <2>1. UNCHANGED <<pc, flags, active, job, inbox, order>>
    BY <1>5 DEF Contract, engine, vars
  <2>2. \A p \in Ids : Kept(p) /\ RowInv(p)'
    BY <2>1, StillKept DEF Core
  <2> QED
    BY <2>1, <2>2, MessagesKept, WorldFrame DEF Core
<1> QED
  BY <1>1, <1>2, <1>3, <1>4, <1>5 DEF Next

\* The argument holds when nothing has been quoted.
LEMMA CoreInit == Init => Core
<1> SUFFICES ASSUME Init PROVE Core
  OBVIOUS
<1>1. \A o \in Ids : RowInv(o) /\ order[o].venue = "none"
  BY DEF Init, NoOrder, RowInv
<1>2. MessageInv
  BY DEF Init, MessageInv
<1>3. GatherInv /\ TrackInv /\ QuietInv
  BY DEF Init, GatherInv, TrackInv, QuietInv, Cancels
<1> QED
  BY <1>1, <1>2, <1>3 DEF Core

\* Whatever is lost, abandoned or restarted, the argument above holds in every
\* state until the process halts.
LEMMA Inductive == Spec => []IInv
<1>1. Init => IInv
  BY TypesInit, CoreInit DEF IInv
<1>2. IInv /\ [Next]_vars => IInv'
  <2> SUFFICES ASSUME IInv, [Next]_vars PROVE IInv'
    OBVIOUS
  <2>1. Types /\ Types'
    BY TypesStep DEF IInv
  <2>2. CASE safety.halted
    BY <2>1, <2>2, HaltStays DEF IInv
  <2>3. CASE ~safety.halted /\ ~safety'.halted
    BY <2>1, <2>3, CoreStep DEF IInv
  <2>4. CASE safety'.halted
    BY <2>1, <2>4 DEF IInv
  <2> QED
    BY <2>2, <2>3, <2>4
<1> QED
  BY <1>1, <1>2, PTL DEF Spec

-------------------------------------------------------------------------------
\* Between handlers the engine tracks every post-only quote that rests at the
\* venue, or trading is halted: run, place_orders, the bootstrap and the status
\* handler keep active_orders so, whatever was lost, abandoned or restarted.
THEOREM KnowsHolds == Spec => []IdleKnowsQuotes
<1>1. IInv => IdleKnowsQuotes
  <2>1. Quotes \subseteq Loose
    BY DEF Quotes, Live, Loose
  <2> QED
    BY <2>1 DEF IInv, Core, TrackInv, IdleKnowsQuotes, Known
<1> QED
  BY <1>1, Inductive, PTL

\* After the suspend command no quote rests at the venue between handlers, or
\* trading is halted: on_control_message halts when a cancel fails, and a
\* suspended engine places nothing.
THEOREM SuspendedHolds == Spec => []SuspendedIsQuiet
<1>1. IInv => SuspendedIsQuiet
  <2>1. Quotes \subseteq Loose
    BY DEF Quotes, Live, Loose
  <2> QED
    BY <2>1 DEF IInv, Core, QuietInv, SuspendedIsQuiet
<1> QED
  BY <1>1, Inductive, PTL

\* A task that _complete_graceful_exit ended leaves no quote at the venue, or
\* trading halted.
THEOREM ExitHolds == Spec => []CleanExit
<1>1. IInv => CleanExit
  <2>1. Quotes \subseteq Loose
    BY DEF Quotes, Live, Loose
  <2> QED
    BY <2>1 DEF IInv, Core, QuietInv, CleanExit
<1> QED
  BY <1>1, Inductive, PTL

-------------------------------------------------------------------------------
(* The table of orders, the budget and the pending notional.  None of this     *)
(* argument depends on a halt.                                                 *)

\* More about an order: the venue fills at most what was asked, what is not
\* mapped has no outcome yet or failed, and BUYs are post-only.
BookInv(o) ==
    /\ order[o].filled <= Lot
    /\ order[o].venue = "filled" => order[o].filled = Lot
    /\ ~order[o].mapped => order[o].row \in {"none", "PENDING", "UNKNOWN", "FAILED"}
    /\ order[o].row = "FAILED" => order[o].venue = "refused"
    /\ order[o].side \in {"BUY", "SELL"}
    /\ order[o].side = "BUY" => order[o].post = TRUE
Rows == \A o \in Ids : RowInv(o) /\ BookInv(o)

\* The calls that are out, and what place_orders will add: nothing tracked yet.
Placing ==
    /\ pc # "place" => job.calls = {}
    /\ \A o \in job.calls : /\ o \in Ids /\ order[o].row = "PENDING"
                            /\ order[o].mapped = FALSE
    /\ pc = "place" => \A o \in job.ok \union job.calls : order[o].row # "none" /\ o \notin Known
Wanted ==
    \A d \in job.want : d.side \in {"BUY", "SELL"} /\ (d.side = "BUY" => d.post = TRUE)

\* An entry of active_orders covers what its order can still trade, and an
\* order has one entry.
Listed(e) ==
    /\ order[e.id].row # "none" /\ e.side = order[e.id].side
    /\ e.size \in 0 .. Lot /\ Lot <= e.size + order[e.id].filled
Distinct(s) == \A i, j \in DOMAIN s : s[i].id = s[j].id => i = j
ListInv == (\A i \in DOMAIN active : Listed(active[i])) /\ Distinct(active)

\* What a reservation holds, or will once its last fills are booked.
Owed(o) == order[o].row \in UnresolvedRows \/ order[o].booked < order[o].filled
Due(o)  == IF order[o].side = "BUY" /\ Owed(o) THEN Lot - order[o].booked ELSE 0
Dues    == [o \in Ids |-> Due(o)]
Funded  == inventory \in Nat /\ inventory + SumFunctionOnSet(Dues, Ids) <= MaxInventory

\* Readiness means that no closed order has a fill that is not booked.
CaughtUp ==
    safety.reconciled => \A o \in Ids : order[o].row \in UnresolvedRows
                                        \/ order[o].booked = order[o].filled

PendingInv ==
    /\ pending \in 0 .. (Lot * MaxOrders)
    /\ pc = "booted" => anchor = 0
    /\ pc = "idle" /\ anchor # 0 => pending = BuyUnits(active)

TableInv == Rows /\ Placing /\ Wanted /\ ListInv /\ Funded /\ CaughtUp /\ PendingInv

\* An order after a step: a row stays, with its side, and fills only grow.
Goes(p) ==
    /\ order[p].row # "none" => order'[p].row # "none" /\ order'[p].side = order[p].side
    /\ order[p].filled <= order'[p].filled

\* The fields of an order the argument moves, and when they fit the others.
FitsBook(o, w, v, m, n, b) ==
    /\ order[o].row # "none" /\ w # "none"
    /\ order[o].filled <= n /\ n <= Lot
    /\ v = "filled" => n = Lot
    /\ m = FALSE => w \in {"PENDING", "UNKNOWN", "FAILED"}
    /\ w = "FAILED" => v = "refused"
    /\ order[o].booked <= b
    /\ w \in UnresolvedRows \/ b < n => Owed(o) \/ b = Lot

\* There are MaxOrders orders.
LEMMA IdsFinite == IsFiniteSet(Ids) /\ Ids \subseteq Nat /\ Cardinality(Ids) = MaxOrders
<1>1. MaxOrders \in Nat
  BY EngineAssumption
<1> QED
  BY <1>1, FS_Interval DEF Ids

\* What is due is a natural number for every order.
LEMMA DuesNat == Types /\ Rows => Amounts(Dues, Ids)
<1> SUFFICES ASSUME Types, Rows, NEW o \in Ids PROVE Dues[o] \in Nat
  BY DEF Amounts
<1>1. /\ order[o].filled \in Nat /\ order[o].booked \in Nat
      /\ order[o].booked <= order[o].filled /\ order[o].filled <= Lot
  BY Fields DEF Rows, RowInv, BookInv
<1> QED
  BY <1>1, LotType DEF Dues, Due

\* What a move of one order does to all of them.
LEMMA BookMove ==
  ASSUME Types, Rows
  PROVE  \A o \in Ids :
         \A w \in {"none", "OPEN", "PENDING", "UNKNOWN", "CANCELED", "FILLED", "FAILED"},
            v \in {"none", "sent", "live", "closed", "filled", "refused"},
            m \in BOOLEAN, n \in Nat, b \in Nat :
           Becomes(o, w, v, m, n, b) /\ Fits(o, w, v, m, n, b)
             /\ FitsBook(o, w, v, m, n, b) =>
             /\ Rows' /\ \A p \in Ids : Goes(p) /\ (p # o => order'[p] = order[p])
             /\ order'[o].side = order[o].side /\ order'[o].booked = b
             /\ order'[o].filled = n /\ order'[o].row = w /\ order'[o].mapped = m
             /\ Due(o)' <= Due(o)
             /\ order[o].side = "BUY" /\ Owed(o) =>
                  Due(o)' + (b - order[o].booked) <= Due(o)
<1> TAKE o \in Ids
<1> TAKE w \in {"none", "OPEN", "PENDING", "UNKNOWN", "CANCELED", "FILLED", "FAILED"},
         v \in {"none", "sent", "live", "closed", "filled", "refused"},
         m \in BOOLEAN, n \in Nat, b \in Nat
<1> HAVE /\ Becomes(o, w, v, m, n, b) /\ Fits(o, w, v, m, n, b)
         /\ FitsBook(o, w, v, m, n, b)
<1>1. /\ \A p \in Ids : p # o => order'[p] = order[p]
      /\ order'[o].row = w /\ order'[o].venue = v /\ order'[o].mapped = m
      /\ order'[o].post = order[o].post
      /\ order'[o].filled = n /\ order'[o].booked = b
  BY MovedType
<1>2. order'[o].side = order[o].side
  <2>1. DOMAIN order = Ids
    BY DEF Types, BookType
  <2>2. order'[o] = Moved(order[o], w, v, m, n, b)
    BY <2>1 DEF Becomes
  <2> QED
    BY <2>2 DEF Moved
<1>3. \A p \in Ids : RowInv(p)'
  BY MoveKeeps DEF Rows
<1>4. ASSUME NEW p \in Ids PROVE BookInv(p)' /\ Goes(p)
  <2>1. BookInv(p)
    BY DEF Rows
  <2>2. CASE p = o
    BY <1>1, <1>2, <2>1, <2>2 DEF FitsBook, BookInv, Goes
  <2>3. CASE p # o
    <3>1. order'[p] = order[p] /\ order[p].filled \in Nat
      BY <1>1, <2>3, Fields
    <3> QED
      BY <2>1, <3>1 DEF BookInv, Goes
  <2> QED
    BY <2>2, <2>3
<1>5. /\ order[o].filled \in Nat /\ order[o].booked \in Nat /\ Lot \in Nat
      /\ order[o].booked <= order[o].filled /\ order[o].filled <= Lot
      /\ b <= n /\ n <= Lot /\ order[o].booked <= b
  BY Fields, LotType DEF Rows, RowInv, BookInv, Fits, FitsBook
<1>6. Owed(o)' <=> (w \in UnresolvedRows \/ b < n)
  BY <1>1 DEF Owed, UnresolvedRows
<1>7. Due(o)' = IF order[o].side = "BUY" /\ (w \in UnresolvedRows \/ b < n)
                THEN Lot - b ELSE 0
  BY <1>1, <1>2, <1>6 DEF Due
<1>8. Due(o)' <= Due(o)
  BY <1>5, <1>7 DEF Due, FitsBook
<1>9. order[o].side = "BUY" /\ Owed(o) => Due(o)' + (b - order[o].booked) <= Due(o)
  BY <1>5, <1>7 DEF Due
<1> QED
  BY <1>1, <1>2, <1>3, <1>4, <1>8, <1>9 DEF Rows

\* The budget through such a move.
LEMMA DuesMove ==
  ASSUME Types, Rows, Rows', Types', NEW o \in Ids,
         \A p \in Ids : p # o => order'[p] = order[p]
  PROVE  /\ SumFunctionOnSet(Dues, Ids)' = SumFunctionOnSet(Dues, Ids) - Due(o) + Due(o)'
         /\ SumFunctionOnSet(Dues, Ids) \in Nat /\ Due(o) \in Nat /\ Due(o)' \in Nat
<1>1. Amounts(Dues, Ids) /\ Amounts(Dues', Ids)
  <2>1. Amounts(Dues, Ids)'
    BY DuesNat, PTL
  <2> QED
    BY <2>1, DuesNat DEF Amounts
<1>2. Dues[o] = Due(o) /\ Dues'[o] = Due(o)'
  BY DEF Dues
<1>3. \A p \in Ids \ {o} : Dues[p] = Dues'[p]
  <2> TAKE p \in Ids \ {o}
  <2>1. order'[p] = order[p]
    OBVIOUS
  <2>2. Due(p)' = Due(p)
    BY <2>1 DEF Due, Owed, UnresolvedRows
  <2> QED
    BY <2>2 DEF Dues
<1>4. SumFunctionOnSet(Dues', Ids) = SumFunctionOnSet(Dues, Ids) - Dues[o] + Dues'[o]
  <2> DEFINE f == Dues
             g == Dues'
  <2>1. /\ IsFiniteSet(Ids) /\ Amounts(f, Ids) /\ Amounts(g, Ids) /\ o \in Ids
        /\ \A x \in Ids \ {o} : f[x] = g[x]
    BY <1>1, <1>3, IdsFinite
  <2> HIDE DEF f, g
  <2>2. SumFunctionOnSet(g, Ids) = SumFunctionOnSet(f, Ids) - f[o] + g[o]
    BY <2>1, SumChange
  <2> QED
    BY <2>2 DEF f, g
<1>5. SumFunctionOnSet(Dues, Ids)' = SumFunctionOnSet(Dues', Ids)
  BY DEF Ids
<1>6. SumFunctionOnSet(Dues, Ids) \in Nat
  BY <1>1, IdsFinite, SumNat
<1> QED
  BY <1>1, <1>2, <1>4, <1>5, <1>6 DEF Amounts

\* The list of entries through a step that moves orders only.
LEMMA ListGoes ==
  ASSUME Types, Types', ListInv, active' = active, \A p \in Ids : Goes(p)
  PROVE  ListInv'
<1>1. ASSUME NEW i \in DOMAIN active PROVE Listed(active[i])'
  <2>1. active[i].id \in Ids
    <3>1. active[i].id \in IdsIn(active)
      BY IdsOf
    <3> QED
      BY <3>1 DEF Types, ListType
  <2>2. Listed(active[i]) /\ Goes(active[i].id)
    BY <2>1 DEF ListInv
  <2>3. order[active[i].id].filled \in Nat /\ order'[active[i].id].filled \in Nat
    BY <2>1, Fields, OrderFields DEF Types, BookType
  <2> DEFINE e == active[i]
  <2>4. active'[i] = e
    OBVIOUS
  <2> HIDE DEF e
  <2>5. Listed(e) /\ Goes(e.id) /\ order[e.id].filled \in Nat /\ order'[e.id].filled \in Nat
    BY <2>2, <2>3 DEF e
  <2>6. /\ order'[e.id].row # "none" /\ e.side = order'[e.id].side
        /\ e.size \in 0 .. Lot /\ Lot <= e.size + order'[e.id].filled
    BY <2>5, LotType DEF Listed, Goes
  <2> QED
    BY <2>4, <2>6 DEF Listed
<1>2. Distinct(active)'
  BY DEF ListInv, Distinct
<1> QED
  BY <1>1, <1>2 DEF ListInv

\* Steps that only move orders keep the tables, if the budget still covers them.
LEMMA WorldBooks ==
  ASSUME Types, Types', TableInv, UNCHANGED <<pc, job, active, anchor, pending>>,
         Rows', \A p \in Ids : Goes(p),
         \A p \in job.calls : order'[p].row = "PENDING" /\ order'[p].mapped = FALSE,
         Funded', CaughtUp'
  PROVE  TableInv'
<1>1. ListInv'
  BY ListGoes DEF TableInv
<1>2. job.ok \subseteq Ids /\ job.calls \subseteq Ids
  BY JobFields DEF Types, TableInv, Placing
<1>3. Placing'
  BY <1>2 DEF TableInv, Placing, Goes, Known
<1>4. Wanted' /\ PendingInv'
  BY DEF TableInv, Wanted, PendingInv
<1> QED
  BY <1>1, <1>3, <1>4 DEF TableInv

\* A step that leaves the orders, the inventory and readiness as they are.
LEMMA BooksSame ==
  ASSUME TableInv, UNCHANGED <<order, inventory>>, safety'.reconciled => safety.reconciled
  PROVE  Rows' /\ Funded' /\ CaughtUp' /\ (Types => \A p \in Ids : Goes(p))
<1>1. Rows'
  BY DEF TableInv, Rows, RowInv, BookInv, UnresolvedRows
<1>2. Dues' = Dues
  BY DEF Dues, Due, Owed, UnresolvedRows
<1>3. Funded'
  BY <1>2 DEF TableInv, Funded, Ids
<1>4. CaughtUp'
  BY DEF TableInv, CaughtUp, UnresolvedRows
<1>5. ASSUME Types, NEW p \in Ids PROVE Goes(p)
  <2>1. order[p].filled \in Nat
    BY <1>5, Fields
  <2> QED
    BY <2>1 DEF Goes
<1> QED
  BY <1>1, <1>3, <1>4, <1>5

\* A move that books no fill.
LEMMA PlainMove ==
  ASSUME Types, Types', TableInv, UNCHANGED inventory, NEW o \in Ids,
         NEW w \in {"none", "OPEN", "PENDING", "UNKNOWN", "CANCELED", "FILLED", "FAILED"},
         NEW v \in {"none", "sent", "live", "closed", "filled", "refused"},
         NEW m \in BOOLEAN, NEW n \in Nat,
         Becomes(o, w, v, m, n, order[o].booked), Fits(o, w, v, m, n, order[o].booked),
         FitsBook(o, w, v, m, n, order[o].booked)
  PROVE  /\ Rows' /\ Funded' /\ \A p \in Ids : Goes(p) /\ (p # o => order'[p] = order[p])
         /\ order'[o].row = w /\ order'[o].mapped = m /\ order'[o].filled = n
         /\ order'[o].booked = order[o].booked
<1>1. order[o].booked \in Nat /\ Rows
  BY Fields DEF TableInv
<1>2. /\ Rows' /\ \A p \in Ids : Goes(p) /\ (p # o => order'[p] = order[p])
      /\ order'[o].row = w /\ order'[o].mapped = m /\ order'[o].filled = n
      /\ order'[o].booked = order[o].booked
      /\ Due(o)' <= Due(o)
  BY <1>1, BookMove
<1>3. /\ SumFunctionOnSet(Dues, Ids)' = SumFunctionOnSet(Dues, Ids) - Due(o) + Due(o)'
      /\ SumFunctionOnSet(Dues, Ids) \in Nat /\ Due(o) \in Nat /\ Due(o)' \in Nat
  BY <1>1, <1>2, DuesMove
<1>4. inventory \in Nat /\ inventory + SumFunctionOnSet(Dues, Ids) <= MaxInventory
      /\ MaxInventory \in Nat
  BY EngineAssumption DEF TableInv, Funded
<1> DEFINE s == SumFunctionOnSet(Dues, Ids)
           t == SumFunctionOnSet(Dues, Ids)'
<1>5. inventory' + t <= MaxInventory
  <2>1. t = s - Due(o) + Due(o)' /\ s \in Nat /\ Due(o) \in Nat /\ Due(o)' \in Nat
        /\ inventory' = inventory /\ inventory \in Nat /\ inventory + s <= MaxInventory
    BY <1>3, <1>4
  <2> HIDE DEF s, t
  <2> QED
    BY <1>2, <1>4, <2>1
<1>6. Funded'
  BY <1>4, <1>5 DEF Funded
<1> QED
  BY <1>2, <1>6

\* The fields of an order and what is known of its row, by name.
LEMMA MoreFields ==
  ASSUME Types, Rows, NEW o \in Ids
  PROVE  /\ order[o].row \in {"none", "OPEN", "PENDING", "UNKNOWN", "CANCELED", "FILLED",
                              "FAILED"}
         /\ order[o].venue \in {"none", "sent", "live", "closed", "filled", "refused"}
         /\ order[o].mapped \in BOOLEAN
         /\ order[o].filled \in Nat /\ order[o].booked \in Nat
         /\ RowInv(o) /\ BookInv(o) /\ Lot \in Nat /\ Lot > 0
  BY Fields, LotType DEF Rows

\* The venue accepts, refuses, closes or fills an order.
LEMMA VenueBooks ==
  ASSUME Types, Types', TableInv, NEW o \in Ids, VenueStep(o)
  PROVE  TableInv'
<1> DEFINE r == order[o]
<1>1. /\ r.row \in {"none", "OPEN", "PENDING", "UNKNOWN", "CANCELED", "FILLED", "FAILED"}
      /\ r.venue \in {"none", "sent", "live", "closed", "filled", "refused"}
      /\ r.mapped \in BOOLEAN
      /\ r.filled \in Nat /\ r.booked \in Nat
      /\ RowInv(o) /\ BookInv(o) /\ Lot \in Nat /\ Lot > 0
  BY MoreFields DEF TableInv
<1>2. UNCHANGED <<pc, active, job, anchor, pending, inventory, safety>>
  BY DEF VenueStep, engine
<1>3. /\ Rows' /\ Funded' /\ \A p \in Ids : Goes(p) /\ (p # o => order'[p] = order[p])
      /\ order'[o].row = r.row /\ order'[o].mapped = r.mapped
      /\ r.row \in UnresolvedRows
  <2>1. CASE /\ r.venue = "sent"
             /\ \E v \in {"live", "refused"} :
                  Becomes(o, r.row, v, r.mapped, r.filled, r.booked)
    <3>1. PICK v \in {"live", "refused"} :
            Becomes(o, r.row, v, r.mapped, r.filled, r.booked)
      BY <2>1
    <3>2. /\ Fits(o, r.row, v, r.mapped, r.filled, r.booked)
          /\ FitsBook(o, r.row, v, r.mapped, r.filled, r.booked)
          /\ r.row \in UnresolvedRows
      BY <1>1, <2>1 DEF Fits, FitsBook, RowInv, BookInv, UnresolvedRows, Owed
    <3> HIDE DEF r
    <3> QED
      BY <1>1, <1>2, <3>1, <3>2, PlainMove DEF r
  <2>2. CASE /\ r.venue = "live"
             /\ Becomes(o, r.row, "closed", r.mapped, r.filled, r.booked)
    <3>1. /\ Fits(o, r.row, "closed", r.mapped, r.filled, r.booked)
          /\ FitsBook(o, r.row, "closed", r.mapped, r.filled, r.booked)
          /\ r.row \in UnresolvedRows
      BY <1>1, <2>2 DEF Fits, FitsBook, RowInv, BookInv, UnresolvedRows, Owed
    <3> HIDE DEF r
    <3> QED
      BY <1>1, <1>2, <2>2, <3>1, PlainMove DEF r
  <2>3. CASE /\ r.venue = "live"
             /\ Becomes(o, r.row, IF r.filled + 1 = Lot THEN "filled" ELSE r.venue,
                        r.mapped, r.filled + 1, r.booked)
    <3>1. PICK v \in {"filled", "live"} :
            /\ v = IF r.filled + 1 = Lot THEN "filled" ELSE r.venue
            /\ Becomes(o, r.row, v, r.mapped, r.filled + 1, r.booked)
      BY <2>3
    <3>2. r.filled + 1 \in Nat
      BY <1>1
    <3>3. /\ Fits(o, r.row, v, r.mapped, r.filled + 1, r.booked)
          /\ FitsBook(o, r.row, v, r.mapped, r.filled + 1, r.booked)
          /\ r.row \in UnresolvedRows
      BY <1>1, <2>3, <3>1 DEF Fits, FitsBook, RowInv, BookInv, UnresolvedRows, Owed
    <3> HIDE DEF r
    <3> QED
      BY <1>1, <1>2, <3>1, <3>2, <3>3, PlainMove DEF r
  <2> QED
    BY <2>1, <2>2, <2>3, MovedBy
<1>4. CaughtUp'
  <2>1. ASSUME safety.reconciled, NEW p \in Ids
        PROVE  order'[p].row \in UnresolvedRows \/ order'[p].booked = order'[p].filled
    BY <1>3, <2>1 DEF TableInv, CaughtUp
  <2> QED
    BY <1>2, <2>1 DEF CaughtUp, UnresolvedRows
<1>5. \A p \in job.calls : order'[p].row = "PENDING" /\ order'[p].mapped = FALSE
  BY <1>3 DEF TableInv, Placing
<1> QED
  BY <1>2, <1>3, <1>4, <1>5, WorldBooks

\* A fill is booked: what the reservation gives up goes to the inventory.
LEMMA FillBooks ==
  ASSUME Types, Types', TableInv, NEW o \in Ids, ProcessFill(o)
  PROVE  TableInv'
<1> DEFINE r == order[o]
<1>1. /\ r.row \in {"none", "OPEN", "PENDING", "UNKNOWN", "CANCELED", "FILLED", "FAILED"}
      /\ r.venue \in {"none", "sent", "live", "closed", "filled", "refused"}
      /\ r.mapped = TRUE /\ r.booked < r.filled
      /\ r.filled \in Nat /\ r.booked \in Nat
      /\ RowInv(o) /\ BookInv(o) /\ Lot \in Nat /\ Lot > 0
  BY MoreFields DEF TableInv, ProcessFill
<1>2. /\ UNCHANGED <<pc, active, job, anchor, pending, safety>>
      /\ inventory' = IF r.side = "BUY" THEN inventory + 1 ELSE Max0(inventory, 1)
  BY DEF ProcessFill, engine
<1>3. PICK w \in {"FILLED", "OPEN"} :
        /\ w = IF r.booked + 1 = Lot THEN "FILLED" ELSE "OPEN"
        /\ Becomes(o, w, r.venue, r.mapped, r.filled, r.booked + 1)
  BY MovedBy
<1>4. /\ Fits(o, w, r.venue, r.mapped, r.filled, r.booked + 1)
      /\ FitsBook(o, w, r.venue, r.mapped, r.filled, r.booked + 1)
      /\ r.booked + 1 \in Nat /\ Owed(o)
  BY <1>1, <1>3 DEF Fits, FitsBook, RowInv, BookInv, UnresolvedRows, Owed
<1>5. /\ Rows' /\ \A p \in Ids : Goes(p) /\ (p # o => order'[p] = order[p])
      /\ order'[o].row = w /\ order'[o].booked = r.booked + 1 /\ order'[o].filled = r.filled
      /\ Due(o)' <= Due(o)
      /\ r.side = "BUY" => Due(o)' + ((r.booked + 1) - r.booked) <= Due(o)
  <2>1. PICK b \in Nat : b = r.booked + 1
    BY <1>4
  <2>2. /\ Becomes(o, w, r.venue, r.mapped, r.filled, b)
        /\ Fits(o, w, r.venue, r.mapped, r.filled, b)
        /\ FitsBook(o, w, r.venue, r.mapped, r.filled, b)
    BY <1>3, <1>4, <2>1
  <2>3. /\ Rows' /\ \A p \in Ids : Goes(p) /\ (p # o => order'[p] = order[p])
        /\ order'[o].row = w /\ order'[o].booked = b /\ order'[o].filled = r.filled
        /\ Due(o)' <= Due(o)
        /\ order[o].side = "BUY" /\ Owed(o) => Due(o)' + (b - order[o].booked) <= Due(o)
    <3>1. /\ w \in {"none", "OPEN", "PENDING", "UNKNOWN", "CANCELED", "FILLED", "FAILED"}
          /\ r.mapped \in BOOLEAN /\ Rows
      BY <1>1 DEF TableInv
    <3> HIDE DEF r
    <3>2. /\ Rows' /\ \A p \in Ids : Goes(p) /\ (p # o => order'[p] = order[p])
          /\ order'[o].row = w /\ order'[o].booked = b /\ order'[o].filled = r.filled
          /\ Due(o)' <= Due(o)
          /\ order[o].side = "BUY" /\ Owed(o) => Due(o)' + (b - order[o].booked) <= Due(o)
      BY <1>1, <2>2, <3>1, BookMove
    <3> QED
      BY <3>2
  <2> QED
    BY <1>4, <2>1, <2>3
<1>6. Funded'
  <2> DEFINE s == SumFunctionOnSet(Dues, Ids)
             t == SumFunctionOnSet(Dues, Ids)'
  <2>1. /\ t = s - Due(o) + Due(o)' /\ s \in Nat /\ Due(o) \in Nat /\ Due(o)' \in Nat
    BY <1>5, DuesMove DEF TableInv
  <2>2. inventory \in Nat /\ inventory + s <= MaxInventory /\ MaxInventory \in Nat
    BY EngineAssumption DEF TableInv, Funded
  <2>3. r.side = "BUY" => Due(o)' + 1 <= Due(o)
    BY <1>1, <1>5
  <2> HIDE DEF s, t, r
  <2>4. CASE r.side = "BUY"
    <3>1. inventory' = inventory + 1
      BY <1>2, <2>4
    <3>2. inventory' \in Nat /\ inventory' + t <= MaxInventory
      BY <2>1, <2>2, <2>3, <2>4, <3>1
    <3> QED
      BY <3>2 DEF Funded, t
  <2>5. CASE r.side # "BUY"
    <3>1. inventory' = Max0(inventory, 1)
      BY <1>2, <2>5
    <3>2. inventory' \in Nat /\ inventory' <= inventory
      BY <2>2, <3>1 DEF Max0
    <3>3. inventory' + t <= MaxInventory
      BY <1>5, <2>1, <2>2, <3>2
    <3> QED
      BY <3>2, <3>3 DEF Funded, t
  <2> QED
    BY <2>4, <2>5
<1>7. CaughtUp'
  <2>1. order'[o].row \in UnresolvedRows \/ order'[o].booked = order'[o].filled
    <3>1. CASE r.booked + 1 = Lot
      BY <1>1, <1>5, <3>1 DEF BookInv
    <3>2. CASE r.booked + 1 # Lot
      BY <1>3, <1>5, <3>2 DEF UnresolvedRows
    <3> QED
      BY <3>1, <3>2
  <2>2. ASSUME safety.reconciled, NEW p \in Ids
        PROVE  order'[p].row \in UnresolvedRows \/ order'[p].booked = order'[p].filled
    BY <1>5, <2>1, <2>2 DEF TableInv, CaughtUp
  <2> QED
    BY <1>2, <2>2 DEF CaughtUp, UnresolvedRows
<1>8. \A p \in job.calls : order'[p].row = "PENDING" /\ order'[p].mapped = FALSE
  BY <1>1, <1>5 DEF TableInv, Placing
<1> QED
  BY <1>2, <1>5, <1>6, <1>7, <1>8, WorldBooks

\* The stream reports a cancellation: readiness drops until a pass has caught up.
LEMMA StreamBooks ==
  ASSUME Types, Types', TableInv, NEW o \in Ids, StreamCancel(o)
  PROVE  TableInv'
<1> DEFINE r == order[o]
<1>1. /\ r.row \in {"none", "OPEN", "PENDING", "UNKNOWN", "CANCELED", "FILLED", "FAILED"}
      /\ r.venue = "closed" /\ r.mapped = TRUE
      /\ r.filled \in Nat /\ r.booked \in Nat
      /\ RowInv(o) /\ BookInv(o) /\ Lot \in Nat /\ Lot > 0
  BY MoreFields DEF TableInv, StreamCancel
<1>2. /\ UNCHANGED <<pc, active, job, anchor, pending, inventory>>
      /\ safety' = [safety EXCEPT !.reconciled = FALSE]
  BY DEF StreamCancel, engine
<1>3. /\ Fits(o, "CANCELED", r.venue, r.mapped, r.filled, r.booked)
      /\ FitsBook(o, "CANCELED", r.venue, r.mapped, r.filled, r.booked)
  BY <1>1 DEF Fits, FitsBook, RowInv, BookInv, UnresolvedRows, Owed
<1>4. Becomes(o, "CANCELED", r.venue, r.mapped, r.filled, r.booked)
  BY MovedBy
<1>5. /\ Rows' /\ Funded' /\ \A p \in Ids : Goes(p) /\ (p # o => order'[p] = order[p])
  <2>1. /\ r.mapped \in BOOLEAN
        /\ r.venue \in {"none", "sent", "live", "closed", "filled", "refused"}
    BY <1>1
  <2> HIDE DEF r
  <2> QED
    BY <1>1, <1>2, <1>3, <1>4, <2>1, PlainMove DEF r
<1>6. CaughtUp'
  BY <1>2 DEF CaughtUp, Types, FlagType
<1>7. \A p \in job.calls : order'[p].row = "PENDING" /\ order'[p].mapped = FALSE
  BY <1>1, <1>5 DEF TableInv, Placing
<1> QED
  BY <1>2, <1>5, <1>6, <1>7, WorldBooks

\* A call for a cancel returns.
LEMMA CancelBooks ==
  ASSUME Types, Types', TableInv, NEW o \in Ids, CancelReturns(o)
  PROVE  TableInv'
<1> DEFINE r == order[o]
<1>1. /\ r.row \in {"none", "OPEN", "PENDING", "UNKNOWN", "CANCELED", "FILLED", "FAILED"}
      /\ r.venue \in {"none", "sent", "live", "closed", "filled", "refused"}
      /\ r.mapped \in BOOLEAN
      /\ r.filled \in Nat /\ r.booked \in Nat
      /\ RowInv(o) /\ BookInv(o) /\ Lot \in Nat /\ Lot > 0
  BY MoreFields DEF TableInv
<1>2. /\ UNCHANGED <<pc, active, anchor, pending, inventory>> /\ pc = "cancel"
      /\ CancelConfirmed(o) \/ CancelMatched(o) \/ CancelUnconfirmed(o)
  BY DEF CancelReturns
<1>3. job'.calls = job.calls /\ job'.want = job.want
  BY <1>2 DEF CancelConfirmed, CancelMatched, CancelUnconfirmed, Types, JobType
<1>4. Rows' /\ Funded' /\ CaughtUp' /\ \A p \in Ids : Goes(p)
  <2>1. CASE CancelUnconfirmed(o)
    BY <1>2, <2>1, BooksSame DEF CancelUnconfirmed
  <2>2. CASE CancelConfirmed(o)
    <3>1. r.mapped = TRUE /\ r.venue \in {"live", "closed"}
          /\ safety' = [safety EXCEPT !.reconciled = FALSE]
          /\ Becomes(o, "CANCELED", "closed", r.mapped, r.filled, r.booked)
      BY <1>1, <2>2, MovedBy DEF CancelConfirmed
    <3>2. /\ Fits(o, "CANCELED", "closed", r.mapped, r.filled, r.booked)
          /\ FitsBook(o, "CANCELED", "closed", r.mapped, r.filled, r.booked)
      BY <1>1, <3>1 DEF Fits, FitsBook, RowInv, BookInv, UnresolvedRows, Owed
    <3>3. /\ Rows' /\ Funded' /\ \A p \in Ids : Goes(p)
      <4> HIDE DEF r
      <4> QED
        BY <1>1, <1>2, <3>1, <3>2, PlainMove DEF r
    <3>4. CaughtUp'
      BY <3>1 DEF CaughtUp, Types, FlagType
    <3> QED
      BY <3>3, <3>4
  <2>3. CASE CancelMatched(o)
    <3>1. /\ r.mapped = TRUE /\ r.venue = "filled" /\ safety' = HaltIf(TRUE)
          /\ Becomes(o, "UNKNOWN", r.venue, r.mapped, r.filled, r.booked)
      BY <1>1, <2>3, MovedBy DEF CancelMatched
    <3>2. /\ Fits(o, "UNKNOWN", r.venue, r.mapped, r.filled, r.booked)
          /\ FitsBook(o, "UNKNOWN", r.venue, r.mapped, r.filled, r.booked)
      BY <1>1, <3>1 DEF Fits, FitsBook, RowInv, BookInv, UnresolvedRows, Owed
    <3>3. /\ Rows' /\ Funded' /\ \A p \in Ids : Goes(p) /\ (p # o => order'[p] = order[p])
          /\ order'[o].row = "UNKNOWN"
      <4> HIDE DEF r
      <4> QED
        BY <1>1, <1>2, <3>1, <3>2, PlainMove DEF r
    <3>4. safety'.reconciled = safety.reconciled
      BY <3>1 DEF HaltIf, Types, FlagType
    <3>5. CaughtUp'
      <4>1. ASSUME safety.reconciled, NEW p \in Ids
            PROVE  order'[p].row \in UnresolvedRows \/ order'[p].booked = order'[p].filled
        BY <3>3, <4>1 DEF TableInv, CaughtUp, UnresolvedRows
      <4> QED
        BY <3>4, <4>1 DEF CaughtUp, UnresolvedRows
    <3> QED
      BY <3>3, <3>5
  <2> QED
    BY <1>2, <2>1, <2>2, <2>3
<1>5. ListInv'
  BY <1>2, <1>4, ListGoes DEF TableInv
<1>6. Placing' /\ Wanted' /\ PendingInv'
  BY <1>2, <1>3 DEF TableInv, Placing, Wanted, PendingInv
<1> QED
  BY <1>4, <1>5, <1>6 DEF TableInv

\* A call for a new order returns.
LEMMA AnswerBooks ==
  ASSUME Types, Types', TableInv, NEW o \in Ids, CreateReturns(o)
  PROVE  TableInv'
<1> DEFINE r == order[o]
<1>1. /\ r.row = "PENDING" /\ r.mapped = FALSE
      /\ r.venue \in {"none", "sent", "live", "closed", "filled", "refused"}
      /\ r.filled \in Nat /\ r.booked \in Nat
      /\ RowInv(o) /\ BookInv(o) /\ Lot \in Nat /\ Lot > 0
  BY MoreFields DEF TableInv, Placing, CreateReturns
<1>2. /\ UNCHANGED <<pc, active, anchor, pending, inventory>> /\ pc = "place"
      /\ o \in job.calls /\ job'.want = job.want
  BY DEF CreateReturns, Types, JobType
<1>3. PICK w \in {"OPEN", "UNKNOWN", "FAILED", "PENDING"}, m \in BOOLEAN :
        /\ Becomes(o, w, r.venue, m, r.filled, r.booked)
        /\ job'.calls = job.calls \ {o}
        /\ \/ job'.ok = job.ok \union {o} /\ w = "OPEN" /\ m = TRUE
              /\ r.venue \in {"live", "closed", "filled"}
           \/ /\ job'.ok = job.ok /\ w # "OPEN"
              /\ w = "FAILED" => r.venue = "refused"
              /\ m = TRUE => r.filled > 0
  BY Answered
<1>4. /\ Fits(o, w, r.venue, m, r.filled, r.booked)
      /\ FitsBook(o, w, r.venue, m, r.filled, r.booked)
  <2>1. r.venue \in {"none", "sent", "refused"} => m = FALSE /\ r.filled = 0
    BY <1>1, <1>3 DEF RowInv
  <2> QED
    BY <1>1, <1>3, <2>1 DEF Fits, FitsBook, RowInv, BookInv, UnresolvedRows, Owed
<1>5. /\ Rows' /\ Funded' /\ \A p \in Ids : Goes(p) /\ (p # o => order'[p] = order[p])
      /\ order'[o].row = w /\ order'[o].booked = r.booked /\ order'[o].filled = r.filled
  <2>1. w \in {"none", "OPEN", "PENDING", "UNKNOWN", "CANCELED", "FILLED", "FAILED"}
    OBVIOUS
  <2> HIDE DEF r
  <2> QED
    BY <1>1, <1>2, <1>3, <1>4, <2>1, PlainMove DEF r
<1>6. safety'.reconciled => safety.reconciled
  BY DEF CreateReturns, Outcome, HaltIf, Types, FlagType
<1>7. CaughtUp'
  <2>1. order'[o].row \in UnresolvedRows \/ order'[o].booked = order'[o].filled
    BY <1>1, <1>3, <1>5 DEF RowInv, UnresolvedRows
  <2>2. ASSUME safety.reconciled, NEW p \in Ids
        PROVE  order'[p].row \in UnresolvedRows \/ order'[p].booked = order'[p].filled
    BY <1>5, <2>1, <2>2 DEF TableInv, CaughtUp
  <2> QED
    BY <1>6, <2>2 DEF CaughtUp, UnresolvedRows
<1>8. ListInv'
  BY <1>2, <1>5, ListGoes DEF TableInv
<1>9. Placing'
  <2>1. job.ok \subseteq Ids /\ job'.ok \subseteq Ids /\ Known' = Known
    BY <1>2 DEF Types, JobType, Known
  <2>2. \A p \in job'.calls : p \in Ids /\ order'[p].row = "PENDING" /\ order'[p].mapped = FALSE
    BY <1>3, <1>5 DEF TableInv, Placing
  <2>3. \A p \in job'.ok \union job'.calls : p \in job.ok \union job.calls
    BY <1>2, <1>3
  <2>4. \A p \in job'.ok \union job'.calls : order'[p].row # "none" /\ p \notin Known
    BY <1>2, <1>5, <2>1, <2>3 DEF TableInv, Placing, Goes
  <2> QED
    BY <1>2, <2>1, <2>2, <2>4 DEF Placing
<1>10. Wanted' /\ PendingInv'
  BY <1>2 DEF TableInv, Wanted, PendingInv
<1> QED
  BY <1>5, <1>7, <1>8, <1>9, <1>10 DEF TableInv

\* A reconciliation pass whose reads find every fill booked: nothing is owed
\* that was not, and what it closes has no fill left.
LEMMA ReconcileBooks ==
  ASSUME Types, Types', TableInv, Reconcile
  PROVE  TableInv'
<1>1. UNCHANGED <<pc, active, job, anchor, pending, inventory>>
      /\ \A o \in Ids : order[o].mapped => order[o].booked = order[o].filled
  BY DEF Reconcile, engine
<1>2. ASSUME NEW p \in Ids
      PROVE  /\ RowInv(p)' /\ BookInv(p)' /\ Goes(p) /\ Due(p)' <= Due(p)
             /\ order'[p].row \in UnresolvedRows \/ order'[p].booked = order'[p].filled
             /\ order[p].row = "PENDING" /\ ~order[p].mapped => order'[p] = order[p]
  <2>1. /\ order[p].row \in {"none", "OPEN", "PENDING", "UNKNOWN", "CANCELED", "FILLED",
                             "FAILED"}
        /\ order[p].venue \in {"none", "sent", "live", "closed", "filled", "refused"}
        /\ order[p].mapped \in BOOLEAN
        /\ order[p].filled \in Nat /\ order[p].booked \in Nat
        /\ RowInv(p) /\ BookInv(p) /\ Lot \in Nat /\ Lot > 0
    BY MoreFields DEF TableInv
  <2>2. order[p].mapped => order[p].booked = order[p].filled
    BY <1>1
  <2>3. CASE order'[p] = order[p]
    <3>1. Due(p)' = Due(p) /\ Due(p) \in Nat
      BY <2>1, <2>3 DEF Due, Owed, UnresolvedRows, RowInv, BookInv
    <3>2. order'[p].row \in UnresolvedRows \/ order'[p].booked = order'[p].filled
      BY <2>1, <2>2, <2>3 DEF RowInv, BookInv, UnresolvedRows
    <3> QED
      BY <2>1, <2>3, <3>1, <3>2 DEF RowInv, BookInv, Goes, UnresolvedRows
  <2>4. CASE /\ ~(order[p].row \in {"PENDING", "UNKNOWN"} /\ ~order[p].mapped)
             /\ order[p].row \in UnresolvedRows
             /\ \E w \in {"OPEN", "CANCELED", "FILLED"} :
                  /\ order'[p] = Moved(order[p], w, order[p].venue, order[p].mapped,
                                       order[p].filled, order[p].booked)
                  /\ order[p].venue = "live" => w = "OPEN"
    <3>1. PICK w \in {"OPEN", "CANCELED", "FILLED"} :
            /\ order'[p].row = w /\ order'[p].venue = order[p].venue
            /\ order'[p].mapped = order[p].mapped /\ order'[p].post = order[p].post
            /\ order'[p].filled = order[p].filled /\ order'[p].booked = order[p].booked
            /\ order'[p].side = order[p].side
            /\ order[p].venue = "live" => w = "OPEN"
      BY <2>4 DEF Moved
    <3>2. order[p].venue # "sent" /\ order[p].mapped
      BY <2>1, <2>4 DEF RowInv, BookInv, UnresolvedRows
    <3>3. RowInv(p)' /\ BookInv(p)' /\ Goes(p)
      BY <2>1, <3>1, <3>2 DEF RowInv, BookInv, UnresolvedRows, Goes
    <3>4. Owed(p)
      BY <2>4 DEF Owed
    <3>5. Due(p)' <= Due(p)
      <4>1. order[p].booked <= Lot
        BY <2>1 DEF RowInv, BookInv
      <4> QED
        BY <2>1, <3>1, <3>4, <4>1 DEF Due
    <3>6. order'[p].booked = order'[p].filled
      BY <2>2, <3>1, <3>2
    <3> QED
      BY <2>4, <3>2, <3>3, <3>5, <3>6
  <2> QED
    BY <2>3, <2>4, Reconciled
<1>3. Rows' /\ CaughtUp' /\ \A p \in Ids : Goes(p)
  BY <1>2 DEF Rows, CaughtUp, UnresolvedRows
<1>4. Funded'
  <2> DEFINE f == Dues'
             g == Dues
             s == SumFunctionOnSet(f, Ids)
             t == SumFunctionOnSet(g, Ids)
  <2>1. Amounts(f, Ids) /\ Amounts(g, Ids)
    <3>1. Amounts(Dues, Ids)'
      BY <1>3, DuesNat, PTL
    <3> QED
      BY <3>1, DuesNat DEF Amounts, TableInv
  <2>2. \A p \in Ids : f[p] <= g[p]
    BY <1>2 DEF Dues
  <2>3. inventory \in Nat /\ inventory + t <= MaxInventory /\ MaxInventory \in Nat
    BY EngineAssumption DEF TableInv, Funded
  <2>4. s <= t /\ s \in Nat /\ t \in Nat
    <3> HIDE DEF f, g
    <3> QED
      BY <2>1, <2>2, IdsFinite, SumMonotone, SumNat
  <2>5. inventory' = inventory /\ SumFunctionOnSet(Dues, Ids)' = s
    BY <1>1 DEF Ids
  <2> HIDE DEF s, t
  <2>6. inventory' \in Nat /\ inventory' + s <= MaxInventory
    BY <2>3, <2>4, <2>5
  <2> QED
    BY <2>5, <2>6 DEF Funded
<1>5. \A p \in job.calls : order'[p].row = "PENDING" /\ order'[p].mapped = FALSE
  BY <1>2 DEF TableInv, Placing
<1> QED
  BY <1>1, <1>3, <1>4, <1>5, WorldBooks

\* The budget when an order is admitted: while the process is ready, the
\* reservations the admission sums are all that is owed.
LEMMA AdmittedFunds ==
  ASSUME Types, TableInv, Admitted("BUY")
  PROVE  inventory + SumFunctionOnSet(Dues, Ids) + Lot <= MaxInventory
<1> DEFINE f == Dues
           g == Unbooked
           S == Unresolved("BUY")
           s == SumFunctionOnSet(f, Ids)
           t == SumFunctionOnSet(g, S)
<1>1. Amounts(f, Ids)
  BY DuesNat DEF TableInv
<1>2. S \subseteq Ids /\ IsFiniteSet(S)
  BY IdsFinite, FS_Subset DEF Unresolved
<1>3. Amounts(g, S)
  <2> SUFFICES ASSUME NEW o \in S PROVE g[o] \in Nat
    BY DEF Amounts
  <2>1. /\ order[o].filled \in Nat /\ order[o].booked \in Nat
        /\ RowInv(o) /\ BookInv(o) /\ Lot \in Nat /\ o \in Ids
    BY <1>2, MoreFields DEF TableInv
  <2> QED
    BY <2>1 DEF Unbooked, RowInv, BookInv
<1>4. ASSUME NEW o \in Ids, f[o] # 0 PROVE o \in S /\ f[o] <= g[o]
  <2>1. order[o].side = "BUY" /\ Owed(o) /\ f[o] = Lot - order[o].booked
    BY <1>4 DEF Dues, Due
  <2>2. safety.reconciled
    BY DEF Admitted
  <2>3. order[o].row \in UnresolvedRows
    <3>1. order[o].filled \in Nat /\ order[o].booked \in Nat
      BY MoreFields DEF TableInv
    <3> QED
      BY <2>1, <2>2, <3>1 DEF Owed, TableInv, CaughtUp
  <2>4. g[o] = Lot - order[o].booked
    BY DEF Unbooked
  <2>5. f[o] \in Nat
    BY <1>1 DEF Amounts
  <2> HIDE DEF f, g
  <2> QED
    BY <2>1, <2>3, <2>4, <2>5 DEF Unresolved
<1>5. s <= t /\ s \in Nat /\ t \in Nat
  <2> HIDE DEF f, g, S
  <2> QED
    BY <1>1, <1>2, <1>3, <1>4, IdsFinite, SumCovered, SumNat
<1>6. inventory + t + Lot <= MaxInventory
  BY DEF Admitted, Held
<1>7. inventory \in Nat /\ Lot \in Nat /\ MaxInventory \in Nat
  BY EngineAssumption DEF TableInv, Funded
<1>8. inventory + s + Lot <= MaxInventory
  <2> HIDE DEF s, t
  <2> QED
    BY <1>5, <1>6, <1>7
<1> QED
  BY <1>8

-------------------------------------------------------------------------------
\* Lists of entries: what they keep, and how long they can be.

\* A list from which entries are taken has only entries it had, each once.
LEMMA WithoutList ==
  ASSUME NEW s, s \in Seq(ToSet(s)), NEW S
  PROVE  /\ \A i \in DOMAIN Without(s, S) : \E j \in DOMAIN s : Without(s, S)[i] = s[j]
         /\ Distinct(s) => Distinct(Without(s, S))
         /\ IdsIn(s) \cap S = {} => Without(s, S) = s
<1> DEFINE K == {i \in DOMAIN s : s[i].id \notin S}
           kept == Ranked(K)
           w == Without(s, S)
<1>1. DOMAIN s = 1 .. Len(s) /\ Len(s) \in Nat
  OBVIOUS
<1>2. K \subseteq Nat /\ K \in SUBSET (1 .. Len(s))
  BY <1>1
<1>3. IsFiniteSet(K)
  <2>1. IsFiniteSet(1 .. Len(s))
    BY <1>1, FS_Interval
  <2> QED
    BY <1>2, <2>1, FS_Subset
<1>4. /\ DOMAIN kept = 1 .. Cardinality(K) /\ Cardinality(K) \in Nat
      /\ \A i \in DOMAIN kept : kept[i] \in K
      /\ \A i \in DOMAIN kept : Cardinality({y \in K : y <= kept[i]}) = i
  <2> HIDE DEF K
  <2> QED
    BY <1>2, <1>3, RankedOnto
<1>5. w = [i \in DOMAIN kept |-> s[kept[i]]]
  BY DEF Without
<1> HIDE DEF w
<1>6. \A i \in DOMAIN w : kept[i] \in DOMAIN s /\ w[i] = s[kept[i]]
  <2> HIDE DEF kept
  <2> QED
    BY <1>4, <1>5
<1>7. ASSUME Distinct(s), NEW i \in DOMAIN w, NEW j \in DOMAIN w, w[i].id = w[j].id
      PROVE  i = j
  <2>1. kept[i] = kept[j]
    <3> HIDE DEF kept
    <3> QED
      BY <1>6, <1>7 DEF Distinct
  <2> HIDE DEF kept, K
  <2> QED
    BY <1>4, <1>5, <2>1
<1>8. ASSUME IdsIn(s) \cap S = {} PROVE w = s
  <2>1. K = 1 .. Len(s)
    BY <1>1, <1>8, IdsOf
  <2>2. Cardinality(K) = Len(s)
    <3>1. Len(s) \in Nat /\ Cardinality(1 .. Len(s)) = Len(s)
      BY <1>1, FS_Interval
    <3> HIDE DEF K
    <3> QED
      BY <2>1, <3>1
  <2>3. ASSUME NEW i \in DOMAIN kept PROVE kept[i] = i
    <3> DEFINE k == kept[i]
    <3>1. k \in 1 .. Len(s) /\ i \in Nat
      <4> HIDE DEF kept
      <4> QED
        BY <1>4, <2>1, <2>3
    <3>2. {y \in K : y <= k} = 1 .. k
      <4> HIDE DEF k, K
      <4> QED
        BY <1>1, <2>1, <3>1
    <3>3. Cardinality({y \in K : y <= k}) = i
      BY <1>4
    <3>4. k \in Nat /\ Cardinality(1 .. k) = k
      <4>1. k \in Nat
        <5> HIDE DEF k
        <5> QED
          BY <1>1, <3>1
      <4> HIDE DEF k
      <4> QED
        BY <4>1, FS_Interval
    <3> HIDE DEF k, K
    <3> QED
      BY <3>2, <3>3, <3>4 DEF k
  <2> HIDE DEF kept, K
  <2> QED
    BY <1>1, <1>4, <1>5, <2>2, <2>3
<1> HIDE DEF kept, K
<1> QED
  BY <1>6, <1>7, <1>8 DEF Distinct, w

\* An order has one entry, so a list of entries is no longer than the orders.
LEMMA ListLength ==
  ASSUME NEW s, s \in Seq(ToSet(s)), IdsIn(s) \subseteq Ids, Distinct(s)
  PROVE  Cardinality(IdsIn(s)) = Len(s) /\ Len(s) \in 0 .. MaxOrders
<1> DEFINE h == [i \in DOMAIN s |-> s[i].id]
<1>1. DOMAIN s = 1 .. Len(s) /\ Len(s) \in Nat
  OBVIOUS
<1>2. h \in [DOMAIN s -> IdsIn(s)] /\ \A i \in DOMAIN s : h[i] = s[i].id
  BY IdsOf
<1> HIDE DEF h
<1>3. h \in Injection(DOMAIN s, IdsIn(s))
  BY <1>2 DEF Injection, IsInjective, Distinct
<1>4. h \in Surjection(DOMAIN s, IdsIn(s))
  <2>1. \A o \in IdsIn(s) : \E i \in DOMAIN s : h[i] = o
    BY <1>2, IdsOf
  <2> QED
    BY <1>2, <2>1 DEF Surjection
<1>5. ExistsBijection(DOMAIN s, IdsIn(s))
  BY <1>3, <1>4 DEF Bijection, ExistsBijection
<1>6. IsFiniteSet(DOMAIN s) /\ Cardinality(DOMAIN s) = Len(s)
  <2>1. IsFiniteSet(1 .. Len(s)) /\ Cardinality(1 .. Len(s)) = Len(s)
    BY <1>1, FS_Interval
  <2> QED
    BY <1>1, <2>1
<1>7. Cardinality(IdsIn(s)) = Len(s)
  BY <1>5, <1>6, FS_Bijection
<1>8. Cardinality(IdsIn(s)) <= Cardinality(Ids)
  BY IdsFinite, FS_Subset
<1>9. MaxOrders \in Nat
  BY EngineAssumption
<1> QED
  BY <1>1, <1>7, <1>8, <1>9, IdsFinite

\* The sizes of the BUY entries.
Sizes(s) == [i \in DOMAIN s |-> s[i].size]
Buys(s)  == {i \in DOMAIN s : s[i].side = "BUY"}

\* The BUY entries ask for at most one lot per order.
LEMMA BuyUnitsBound ==
  ASSUME NEW s, s \in Seq(ToSet(s)), IdsIn(s) \subseteq Ids, Distinct(s),
         \A i \in DOMAIN s : s[i].size \in 0 .. Lot
  PROVE  BuyUnits(s) \in 0 .. (Lot * MaxOrders)
<1> DEFINE f == Sizes(s)
           S == Buys(s)
<1>1. BuyUnits(s) = SumFunctionOnSet(f, S)
  BY DEF BuyUnits, Sizes, Buys
<1>2. DOMAIN s = 1 .. Len(s) /\ Len(s) \in Nat
  OBVIOUS
<1>3. /\ IsFiniteSet(DOMAIN s) /\ Cardinality(DOMAIN s) = Len(s)
  <2>1. IsFiniteSet(1 .. Len(s)) /\ Cardinality(1 .. Len(s)) = Len(s)
    BY <1>2, FS_Interval
  <2> QED
    BY <1>2, <2>1
<1>4. /\ IsFiniteSet(S) /\ Cardinality(S) <= Len(s) /\ Cardinality(S) \in Nat
  BY <1>3, FS_Subset, FS_CardinalityType DEF Buys
<1>5. Amounts(f, S) /\ \A i \in S : f[i] <= Lot
  BY LotType DEF Amounts, Sizes, Buys
<1>6. SumFunctionOnSet(f, S) \in Nat /\ SumFunctionOnSet(f, S) <= Cardinality(S) * Lot
  <2> HIDE DEF f, S
  <2> QED
    BY <1>4, <1>5, LotType, SumNat, SumBounded
<1>7. Len(s) <= MaxOrders /\ MaxOrders \in Nat /\ Lot \in Nat
  BY EngineAssumption, ListLength
<1>8. PICK c \in Nat : c = Cardinality(S)
  BY <1>4
<1>9. c <= MaxOrders
  BY <1>2, <1>4, <1>7, <1>8
<1>10. c * Lot <= Lot * MaxOrders
  BY <1>7, <1>9
<1>11. PICK m \in Nat : m = Lot * MaxOrders
  BY <1>7
<1> DEFINE t == SumFunctionOnSet(f, S)
<1>12. t \in Nat /\ t <= c * Lot /\ c * Lot <= m
  BY <1>6, <1>8, <1>10, <1>11
<1>13. PICK n \in Nat : n = c * Lot
  BY <1>7
<1>14. BuyUnits(s) = t
  BY <1>1
<1> HIDE DEF t
<1>15. t \in 0 .. m
  BY <1>12, <1>13
<1> QED
  BY <1>11, <1>14, <1>15

\* What a list of entries is, in every state of the argument.
LEMMA ActiveList ==
  ASSUME Types, ListInv
  PROVE  /\ active \in Seq(ToSet(active)) /\ IdsIn(active) \subseteq Ids /\ Distinct(active)
         /\ \A i \in DOMAIN active : active[i].id \in Ids /\ Listed(active[i])
                                     /\ active[i].size \in 0 .. Lot
<1>1. active \in Seq(ToSet(active)) /\ IdsIn(active) \subseteq Ids /\ Distinct(active)
  BY DEF Types, ListType, ListInv
<1>2. \A i \in DOMAIN active : active[i].id \in Ids /\ Listed(active[i])
  BY <1>1, IdsOf DEF ListInv
<1> QED
  BY <1>1, <1>2 DEF Listed

\* So the notional that is reported is bounded.
LEMMA PendingBound ==
  ASSUME Types, ListInv
  PROVE  BuyUnits(active) \in 0 .. (Lot * MaxOrders)
BY ActiveList, BuyUnitsBound

\* A step of the engine alone.
LEMMA EngineBooks ==
  ASSUME Types, Types', TableInv, UNCHANGED <<order, inventory>>,
         safety'.reconciled => safety.reconciled,
         ListInv', job'.calls = {}, pc' # "place" \/ job'.ok = {}, Wanted',
         \/ pending' = pending /\ (pc' = "idle" => anchor' = 0)
         \/ UNCHANGED <<pc, active, anchor, pending>>
         \/ pending' = BuyUnits(active'),
         pc' = "booted" => anchor' = 0
  PROVE  TableInv'
<1>1. Rows' /\ Funded' /\ CaughtUp'
  BY BooksSame
<1>2. Placing'
  BY DEF Placing
<1>3. PendingInv'
  <2>1. (BuyUnits(active) \in 0 .. (Lot * MaxOrders))'
    BY PendingBound, PTL
  <2>2. BuyUnits(active') \in 0 .. (Lot * MaxOrders)
    BY <2>1 DEF BuyUnits
  <2> QED
    BY <2>2 DEF TableInv, PendingInv
<1> QED
  BY <1>1, <1>2, <1>3 DEF TableInv

\* The entries of a set of orders: one for an order, and the same with other sizes.
LEMMA EntriesList ==
  ASSUME NEW S, S \subseteq Ids
  PROVE  /\ \A i \in DOMAIN Entries(S) : \E o \in S : Entries(S)[i] = Entry(o)
         /\ Distinct(Entries(S))
<1> DEFINE e == Entries(S)
           r == Ranked(S)
<1>1. S \subseteq Nat /\ IsFiniteSet(S)
  BY IdsFinite, FS_Subset
<1>2. /\ \A i \in DOMAIN r : r[i] \in S
      /\ \A i \in DOMAIN r : Cardinality({y \in S : y <= r[i]}) = i
  BY <1>1, RankedOnto
<1>3. e = [i \in DOMAIN r |-> Entry(r[i])]
  BY DEF Entries
<1>4. \A o : Entry(o).id = o
  BY DEF Entry
<1> HIDE DEF e, r
<1>5. \A i \in DOMAIN e : i \in DOMAIN r /\ e[i] = Entry(r[i]) /\ e[i].id = r[i]
  BY <1>3, <1>4
<1>6. ASSUME NEW i \in DOMAIN e, NEW j \in DOMAIN e, e[i].id = e[j].id PROVE i = j
  BY <1>2, <1>5, <1>6
<1>7. Distinct(e)
  BY <1>6 DEF Distinct
<1> QED
  BY <1>2, <1>5, <1>7 DEF e

\* What place_orders adds: one entry for every id that came back.
LEMMA PlacedList ==
  ASSUME job.ok \subseteq Ids
  PROVE  /\ \A i \in DOMAIN Placed : \E o \in job.ok :
              /\ Placed[i].id = o /\ Placed[i].side = order[o].side
              /\ Placed[i].size = Lot
         /\ Distinct(Placed)
<1> DEFINE e == Entries(job.ok)
           p == Placed
<1>1. /\ \A i \in DOMAIN e : \E o \in job.ok : e[i] = Entry(o)
      /\ Distinct(e)
  BY EntriesList
<1>2. p = [i \in DOMAIN e |-> [e[i] EXCEPT !.size = Lot]]
  BY DEF Placed
<1>3. \A o : LET x == [Entry(o) EXCEPT !.size = Lot]
             IN  /\ Entry(o).id = o /\ x.id = o /\ x.side = order[o].side /\ x.size = Lot
  BY DEF Entry
<1> HIDE DEF e, p
<1>4. ASSUME NEW i \in DOMAIN p
      PROVE  /\ i \in DOMAIN e /\ e[i].id = p[i].id
             /\ \E o \in job.ok : /\ p[i].id = o /\ p[i].side = order[o].side
                                  /\ p[i].size = Lot
  <2>1. i \in DOMAIN e /\ p[i] = [e[i] EXCEPT !.size = Lot]
    BY <1>2
  <2>2. PICK o \in job.ok : e[i] = Entry(o)
    BY <1>1, <2>1
  <2>3. p[i] = [Entry(o) EXCEPT !.size = Lot]
    BY <2>1, <2>2
  <2> QED
    BY <1>3, <2>1, <2>2, <2>3
<1>5. Distinct(p)
  BY <1>1, <1>4 DEF Distinct
<1> QED
  BY <1>4, <1>5 DEF p

\* Two lists with different ids, joined, have every entry of both once.
LEMMA JoinedList ==
  ASSUME NEW s, NEW t, s \in Seq(ToSet(s)), t \in Seq(ToSet(t)), Distinct(s), Distinct(t),
         IdsIn(s) \cap IdsIn(t) = {}
  PROVE  /\ Distinct(s \o t)
         /\ \A i \in DOMAIN (s \o t) : \/ \E j \in DOMAIN s : (s \o t)[i] = s[j]
                                       \/ \E j \in DOMAIN t : (s \o t)[i] = t[j]
<1> DEFINE A == ToSet(s) \union ToSet(t)
           j == s \o t
           n == Len(s) + Len(t)
<1>1. s \in Seq(A) /\ t \in Seq(A) /\ Len(s) \in Nat /\ Len(t) \in Nat
      /\ DOMAIN s = 1 .. Len(s) /\ DOMAIN t = 1 .. Len(t)
  <2>1. s \in [1 .. Len(s) -> ToSet(s)] /\ t \in [1 .. Len(t) -> ToSet(t)]
        /\ Len(s) \in Nat /\ Len(t) \in Nat
    OBVIOUS
  <2>2. s \in [1 .. Len(s) -> A] /\ t \in [1 .. Len(t) -> A]
    BY <2>1
  <2> HIDE DEF A
  <2> QED
    BY <2>1, <2>2
<1> HIDE DEF A
<1>2. /\ DOMAIN j = 1 .. n
      /\ \A i \in 1 .. n : j[i] = IF i <= Len(s) THEN s[i] ELSE t[i - Len(s)]
  BY <1>1
<1> HIDE DEF j
<1>3. ASSUME NEW i \in DOMAIN j
      PROVE  \/ i <= Len(s) /\ i \in DOMAIN s /\ j[i] = s[i] /\ j[i].id \in IdsIn(s)
             \/ /\ ~(i <= Len(s)) /\ i - Len(s) \in DOMAIN t /\ j[i] = t[i - Len(s)]
                /\ j[i].id \in IdsIn(t)
  <2>1. CASE i <= Len(s)
    BY <1>1, <1>2, <2>1, IdsOf
  <2>2. CASE ~(i <= Len(s))
    <3>1. i - Len(s) \in 1 .. Len(t)
      BY <1>1, <1>2, <2>2
    <3> QED
      BY <1>1, <1>2, <2>2, <3>1, IdsOf
  <2> QED
    BY <2>1, <2>2
<1>4. ASSUME NEW i \in DOMAIN j, NEW k \in DOMAIN j, j[i].id = j[k].id PROVE i = k
  <2>1. CASE i <= Len(s) /\ k <= Len(s)
    BY <1>3, <1>4, <2>1 DEF Distinct
  <2>2. CASE ~(i <= Len(s)) /\ ~(k <= Len(s))
    <3>1. i - Len(s) = k - Len(s)
      BY <1>3, <1>4, <2>2 DEF Distinct
    <3> QED
      BY <1>1, <1>2, <3>1
  <2>3. CASE (i <= Len(s)) # (k <= Len(s))
    BY <1>3, <1>4, <2>3
  <2> QED
    BY <2>1, <2>2, <2>3
<1> QED
  BY <1>3, <1>4 DEF Distinct, j

-------------------------------------------------------------------------------
\* The pass of sync_orders_diff over active_orders: the fold reads the entries
\* first to last.

\* A set of positions has a last one.
LEMMA LastPosition ==
  ASSUME NEW n \in Nat, NEW S, S \subseteq 1 .. n, S # {}
  PROVE  Max(S) \in S /\ \A i \in S : i <= Max(S)
<1> DEFINE T == {n - i : i \in S}
<1>0. \A i \in S : i \in 1 .. n /\ i \in Nat /\ n - i \in Nat
  OBVIOUS
<1>1. T \subseteq Nat /\ T # {}
  BY <1>0
<1>2. PICK x \in T : \A y \in T : x <= y
  BY <1>1, LeastElement
<1>3. PICK i \in S : x = n - i
  BY <1>2
<1>4. ASSUME NEW j \in S PROVE i >= j
  <2>1. n - j \in T /\ i \in Nat /\ j \in Nat
    BY <1>0
  <2>2. x <= n - j
    BY <1>2, <2>1
  <2> QED
    BY <1>3, <2>1, <2>2
<1>5. Max(S) \in S /\ \A j \in S : Max(S) >= j
  BY <1>4 DEF Max
<1> QED
  BY <1>5

\* One step of the fold, and what a function over the sets of positions has to
\* satisfy to be the fold.
Step(b, h, s) ==
    IF s = {} THEN [want |-> Desired(b), stale |-> <<>>]
    ELSE Diff(active[Max(s)], h[s \ {Max(s)}], b)
DiffFold(b, h) == h = [s \in SUBSET (DOMAIN active) |-> Step(b, h, s)]

\* Such a function exists: by induction over the size of the sets it is right for.
LEMMA DiffFoldExists ==
  ASSUME Types, NEW b
  PROVE  \E h : DiffFold(b, h)
<1> DEFINE D == DOMAIN active
           n == Len(active)
           Row(h, s, k) == IF Cardinality(s) <= k THEN Step(b, h, s) ELSE 0
           Solves(h, k) == h = [s \in SUBSET D |-> Row(h, s, k)]
           H == {k \in Nat : \E h : Solves(h, k)}
<1>1. n \in Nat /\ D = 1 .. n
  BY DEF Types, ListType
<1> HIDE DEF D, n, Row, Solves, H
<1>2. IsFiniteSet(D) /\ Cardinality(D) = n
  BY <1>1, FS_Interval
<1>3. \A s \in SUBSET D : /\ Cardinality(s) \in Nat /\ Cardinality(s) <= n
                          /\ Cardinality(s) <= 0 => s = {}
  <2> SUFFICES ASSUME NEW s \in SUBSET D
               PROVE  /\ Cardinality(s) \in Nat /\ Cardinality(s) <= n
                      /\ Cardinality(s) <= 0 => s = {}
    OBVIOUS
  <2>1. IsFiniteSet(s) /\ Cardinality(s) <= n /\ Cardinality(s) \in Nat
    BY <1>2, FS_Subset, FS_CardinalityType
  <2> QED
    BY <2>1, FS_EmptySet
<1>3a. ASSUME NEW s \in SUBSET D, s # {}
       PROVE  /\ s \ {Max(s)} \in SUBSET D
              /\ Cardinality(s \ {Max(s)}) = Cardinality(s) - 1
  <2>1. IsFiniteSet(s)
    BY <1>2, FS_Subset
  <2>2. Max(s) \in s
    BY <1>1, <1>3a, LastPosition
  <2>3. Cardinality(s \ {Max(s)}) = Cardinality(s) - 1
    BY <2>1, <2>2, FS_RemoveElement
  <2> QED
    BY <2>3
<1>4. ASSUME NEW g, NEW h, NEW s \in SUBSET D, NEW k \in Nat, Cardinality(s) <= k + 1,
             \A t \in SUBSET D : Cardinality(t) <= k => g[t] = h[t]
      PROVE  Step(b, g, s) = Step(b, h, s)
  <2>1. CASE s = {}
    BY <2>1 DEF Step
  <2>2. CASE s # {}
    <3>0. s \ {Max(s)} \in SUBSET D /\ Cardinality(s \ {Max(s)}) <= k
      BY <1>3, <1>3a, <1>4, <2>2
    <3>1. g[s \ {Max(s)}] = h[s \ {Max(s)}]
      BY <1>4, <3>0
    <3> QED
      BY <2>2, <3>1 DEF Step
  <2> QED
    BY <2>1, <2>2
<1>5. 0 \in H
  <2> DEFINE h == [s \in SUBSET D |-> Row(0, s, 0)]
  <2>1. ASSUME NEW s \in SUBSET D PROVE Row(0, s, 0) = Row(h, s, 0)
    <3>1. Cardinality(s) <= 0 => s = {}
      BY <1>3
    <3>2. s = {} => Step(b, 0, s) = Step(b, h, s)
      BY DEF Step
    <3> QED
      BY <3>1, <3>2 DEF Row
  <2>2. h = [s \in SUBSET D |-> Row(h, s, 0)]
    BY <2>1
  <2> QED
    BY <2>2 DEF H, Solves
<1>6. ASSUME NEW k \in Nat, k \in H PROVE k + 1 \in H
  <2>1. PICK h : h = [s \in SUBSET D |-> Row(h, s, k)]
    BY <1>6 DEF H, Solves
  <2> DEFINE g == [s \in SUBSET D |-> Row(h, s, k + 1)]
  <2>2. ASSUME NEW s \in SUBSET D, Cardinality(s) <= k PROVE g[s] = h[s]
    <3>1. h[s] = Row(h, s, k) /\ g[s] = Row(h, s, k + 1)
      BY <2>1
    <3>2. Cardinality(s) <= k + 1
      BY <1>3, <2>2
    <3> QED
      BY <2>2, <3>1, <3>2 DEF Row
  <2> HIDE DEF g
  <2>3. ASSUME NEW s \in SUBSET D PROVE Row(h, s, k + 1) = Row(g, s, k + 1)
    BY <1>4, <2>2 DEF Row
  <2>4. g = [s \in SUBSET D |-> Row(h, s, k + 1)]
    BY DEF g
  <2>5. g = [s \in SUBSET D |-> Row(g, s, k + 1)]
    BY <2>3, <2>4
  <2> QED
    BY <2>5 DEF H, Solves
<1>7. n \in H
  <2>1. Nat \subseteq H
    BY <1>5, <1>6, SetInduction
  <2> QED
    BY <1>1, <2>1
<1>8. PICK h : h = [s \in SUBSET D |-> Row(h, s, n)]
  BY <1>7 DEF H, Solves
<1>9. ASSUME NEW s \in SUBSET D PROVE Row(h, s, n) = Step(b, h, s)
  BY <1>3 DEF Row
<1>10. h = [s \in SUBSET D |-> Step(b, h, s)]
  BY <1>8, <1>9
<1>11. DiffFold(b, h)
  BY <1>10 DEF DiffFold, D
<1> QED
  BY <1>11

\* The fold, position by position.
LEMMA DiffUnfolds ==
  ASSUME Types, NEW b
  PROVE  \E h : /\ h[0] = [want |-> Desired(b), stale |-> <<>>]
                /\ \A k \in 1 .. Len(active) : h[k] = Diff(active[k], h[k - 1], b)
                /\ Differences(b) = h[Len(active)]
<1> DEFINE D == DOMAIN active
           n == Len(active)
           g == CHOOSE h : DiffFold(b, h)
           r == [k \in 0 .. n |-> g[1 .. k]]
<1>1. n \in Nat /\ D = 1 .. n
  BY DEF Types, ListType
<1>2. DiffFold(b, g)
  BY DiffFoldExists
<1>3. Differences(b) = g[D]
  BY DEF Differences, FoldLeft, MapThenFoldSet, DiffFold, Step
<1> HIDE DEF g
<1>4. \A s \in SUBSET D : g[s] = Step(b, g, s)
  <2>1. g = [s \in SUBSET D |-> Step(b, g, s)]
    BY <1>2 DEF DiffFold
  <2> HIDE DEF D
  <2> QED
    BY <2>1
<1>5. g[1 .. 0] = [want |-> Desired(b), stale |-> <<>>]
  <2>1. 1 .. 0 = {} /\ {} \in SUBSET D
    OBVIOUS
  <2> HIDE DEF D
  <2> QED
    BY <1>4, <2>1 DEF Step
<1>6. ASSUME NEW k \in 1 .. n PROVE g[1 .. k] = Diff(active[k], g[1 .. (k - 1)], b)
  <2> DEFINE s == 1 .. k
  <2>1. s \in SUBSET D /\ s # {} /\ s \subseteq 1 .. k /\ k \in Nat /\ k \in s
    <3> HIDE DEF n, D
    <3> QED
      BY <1>1
  <2>2. Max(s) = k
    <3>1. Max(s) \in s /\ \A i \in s : i <= Max(s)
      <4> HIDE DEF s
      <4> QED
        BY <2>1, LastPosition
    <3>2. Max(s) \in 1 .. k /\ k <= Max(s)
      BY <2>1, <3>1
    <3> HIDE DEF s
    <3> QED
      BY <2>1, <3>2
  <2>3. s \ {k} = 1 .. (k - 1)
    BY <2>1
  <2> HIDE DEF s, D
  <2>4. g[s] = Diff(active[k], g[s \ {k}], b)
    BY <1>4, <2>1, <2>2 DEF Step
  <2> QED
    BY <2>3, <2>4 DEF s
<1>7. /\ r[0] = [want |-> Desired(b), stale |-> <<>>]
      /\ \A k \in 1 .. n : r[k] = Diff(active[k], r[k - 1], b)
      /\ Differences(b) = r[n]
  <2>1. /\ 0 \in 0 .. n /\ n \in 0 .. n
        /\ \A k \in 1 .. n : k \in 0 .. n /\ k - 1 \in 0 .. n
    BY <1>1
  <2> HIDE DEF n
  <2> QED
    BY <1>1, <1>3, <1>5, <1>6, <2>1
<1> QED
  BY <1>7

\* The quotes of a tick: at most one BUY for a grid level, and BUYs are post-only.
BuysOf(w) == {d \in w : d.side = "BUY"}

\* The desired quotes: post-only BUYs, no more of them than levels.
LEMMA DesiredQuotes ==
  ASSUME NEW b
  PROVE  /\ \A d \in Desired(b) : d.side \in {"BUY", "SELL"} /\ (d.side = "BUY" => d.post = TRUE)
         /\ IsFiniteSet(BuysOf(Desired(b))) /\ Cardinality(BuysOf(Desired(b))) <= Levels
<1> DEFINE S == {i \in 1 .. Levels : i < b.fair}
           T == {Quote("BUY", b.fair - i, TRUE) : i \in S}
           f == [i \in S |-> Quote("BUY", b.fair - i, TRUE)]
<1>1. IsFiniteSet(1 .. Levels) /\ Cardinality(1 .. Levels) = Levels /\ Levels \in Nat
  BY EngineAssumption, FS_Interval
<1>2. IsFiniteSet(S) /\ Cardinality(S) <= Levels /\ Cardinality(S) \in Nat
  <2>1. S \in SUBSET (1 .. Levels)
    OBVIOUS
  <2> HIDE DEF S
  <2> QED
    BY <1>1, <2>1, FS_Subset, FS_CardinalityType
<1>3. IsFiniteSet(T) /\ Cardinality(T) <= Levels /\ Cardinality(T) \in Nat
  <2>1. f \in Surjection(S, T)
    <3> HIDE DEF S
    <3> QED
      BY DEF Surjection
  <2> HIDE DEF f, S, T
  <2>2. IsFiniteSet(T) /\ Cardinality(T) <= Cardinality(S)
    BY <1>2, <2>1, FS_Surjection
  <2> QED
    BY <1>1, <1>2, <2>2, FS_CardinalityType
<1>5. \A d \in DesiredSell(b) : d.side = "SELL"
  BY DEF DesiredSell, Quote
<1>6. DesiredBuys(b) \subseteq T
  BY DEF DesiredBuys
<1>7. \A d \in T : d.side = "BUY" /\ d.post = TRUE
  <2> SUFFICES ASSUME NEW i \in S, NEW d, d = Quote("BUY", b.fair - i, TRUE)
               PROVE  d.side = "BUY" /\ d.post = TRUE
    OBVIOUS
  <2> QED
    BY DEF Quote
<1> HIDE DEF T
<1>8. BuysOf(Desired(b)) \in SUBSET T
  BY <1>5, <1>6 DEF BuysOf, Desired
<1>9. \A d \in Desired(b) : d.side \in {"BUY", "SELL"} /\ (d.side = "BUY" => d.post = TRUE)
  BY <1>5, <1>6, <1>7 DEF Desired
<1>10. IsFiniteSet(BuysOf(Desired(b))) /\ Cardinality(BuysOf(Desired(b))) <= Cardinality(T)
       /\ Cardinality(BuysOf(Desired(b))) \in Nat
  BY <1>3, <1>8, FS_Subset, FS_CardinalityType
<1> QED
  BY <1>1, <1>3, <1>9, <1>10

\* One entry against what is wanted: it goes, it is a SELL that stays, or it
\* uses up a quote of its side.
IsAcc(acc) == acc = [want |-> acc.want, stale |-> acc.stale]

\* What one entry does to the pass: it is stale, or it uses up a quote of its side.
LEMMA DiffStep ==
  ASSUME NEW acc, IsAcc(acc), NEW e, NEW b
  PROVE  LET r == Diff(e, acc, b)
         IN  /\ IsAcc(r)
             /\ \/ r.want = acc.want /\ r.stale = Append(acc.stale, e)
                \/ r.stale = acc.stale /\ r.want \subseteq acc.want /\ e.side # "BUY"
                \/ /\ r.stale = acc.stale
                   /\ \E d \in acc.want : d.side = e.side /\ r.want \subseteq acc.want \ {d}
<1> DEFINE r == Diff(e, acc, b)
<1>1. ASSUME NEW x PROVE [acc EXCEPT !.stale = x] = [want |-> acc.want, stale |-> x]
  BY DEF IsAcc
<1>2. ASSUME NEW x PROVE [acc EXCEPT !.want = x] = [want |-> x, stale |-> acc.stale]
  BY DEF IsAcc
<1>3. \/ r = [want |-> acc.want, stale |-> Append(acc.stale, e)]
      \/ /\ \E d \in acc.want : Same(e, d)
         /\ r = [want |-> {d \in acc.want : ~Same(e, d)}, stale |-> acc.stale]
      \/ /\ e.side = "SELL"
         /\ r = [want |-> acc.want \ Compatible(e, acc.want), stale |-> acc.stale]
  <2>1. CASE NoNewBuys /\ e.side = "BUY"
    BY <1>1, <2>1 DEF Diff
  <2>2. CASE ~(NoNewBuys /\ e.side = "BUY") /\ \E d \in acc.want : Same(e, d)
    <3>1. r = [acc EXCEPT !.want = {d \in acc.want : ~Same(e, d)}]
      BY <2>2 DEF Diff
    <3> QED
      BY <1>2, <2>2, <3>1
  <2>3. CASE /\ ~(NoNewBuys /\ e.side = "BUY") /\ ~(\E d \in acc.want : Same(e, d))
             /\ e.side = "SELL" /\ (~b.aged \/ Apart(e.price, b.fair) <= Threshold)
    <3>1. r = [acc EXCEPT !.want = acc.want \ Compatible(e, acc.want)]
      BY <2>3 DEF Diff
    <3> QED
      BY <1>2, <2>3, <3>1
  <2>4. CASE /\ ~(NoNewBuys /\ e.side = "BUY") /\ ~(\E d \in acc.want : Same(e, d))
             /\ ~(e.side = "SELL" /\ (~b.aged \/ Apart(e.price, b.fair) <= Threshold))
    BY <1>1, <2>4 DEF Diff
  <2> QED
    BY <2>1, <2>2, <2>3, <2>4
<1>4. \A d : Same(e, d) => d.side = e.side
  BY DEF Same
<1> HIDE DEF r
<1>5. IsAcc(r)
  BY <1>3 DEF IsAcc
<1> QED
  BY <1>3, <1>4, <1>5 DEF r

\* The BUY entries among the first k that stay.
KeptBuys(k, stale) == {active[i].id : i \in {j \in 1 .. k : active[j].side = "BUY"}} \ IdsIn(stale)

\* What the fold keeps and still wants is no more than what the tick wanted.
DiffInv(b, k, acc) ==
    /\ IsAcc(acc) /\ acc.want \subseteq Desired(b) /\ acc.stale \in Seq(ToSet(acc.stale))
    /\ IsFiniteSet(KeptBuys(k, acc.stale))
    /\ Cardinality(KeptBuys(k, acc.stale)) + Cardinality(BuysOf(acc.want))
         <= Cardinality(BuysOf(Desired(b)))

\* An entry more at the end of a list.
LEMMA AppendIds ==
  ASSUME NEW s, s \in Seq(ToSet(s)), NEW e
  PROVE  /\ IdsIn(s) \union {e.id} \subseteq IdsIn(Append(s, e))
         /\ Append(s, e) \in Seq(ToSet(Append(s, e)))
<1> DEFINE A == ToSet(s) \union {e}
           t == Append(s, e)
           n == Len(s)
<1>1. s \in Seq(A) /\ n \in Nat /\ DOMAIN s = 1 .. n
  <2>1. s \in [1 .. n -> ToSet(s)] /\ n \in Nat
    OBVIOUS
  <2>2. s \in [1 .. n -> A]
    BY <2>1
  <2> HIDE DEF A
  <2> QED
    BY <2>1, <2>2
<1>2. e \in A
  OBVIOUS
<1> HIDE DEF A
<1>3. DOMAIN t = 1 .. (n + 1) /\ t[n + 1] = e /\ \A i \in 1 .. n : t[i] = s[i]
  BY <1>1, <1>2
<1> HIDE DEF t, n
<1>4. e.id \in IdsIn(t)
  <2>1. n + 1 \in DOMAIN t /\ t[n + 1].id = e.id
    BY <1>1, <1>3
  <2> QED
    BY <2>1, IdsOf
<1>5. ASSUME NEW o \in IdsIn(s) PROVE o \in IdsIn(t)
  <2>1. PICK i \in DOMAIN s : s[i].id = o
    BY IdsOf
  <2>2. i \in DOMAIN t /\ t[i].id = o
    BY <1>1, <1>3, <2>1
  <2> QED
    BY <2>2, IdsOf
<1>6. t = [i \in 1 .. (n + 1) |-> t[i]] /\ n + 1 \in Nat
  <2>1. t \in Seq(A)
    BY <1>1, <1>2 DEF t
  <2> QED
    BY <1>1, <1>3, <2>1
<1>7. t \in Seq(ToSet(t))
  BY <1>6, SequenceOf
<1> QED
  BY <1>4, <1>5, <1>7 DEF t

\* One more entry: what is kept and what is wanted still fits the grid.
LEMMA DiffInvStep ==
  ASSUME Types, NEW b, NEW k \in 0 .. (Len(active) - 1), NEW acc, DiffInv(b, k, acc)
  PROVE  DiffInv(b, k + 1, Diff(active[k + 1], acc, b))
<1> DEFINE e == active[k + 1]
           r == Diff(e, acc, b)
           K == KeptBuys(k, acc.stale)
           L == KeptBuys(k + 1, r.stale)
           W == BuysOf(acc.want)
           V == BuysOf(r.want)
<1>0. k \in Nat
  BY DEF Types, ListType
<1>1. /\ IsAcc(acc) /\ acc.want \subseteq Desired(b) /\ acc.stale \in Seq(ToSet(acc.stale))
      /\ IsFiniteSet(K)
      /\ Cardinality(K) + Cardinality(W) <= Cardinality(BuysOf(Desired(b)))
  BY DEF DiffInv
<1>2. /\ IsAcc(r)
      /\ \/ r.want = acc.want /\ r.stale = Append(acc.stale, e)
         \/ r.stale = acc.stale /\ r.want \subseteq acc.want /\ e.side # "BUY"
         \/ /\ r.stale = acc.stale
            /\ \E d \in acc.want : d.side = e.side /\ r.want \subseteq acc.want \ {d}
  BY <1>1, DiffStep
<1>3. /\ IsFiniteSet(W) /\ Cardinality(W) \in Nat /\ Cardinality(K) \in Nat
      /\ Cardinality(BuysOf(Desired(b))) \in Nat
  <2>1. W \in SUBSET BuysOf(Desired(b)) /\ IsFiniteSet(BuysOf(Desired(b)))
    BY <1>1, DesiredQuotes DEF BuysOf
  <2> HIDE DEF W
  <2> QED
    BY <1>1, <2>1, FS_Subset, FS_CardinalityType
<1>4. ASSUME NEW o \in L
      PROVE  /\ o \notin IdsIn(r.stale)
             /\ \E i \in 1 .. k + 1 : /\ active[i].side = "BUY" /\ o = active[i].id
                                      /\ i \in 1 .. k \/ i = k + 1
  BY <1>0 DEF KeptBuys
<1>5. ASSUME NEW o, NEW i \in 1 .. k, active[i].side = "BUY", o = active[i].id,
             o \notin IdsIn(acc.stale)
      PROVE  o \in K
  BY <1>5 DEF KeptBuys
<1> HIDE DEF K, L, e, r
<1>6. CASE r.want = acc.want /\ r.stale = Append(acc.stale, e)
  <2>1. IdsIn(acc.stale) \union {e.id} \subseteq IdsIn(r.stale) /\ r.stale \in Seq(ToSet(r.stale))
    BY <1>1, <1>6, AppendIds
  <2>2. L \in SUBSET K
    BY <1>4, <1>5, <2>1 DEF e
  <2>3. IsFiniteSet(L) /\ Cardinality(L) <= Cardinality(K) /\ Cardinality(L) \in Nat
    BY <1>1, <2>2, FS_Subset, FS_CardinalityType
  <2>4. Cardinality(L) + Cardinality(V) <= Cardinality(BuysOf(Desired(b)))
    BY <1>1, <1>3, <1>6, <2>3
  <2> QED
    BY <1>1, <1>2, <1>6, <2>1, <2>3, <2>4 DEF DiffInv, L, r, e
<1>7. CASE r.stale = acc.stale /\ r.want \subseteq acc.want /\ e.side # "BUY"
  <2>1. L \in SUBSET K
    BY <1>4, <1>5, <1>7 DEF e
  <2>2. IsFiniteSet(L) /\ Cardinality(L) <= Cardinality(K) /\ Cardinality(L) \in Nat
    BY <1>1, <2>1, FS_Subset, FS_CardinalityType
  <2>3. V \in SUBSET W
    BY <1>7 DEF BuysOf
  <2>4. Cardinality(V) <= Cardinality(W) /\ Cardinality(V) \in Nat
    <3> HIDE DEF V, W
    <3> QED
      BY <1>3, <2>3, FS_Subset, FS_CardinalityType
  <2>5. Cardinality(L) + Cardinality(V) <= Cardinality(BuysOf(Desired(b)))
    <3> HIDE DEF V, W
    <3> QED
      BY <1>1, <1>3, <2>2, <2>4
  <2> QED
    BY <1>1, <1>2, <1>7, <2>2, <2>5 DEF DiffInv, L, r, e
<1>8. ASSUME r.stale = acc.stale, NEW d \in acc.want, d.side = e.side, e.side = "BUY",
             r.want \subseteq acc.want \ {d}
      PROVE  DiffInv(b, k + 1, r)
  <2>1. L \in SUBSET (K \union {e.id})
    <3>1. ASSUME NEW o \in L PROVE o \in K \/ o = e.id
      <4>1. PICK i \in 1 .. k + 1 : /\ active[i].side = "BUY" /\ o = active[i].id
                                    /\ i \in 1 .. k \/ i = k + 1
        BY <1>4
      <4>2. o \notin IdsIn(acc.stale)
        BY <1>4, <1>8
      <4>3. ASSUME i = k + 1 PROVE o = e.id
        <5>1. active[i] = e
          BY <4>3, Zenon DEF e
        <5> QED
          BY <4>1, <5>1
      <4> QED
        BY <1>5, <4>1, <4>2, <4>3
    <3> QED
      BY <3>1
  <2>2. IsFiniteSet(K \union {e.id}) /\ Cardinality(K \union {e.id}) <= Cardinality(K) + 1
        /\ Cardinality(K \union {e.id}) \in Nat
    <3>1. /\ IsFiniteSet(K \union {e.id})
          /\ Cardinality(K \union {e.id}) = IF e.id \in K THEN Cardinality(K)
                                            ELSE Cardinality(K) + 1
      BY <1>1, FS_AddElement
    <3> QED
      BY <1>3, <3>1, FS_CardinalityType
  <2>3. IsFiniteSet(L) /\ Cardinality(L) <= Cardinality(K) + 1 /\ Cardinality(L) \in Nat
    BY <1>3, <2>1, <2>2, FS_Subset, FS_CardinalityType
  <2>4. d \in W /\ V \in SUBSET (W \ {d})
    BY <1>8 DEF BuysOf
  <2>5. IsFiniteSet(W \ {d}) /\ Cardinality(W \ {d}) = Cardinality(W) - 1
    <3> HIDE DEF W
    <3> QED
      BY <1>3, <2>4, FS_RemoveElement
  <2>6. Cardinality(V) <= Cardinality(W) - 1 /\ Cardinality(V) \in Nat
    <3> HIDE DEF V, W
    <3> QED
      BY <1>3, <2>4, <2>5, FS_Subset, FS_CardinalityType
  <2>7. Cardinality(L) + Cardinality(V) <= Cardinality(BuysOf(Desired(b)))
    <3> HIDE DEF V, W
    <3> QED
      BY <1>1, <1>3, <2>3, <2>6
  <2> QED
    BY <1>1, <1>2, <1>8, <2>3, <2>7 DEF DiffInv, L, r
<1> QED
  BY <1>2, <1>6, <1>7, <1>8 DEF r, e

\* The whole pass: what it keeps and wants fits the grid.
LEMMA DiffFits ==
  ASSUME Types, NEW b
  PROVE  DiffInv(b, Len(active), Differences(b))
<1> DEFINE n == Len(active)
<1>1. PICK h : /\ h[0] = [want |-> Desired(b), stale |-> <<>>]
               /\ \A k \in 1 .. n : h[k] = Diff(active[k], h[k - 1], b)
               /\ Differences(b) = h[n]
  BY DiffUnfolds
<1> DEFINE H == {k \in Nat : k <= n => DiffInv(b, k, h[k])}
<1>2. n \in Nat
  BY DEF Types, ListType
<1>3. 0 \in H
  <2>1. h[0].want = Desired(b) /\ h[0].stale = <<>> /\ IsAcc(h[0])
    BY <1>1 DEF IsAcc
  <2>2. KeptBuys(0, h[0].stale) = {}
    BY DEF KeptBuys
  <2>3. /\ IsFiniteSet(KeptBuys(0, h[0].stale)) /\ Cardinality(KeptBuys(0, h[0].stale)) = 0
    BY <2>2, FS_EmptySet
  <2>4. Cardinality(BuysOf(Desired(b))) \in Nat
    BY DesiredQuotes, FS_CardinalityType
  <2>5. DiffInv(b, 0, h[0])
    BY <2>1, <2>3, <2>4 DEF DiffInv
  <2> QED
    BY <2>5
<1>4. ASSUME NEW k \in Nat, k \in H PROVE k + 1 \in H
  <2>1. SUFFICES ASSUME k + 1 <= n PROVE DiffInv(b, k + 1, h[k + 1])
    BY <1>4
  <2>2. k \in 0 .. (n - 1) /\ DiffInv(b, k, h[k]) /\ k + 1 \in 1 .. n /\ (k + 1) - 1 = k
    <3> HIDE DEF n
    <3> QED
      BY <1>2, <1>4, <2>1
  <2>3. h[k + 1] = Diff(active[k + 1], h[k], b)
    <3> HIDE DEF n
    <3> QED
      BY <1>1, <2>2
  <2> QED
    BY <2>2, <2>3, DiffInvStep
<1>5. Nat \subseteq H
  <2> HIDE DEF H
  <2> QED
    BY <1>3, <1>4, SetInduction
<1>6. DiffInv(b, n, h[n])
  <2>1. n \in H
    BY <1>2, <1>5
  <2>2. n <= n
    <3> HIDE DEF n
    <3> QED
      BY <1>2
  <2> QED
    BY <2>1, <2>2
<1> QED
  BY <1>1, <1>6

-------------------------------------------------------------------------------
\* The table of orders through the steps of the engine.

\* A step that leaves the list and the orders.
LEMMA ListSame ==
  ASSUME ListInv, UNCHANGED <<active, order>>
  PROVE  ListInv'
BY DEF ListInv, Listed, Distinct

\* What a gather asks for next, and a job that asks for nothing.
LEMMA GatherJob ==
  ASSUME NEW why, NEW s, NEW want, Gather(why, s, want)
  PROVE  job'.calls = {} /\ job'.want = want /\ pc' = "cancel"
BY DEF Gather, NoJob

\* No job has calls out or quotes to send.
LEMMA NoJobWants == NoJob.calls = {} /\ NoJob.want = {}
BY DEF NoJob

\* The bootstrap reads back every order that can still trade.
LEMMA StartBooks ==
  ASSUME Types, Types', TableInv, Bootstrap \/ Subscribe
  PROVE  TableInv'
<1>1. CASE Bootstrap
  <2>1. /\ UNCHANGED <<order, inventory, safety, pending>> /\ pc' = "booted" /\ anchor' = 0
        /\ job' = NoJob /\ active' = Entries(Unfilled)
    BY <1>1 DEF Bootstrap, Rehydrated, world
  <2>2. Unfilled \subseteq Ids
    BY DEF Unfilled
  <2>3. /\ \A i \in DOMAIN Entries(Unfilled) : \E o \in Unfilled : Entries(Unfilled)[i] = Entry(o)
        /\ Distinct(Entries(Unfilled))
    BY <2>2, EntriesList
  <2>4. ASSUME NEW o \in Unfilled, NEW e, e = Entry(o)
        PROVE  /\ order[e.id].row # "none" /\ e.side = order[e.id].side
               /\ e.size \in 0 .. Lot /\ Lot <= e.size + order[e.id].filled
    <3>1. e.id = o /\ e.side = order[o].side /\ e.size = Lot - order[o].booked
      BY <2>4 DEF Entry
    <3>2. /\ order[o].filled \in Nat /\ order[o].booked \in Nat /\ RowInv(o) /\ Lot \in Nat
          /\ order[o].booked < Lot /\ order[o].row \in UnresolvedRows
      BY <2>2, MoreFields DEF TableInv, Unfilled
    <3> QED
      BY <3>1, <3>2 DEF RowInv, UnresolvedRows
  <2>5. ASSUME NEW i \in DOMAIN active' PROVE Listed(active[i])'
    <3>1. PICK o \in Unfilled : active'[i] = Entry(o)
      BY <2>1, <2>3
    <3>2. PICK e : e = active'[i]
      OBVIOUS
    <3> QED
      BY <2>1, <2>4, <3>1, <3>2 DEF Listed
  <2>6. ListInv'
    BY <2>1, <2>3, <2>5 DEF ListInv, Distinct
  <2>7. Wanted' /\ job'.calls = {}
    BY <2>1, NoJobWants DEF Wanted
  <2> QED
    BY <2>1, <2>6, <2>7, EngineBooks
<1>2. CASE Subscribe
  <2>1. /\ UNCHANGED <<order, inventory, safety, pending, active, job, anchor>>
        /\ pc = "booted" /\ pc' = "idle"
    BY <1>2 DEF Subscribe, world
  <2>2. anchor' = 0 /\ job'.calls = {} /\ Wanted'
    BY <2>1 DEF TableInv, PendingInv, Placing, Wanted
  <2>3. ListInv'
    BY <2>1, ListSame DEF TableInv
  <2> QED
    BY <2>1, <2>2, <2>3, EngineBooks
<1> QED
  BY <1>1, <1>2

\* What a tick leads to: the quotes it asks for are the ones it desired.
LEMMA TickJob ==
  ASSUME Types, NEW b, OnTick(b)
  PROVE  /\ UNCHANGED <<active, flags, inbox, safety, starts, world>> /\ pc = "idle"
         /\ \/ \E why \in {"pause", "complete"} :
                 Gather(why, active, {}) /\ UNCHANGED <<anchor, pending>>
            \/ /\ Gather("diff", Differences(b).stale, Differences(b).want)
               /\ UNCHANGED pending
            \/ /\ pc' = "place" /\ UNCHANGED pending /\ Differences(b).stale = <<>>
               /\ job' = [NoJob EXCEPT !.why = "diff", !.want = Differences(b).want]
            \/ Idle /\ pending' = BuyUnits(active)
<1>1. UNCHANGED <<active, flags, inbox, safety, starts, world>> /\ pc = "idle"
  BY DEF OnTick
<1>2. \/ \E why \in {"pause", "complete"} : CancelAll(why, active) /\ UNCHANGED <<anchor, pending>>
      \/ SyncOrdersDiff(b)
  BY DEF OnTick
<1>3. CASE SyncOrdersDiff(b)
  <2>1. CASE Differences(b).stale # <<>>
    BY <1>1, <1>3, <2>1 DEF SyncOrdersDiff
  <2>2. CASE Differences(b).stale = <<>> /\ Differences(b).want # {}
    BY <1>1, <1>3, <2>2 DEF SyncOrdersDiff
  <2>3. CASE Differences(b).stale = <<>> /\ Differences(b).want = {}
    BY <1>1, <1>3, <2>3 DEF SyncOrdersDiff
  <2> QED
    BY <2>1, <2>2, <2>3
<1> QED
  BY <1>1, <1>2, <1>3 DEF CancelAll

\* A tick keeps the tables.
LEMMA TickBooks ==
  ASSUME Types, Types', TableInv, NEW b, OnTick(b)
  PROVE  TableInv'
<1>1. UNCHANGED <<active, order, inventory, safety>> /\ pc = "idle"
  BY TickJob DEF world
<1>2. ListInv'
  BY <1>1, ListSame DEF TableInv
<1>3. \A d \in Differences(b).want : d.side \in {"BUY", "SELL"} /\ (d.side = "BUY" => d.post = TRUE)
  BY DiffFits, DesiredQuotes DEF DiffInv
<1>4. ASSUME NEW why, NEW s, NEW w, Gather(why, s, w), w = {} \/ w = Differences(b).want,
             UNCHANGED pending
      PROVE  TableInv'
  <2>1. job'.calls = {} /\ job'.want = w /\ pc' = "cancel"
    BY <1>4, GatherJob
  <2>2. Wanted'
    BY <1>3, <1>4, <2>1 DEF Wanted
  <2> QED
    BY <1>1, <1>2, <1>4, <2>1, <2>2, EngineBooks
<1>5. CASE /\ pc' = "place" /\ UNCHANGED pending
           /\ job' = [NoJob EXCEPT !.why = "diff", !.want = Differences(b).want]
  <2>1. job'.calls = {} /\ job'.ok = {} /\ job'.want = Differences(b).want
    BY <1>5 DEF NoJob
  <2>2. Wanted'
    BY <1>3, <2>1 DEF Wanted
  <2> QED
    BY <1>1, <1>2, <1>5, <2>1, <2>2, EngineBooks
<1>6. CASE Idle /\ pending' = BuyUnits(active)
  <2>1. job'.calls = {} /\ job'.want = {} /\ pc' = "idle"
    BY <1>6, NoJobWants DEF Idle
  <2>2. Wanted' /\ pending' = BuyUnits(active')
    BY <1>1, <1>6, <2>1 DEF Wanted
  <2> QED
    BY <1>1, <1>2, <2>1, <2>2, EngineBooks
<1> QED
  BY <1>4, <1>5, <1>6, TickJob

\* Entries leave the list.
LEMMA ListShrinks ==
  ASSUME Types, ListInv, UNCHANGED order, NEW S, active' = Without(active, S)
  PROVE  ListInv'
<1>1. active \in Seq(ToSet(active)) /\ Distinct(active)
  BY ActiveList
<1>2. /\ \A i \in DOMAIN active' : \E j \in DOMAIN active : active'[i] = active[j]
      /\ Distinct(active')
  BY <1>1, WithoutList
<1>3. ASSUME NEW i \in DOMAIN active' PROVE Listed(active[i])'
  <2>1. PICK j \in DOMAIN active : active'[i] = active[j]
    BY <1>2
  <2>2. Listed(active[j])
    BY DEF ListInv
  <2>3. PICK e : e = active[j]
    OBVIOUS
  <2> QED
    BY <2>1, <2>2, <2>3 DEF Listed
<1> QED
  BY <1>2, <1>3 DEF ListInv, Distinct

\* A message: a status drops one entry, and the pending notional with it.
LEMMA MessageBooks ==
  ASSUME Types, Types', TableInv, OnMessage
  PROVE  TableInv'
<1>1. UNCHANGED <<order, inventory, safety>> /\ pc = "idle"
  BY DEF OnMessage, world
<1>2. \/ OnSuspend \/ OnResume \/ OnGracefulExit \/ OnOrderStatus(Head(inbox).id)
  BY DEF OnMessage
<1>3. ASSUME NEW why, Gather(why, active, {}), UNCHANGED <<active, pending>> PROVE TableInv'
  <2>1. job'.calls = {} /\ job'.want = {} /\ pc' = "cancel"
    BY <1>3, GatherJob
  <2>2. ListInv' /\ Wanted'
    BY <1>1, <1>3, <2>1, ListSame DEF TableInv, Wanted
  <2> QED
    BY <1>1, <1>3, <2>1, <2>2, EngineBooks
<1>4. ASSUME UNCHANGED <<pc, job>>, ListInv',
             \/ UNCHANGED <<active, anchor, pending>>
             \/ pending' = BuyUnits(active')
      PROVE  TableInv'
  <2>1. job'.calls = {} /\ Wanted' /\ pc' = "idle"
    BY <1>1, <1>4 DEF TableInv, Placing, Wanted
  <2> QED
    BY <1>1, <1>4, <2>1, EngineBooks
<1>5. CASE OnSuspend
  BY <1>3, <1>5 DEF OnSuspend, CancelAll
<1>6. CASE OnResume
  <2>1. UNCHANGED <<pc, job, active, anchor, pending>>
    BY <1>6 DEF OnResume
  <2>2. ListInv'
    BY <1>1, <2>1, ListSame DEF TableInv
  <2> QED
    BY <1>4, <2>1, <2>2
<1>7. CASE OnGracefulExit
  <2>1. CASE flags.exiting
    <3>1. UNCHANGED <<pc, job, active, anchor, pending>>
      BY <1>7, <2>1 DEF OnGracefulExit, engine
    <3>2. ListInv'
      BY <1>1, <3>1, ListSame DEF TableInv
    <3> QED
      BY <1>4, <3>1, <3>2
  <2>2. CASE ~flags.exiting
    BY <1>3, <1>7, <2>2 DEF OnGracefulExit, CancelAll
  <2> QED
    BY <2>1, <2>2
<1>8. CASE OnOrderStatus(Head(inbox).id)
  <2>1. PICK o : o = Head(inbox).id
    OBVIOUS
  <2>2. /\ active' = Without(active, {o}) /\ UNCHANGED <<pc, job, anchor>>
        /\ pending' = IF o \in IdsIn(active) THEN BuyUnits(active') ELSE pending
    BY <1>8, <2>1 DEF OnOrderStatus
  <2>3. ListInv'
    BY <1>1, <2>2, ListShrinks DEF TableInv
  <2>4. o \notin IdsIn(active) => active' = active
    <3>1. active \in Seq(ToSet(active))
      BY ActiveList DEF TableInv
    <3> QED
      BY <2>2, <3>1, WithoutList
  <2> QED
    BY <1>4, <2>2, <2>3, <2>4
<1> QED
  BY <1>2, <1>5, <1>6, <1>7, <1>8

\* A gather ends: what was confirmed leaves the list.
LEMMA CancelsBooks ==
  ASSUME Types, Types', TableInv, CancelsDone
  PROVE  TableInv'
<1>1. /\ UNCHANGED <<order, inventory, anchor>> /\ pc = "cancel"
      /\ active' = Without(active, job.ok)
  BY DEF CancelsDone, world
<1>2. ListInv'
  BY <1>1, ListShrinks DEF TableInv
<1>3. safety'.reconciled => safety.reconciled
  <2>1. /\ safety' = HaltIf(job.failed) => safety'.reconciled = safety.reconciled
        /\ safety' = [halted |-> TRUE, reconciled |-> FALSE] => ~safety'.reconciled
    BY DEF HaltIf, Types, FlagType
  <2> QED
    BY <2>1, Cancelled
<1>4. /\ job'.calls = {} /\ job'.want \in {{}, job.want}
      /\ pc' = "place" => job'.ok = {}
      /\ pc' # "booted"
  <2>1. Idle => job'.calls = {} /\ job'.want = {} /\ pc' = "idle"
    BY NoJobWants DEF Idle
  <2>2. Gather("finally", active', {}) => job'.calls = {} /\ job'.want = {} /\ pc' = "cancel"
    BY GatherJob
  <2>3. job' = NoJob => job'.calls = {} /\ job'.want = {}
    BY NoJobWants
  <2>4. job' = [job EXCEPT !.ok = {}] =>
          job'.calls = job.calls /\ job'.want = job.want /\ job'.ok = {}
    BY DEF Types, JobType
  <2>5. job.calls = {}
    BY <1>1 DEF TableInv, Placing
  <2> QED
    BY <2>1, <2>2, <2>3, <2>4, <2>5, Cancelled
<1>5. Wanted'
  BY <1>4 DEF TableInv, Wanted
<1>6. \/ pending' = pending /\ pc' # "idle"
      \/ pending' = BuyUnits(active')
  BY DEF CancelsDone
<1> QED
  BY <1>1, <1>2, <1>3, <1>4, <1>5, <1>6, EngineBooks

\* What came back joins the list: the orders are new to it.
LEMMA PlacedEntries ==
  ASSUME Types, TableInv, pc = "place", UNCHANGED order, active' = active \o Placed
  PROVE  ListInv'
<1>2. job.ok \subseteq Ids
  BY JobFields DEF Types
<1>3. /\ active \in Seq(ToSet(active)) /\ Distinct(active)
      /\ IdsIn(Placed) = job.ok /\ Placed \in Seq(ToSet(Placed)) /\ Distinct(Placed)
      /\ \A i \in DOMAIN Placed : \E o \in job.ok :
            /\ Placed[i].id = o /\ Placed[i].side = order[o].side /\ Placed[i].size = Lot
  BY <1>2, ActiveList, PlacedIds, PlacedList DEF TableInv
<1>4. IdsIn(active) \cap job.ok = {}
  BY DEF TableInv, Placing, Known
<1>5. /\ Distinct(active')
      /\ \A i \in DOMAIN active' : \/ \E j \in DOMAIN active : active'[i] = active[j]
                                   \/ \E j \in DOMAIN Placed : active'[i] = Placed[j]
  BY <1>3, <1>4, JoinedList
<1>6. ASSUME NEW i \in DOMAIN active' PROVE Listed(active[i])'
  <2>1. CASE \E j \in DOMAIN active : active'[i] = active[j]
    <3>1. PICK j \in DOMAIN active : active'[i] = active[j]
      BY <2>1
    <3>2. PICK e : e = active[j]
      OBVIOUS
    <3>3. Listed(e)
      BY <3>2 DEF TableInv, ListInv
    <3> QED
      BY <3>1, <3>2, <3>3 DEF Listed
  <2>2. CASE \E j \in DOMAIN Placed : active'[i] = Placed[j]
    <3>1. PICK j \in DOMAIN Placed : active'[i] = Placed[j]
      BY <2>2
    <3>2. PICK o \in job.ok : /\ Placed[j].id = o /\ Placed[j].side = order[o].side
                              /\ Placed[j].size = Lot
      BY <1>3
    <3>3. PICK e : e = Placed[j]
      OBVIOUS
    <3>4. order[o].row # "none" /\ order[o].filled \in Nat /\ Lot \in Nat
      BY <1>2, MoreFields DEF TableInv, Placing
    <3>5. /\ order[e.id].row # "none" /\ e.side = order[e.id].side
          /\ e.size \in 0 .. Lot /\ Lot <= e.size + order[e.id].filled
      BY <3>2, <3>3, <3>4
    <3> QED
      BY <3>1, <3>3, <3>5 DEF Listed
  <2> QED
    BY <1>5, <2>1, <2>2
<1> QED
  BY <1>5, <1>6 DEF ListInv, Distinct

\* place_orders is done: its list, and the notional it reports.
LEMMA PlacedBooks ==
  ASSUME Types, Types', TableInv, PlacesDone
  PROVE  TableInv'
<1>1. /\ UNCHANGED <<order, inventory, anchor, safety>> /\ pc = "place"
      /\ active' = active \o Placed /\ pending' = BuyUnits(active') /\ Idle
  BY DEF PlacesDone, world
<1>2. ListInv'
  BY <1>1, PlacedEntries
<1>3. job'.calls = {} /\ job'.want = {} /\ pc' = "idle"
  BY <1>1, NoJobWants DEF Idle
<1>4. Wanted'
  BY <1>3 DEF Wanted
<1> QED
  BY <1>1, <1>2, <1>3, <1>4, EngineBooks

\* The supervisor and a fault: nothing but a gather begins, on the list as the
\* last gather left it.
LEMMA StopBooks ==
  ASSUME Types, Types', TableInv, OnFault \/ StopTask
  PROVE  TableInv'
<1>1. /\ UNCHANGED <<order, inventory, pending, anchor>>
      /\ safety'.reconciled => safety.reconciled
  BY DEF OnFault, StopTask, HaltIf, world, Types, FlagType
<1>2. job'.calls = {} /\ job'.want = {} /\ pc' \in {"cancel", "stopped"}
  <2>1. \/ Gather("fault", active', {}) \/ Gather("finally", active', {})
        \/ pc' = "stopped" /\ job' = NoJob
    BY DEF OnFault, StopTask, CancelAll
  <2> QED
    BY <2>1, GatherJob, NoJobWants
<1>3. ListInv'
  <2>1. \/ UNCHANGED active \/ active' = Without(active, job.ok)
        \/ pc = "place" /\ active' = active \o Placed
    BY DEF OnFault, StopTask, Settled
  <2> QED
    BY <1>1, <2>1, ListSame, ListShrinks, PlacedEntries DEF TableInv
<1>4. Wanted'
  BY <1>2 DEF Wanted
<1> QED
  BY <1>1, <1>2, <1>3, <1>4, EngineBooks

\* A quote that was not admitted is dropped.
LEMMA BlockedBooks ==
  ASSUME Types, Types', TableInv, NEW d, CreateBlocked(d)
  PROVE  TableInv'
<1>1. /\ UNCHANGED <<order, inventory, anchor, safety, pc, active, pending>> /\ pc = "place"
      /\ job' = [job EXCEPT !.want = @ \ {d}]
  BY DEF CreateBlocked, world
<1>2. Rows' /\ Funded' /\ CaughtUp' /\ ListInv'
  BY <1>1, BooksSame, ListSame DEF TableInv
<1>3. job'.want = job.want \ {d} /\ job'.calls = job.calls /\ job'.ok = job.ok
  BY <1>1 DEF Types, JobType
<1>4. Placing' /\ Wanted' /\ PendingInv'
  BY <1>1, <1>3 DEF TableInv, Placing, Wanted, PendingInv, Known
<1> QED
  BY <1>2, <1>4 DEF TableInv

\* An order is sent: it is new, and what it may cost was free.
LEMMA SentBooks ==
  ASSUME Types, Types', TableInv, NEW d \in job.want, CreateSend(d)
  PROVE  TableInv'
<1>1. /\ UNCHANGED <<inventory, anchor, safety, pc, active, pending>> /\ pc = "place"
      /\ Admitted(d.side)
  BY DEF CreateSend
<1>2. PICK o \in Ids :
        /\ order[o].row = "none" /\ order'[o].row = "PENDING"
        /\ order'[o].venue = "sent" /\ order'[o].mapped = FALSE
        /\ order'[o].filled = 0 /\ order'[o].booked = 0
        /\ order'[o].side = d.side /\ order'[o].post = d.post
        /\ \A p \in Ids : p # o => order'[p] = order[p]
        /\ Calling(o, d)
  BY Sent
<1>3. job'.want = job.want \ {d} /\ job'.calls = job.calls \union {o} /\ job'.ok = job.ok
  BY <1>2 DEF Calling, Types, JobType
<1>4. d.side \in {"BUY", "SELL"} /\ (d.side = "BUY" => d.post = TRUE)
  BY DEF TableInv, Wanted
<1>5. /\ order[o].filled \in Nat /\ order[o].booked \in Nat /\ RowInv(o) /\ Lot \in Nat
      /\ order[o].filled = 0 /\ order[o].booked = 0
  <2>1. /\ order[o].filled \in Nat /\ order[o].booked \in Nat /\ RowInv(o) /\ Lot \in Nat
    BY MoreFields DEF TableInv
  <2> QED
    BY <1>2, <2>1 DEF RowInv
<1>6. ASSUME NEW p \in Ids
      PROVE  /\ RowInv(p)' /\ BookInv(p)' /\ Goes(p)
             /\ order[p].row # "none" => order'[p] = order[p]
  <2>1. RowInv(p) /\ BookInv(p) /\ order[p].filled \in Nat
    BY MoreFields DEF TableInv
  <2>2. CASE p = o
    <3>1. RowInv(o)'
      BY <1>2, <2>2 DEF RowInv
    <3>2. BookInv(o)'
      BY <1>2, <1>4, <1>5 DEF BookInv
    <3>3. Goes(o)
      BY <1>2, <1>5 DEF Goes
    <3> QED
      BY <1>2, <2>2, <3>1, <3>2, <3>3
  <2>3. CASE p # o
    BY <1>2, <2>1, <2>3 DEF RowInv, BookInv, Goes, UnresolvedRows
  <2> QED
    BY <2>2, <2>3
<1>7. Rows' /\ \A p \in Ids : Goes(p)
  BY <1>6 DEF Rows
<1>8. ListInv'
  BY <1>1, <1>7, ListGoes DEF TableInv
<1>9. o \notin Known
  <2>1. ASSUME o \in Known PROVE FALSE
    <3>1. PICK i \in DOMAIN active : active[i].id = o
      BY <2>1, IdsOf DEF Known
    <3>2. PICK e : e = active[i]
      OBVIOUS
    <3>3. Listed(e) /\ e.id = o
      BY <3>1, <3>2 DEF TableInv, ListInv
    <3> QED
      BY <1>2, <3>3 DEF Listed
  <2> QED
    BY <2>1
<1>10. Placing'
  <2>1. job.ok \subseteq Ids /\ Known' = Known
    BY <1>1, JobFields DEF Types, Known
  <2>2. \A p \in job.ok \union job.calls : /\ p \in Ids /\ order[p].row # "none"
                                           /\ p \notin Known /\ order'[p] = order[p]
    BY <1>1, <1>6, <2>1 DEF TableInv, Placing
  <2>3. \A p \in job'.calls : /\ p \in Ids /\ order'[p].row = "PENDING"
                              /\ order'[p].mapped = FALSE
    BY <1>2, <1>3, <2>2 DEF TableInv, Placing
  <2>4. \A p \in job'.ok \union job'.calls : order'[p].row # "none" /\ p \notin Known'
    BY <1>2, <1>3, <1>9, <2>1, <2>2
  <2> QED
    BY <1>1, <2>3, <2>4 DEF Placing
<1>11. Wanted' /\ PendingInv'
  BY <1>1, <1>3 DEF TableInv, Wanted, PendingInv
<1>12. CaughtUp'
  <2>1. ASSUME safety.reconciled, NEW p \in Ids
        PROVE  order'[p].row \in UnresolvedRows \/ order'[p].booked = order'[p].filled
    BY <1>2, <2>1 DEF TableInv, CaughtUp, UnresolvedRows
  <2> QED
    BY <1>1, <2>1 DEF CaughtUp, UnresolvedRows
<1>13. Funded'
  <2> DEFINE s == SumFunctionOnSet(Dues, Ids)
             t == SumFunctionOnSet(Dues, Ids)'
  <2>1. /\ t = s - Due(o) + Due(o)' /\ s \in Nat /\ Due(o) \in Nat /\ Due(o)' \in Nat
    BY <1>2, <1>7, DuesMove DEF TableInv
  <2>2. Due(o) = 0
    BY <1>2, <1>5 DEF Due, Owed, UnresolvedRows
  <2>3. Due(o)' = IF d.side = "BUY" THEN Lot ELSE 0
    BY <1>2, <1>5 DEF Due, Owed, UnresolvedRows
  <2>4. /\ inventory \in Nat /\ inventory + s <= MaxInventory /\ MaxInventory \in Nat
        /\ inventory' = inventory
    BY <1>1, EngineAssumption DEF TableInv, Funded
  <2>5. d.side = "BUY" => inventory + s + Lot <= MaxInventory
    BY <1>1, AdmittedFunds
  <2> HIDE DEF s, t
  <2>6. inventory' + t <= MaxInventory
    BY <1>5, <2>1, <2>2, <2>3, <2>4, <2>5
  <2> QED
    BY <2>4, <2>6 DEF Funded, t
<1> QED
  BY <1>7, <1>8, <1>10, <1>11, <1>12, <1>13 DEF TableInv

\* The tables hold initially.
LEMMA TableInit == Init => Types /\ TableInv
<1> SUFFICES ASSUME Init PROVE TableInv
  BY TypesInit
<1>1. \A o \in Ids : order[o] = NoOrder
  BY DEF Init
<1>2. Rows
  BY <1>1, LotType DEF Rows, RowInv, BookInv, NoOrder
<1>3. Placing /\ Wanted
  BY NoJobWants DEF Init, Placing, Wanted
<1>4. ListInv
  BY DEF Init, ListInv, Distinct
<1>5. CaughtUp
  BY <1>1 DEF CaughtUp, NoOrder
<1>6. Funded
  <2>1. \A o \in Ids : Due(o) = 0
    BY <1>1 DEF Due, Owed, NoOrder, UnresolvedRows
  <2>2. Amounts(Dues, Ids) /\ \A o \in Ids : Dues[o] <= 0
    BY <2>1 DEF Amounts, Dues
  <2>3. SumFunctionOnSet(Dues, Ids) <= Cardinality(Ids) * 0 /\ SumFunctionOnSet(Dues, Ids) \in Nat
    BY <2>2, IdsFinite, SumBounded, SumNat
  <2>4. Cardinality(Ids) \in Nat /\ MaxInventory \in Nat
    BY IdsFinite, EngineAssumption
  <2> DEFINE s == SumFunctionOnSet(Dues, Ids)
  <2>5. s <= Cardinality(Ids) * 0 /\ s \in Nat
    BY <2>3
  <2> HIDE DEF s
  <2>6. s = 0
    BY <2>4, <2>5
  <2> QED
    BY <2>4, <2>6 DEF Init, Funded, s
<1>7. PendingInv
  <2>1. Lot * MaxOrders \in Nat
    BY EngineAssumption
  <2> QED
    BY <2>1 DEF Init, PendingInv
<1> QED
  BY <1>2, <1>3, <1>4, <1>5, <1>6, <1>7 DEF TableInv

\* Every step keeps the tables, halted or not.
LEMMA TableStep ==
  ASSUME Types, Types', TableInv, [Next]_vars
  PROVE  TableInv'
<1>1. ASSUME EngineStep PROVE TableInv'
  <2>1. ASSUME NEW o \in Ids, CancelReturns(o) \/ CreateReturns(o) PROVE TableInv'
    BY <2>1, CancelBooks, AnswerBooks
  <2>2. CASE Bootstrap \/ Subscribe
    BY <2>2, StartBooks
  <2>3. CASE CancelsDone
    BY <2>3, CancelsBooks
  <2>4. CASE PlacesDone
    BY <2>4, PlacedBooks
  <2>5. ASSUME NEW d \in job.want, CreateBlocked(d) \/ CreateSend(d) PROVE TableInv'
    BY <2>5, BlockedBooks, SentBooks
  <2>6. CASE \E b \in Books : OnTick(b)
    BY <2>6, TickBooks
  <2>7. CASE OnMessage
    BY <2>7, MessageBooks
  <2>8. CASE OnFault \/ StopTask
    BY <2>8, StopBooks
  <2> QED
    BY <1>1, <2>1, <2>2, <2>3, <2>4, <2>5, <2>6, <2>7, <2>8 DEF EngineStep
<1>2. ASSUME NEW o \in Ids, VenueStep(o) \/ ProcessFill(o) \/ StreamCancel(o) PROVE TableInv'
  BY <1>2, VenueBooks, FillBooks, StreamBooks
<1>3. CASE Reconcile
  BY <1>3, ReconcileBooks
<1>4. CASE (\E msg \in Commands : Control(msg)) \/ (\E c \in BOOLEAN : Contract(c))
           \/ UNCHANGED vars
  <2>1. UNCHANGED <<pc, job, active, anchor, pending, order, inventory, safety>>
    BY <1>4 DEF Control, Contract, engine, world, vars
  <2>2. Rows' /\ Funded' /\ CaughtUp' /\ ListInv'
    BY <2>1, BooksSame, ListSame DEF TableInv
  <2> QED
    BY <2>1, <2>2 DEF TableInv, Placing, Wanted, PendingInv, Known
<1> QED
  BY <1>1, <1>2, <1>3, <1>4 DEF Next

-------------------------------------------------------------------------------
\* The grid: until the process halts, the BUYs that are out and the ones the
\* engine still wants to send fit the levels.

BuysOut == {o \in Ids : order[o].venue \in {"sent", "live"} /\ order[o].side = "BUY"}
GridFits(S, w) ==
    IsFiniteSet(BuysOf(w)) /\ Cardinality(S) + Cardinality(BuysOf(w)) <= Levels
LevelInv ==
    /\ Cardinality(BuysOut) <= Levels
    /\ Cancels("diff") /\ ~job.failed => GridFits(BuysOut \ (job.wait \union job.ok), job.want)
    /\ pc = "place" => GridFits(BuysOut, job.want)

\* The number of levels is a number.
LEMMA LevelsType == Levels \in Nat
BY EngineAssumption

\* The BUYs that are out are finitely many.
LEMMA OutFinite ==
  \A S : S \subseteq BuysOut => IsFiniteSet(S) /\ Cardinality(S) \in Nat
                                /\ Cardinality(S) <= Cardinality(BuysOut)
<1>1. BuysOut \in SUBSET Ids
  BY DEF BuysOut
<1>2. IsFiniteSet(BuysOut)
  BY <1>1, IdsFinite, FS_Subset
<1> QED
  BY <1>2, FS_Subset, FS_CardinalityType

\* Fewer orders out and fewer quotes wanted fit as well.
LEMMA GridShrinks ==
  \A S, T, v, w : GridFits(T, w) /\ IsFiniteSet(T) /\ S \subseteq T /\ v \subseteq w
                  => GridFits(S, v)
<1> SUFFICES ASSUME NEW S, NEW T, NEW v, NEW w, GridFits(T, w), IsFiniteSet(T),
                    S \subseteq T, v \subseteq w
             PROVE  GridFits(S, v)
  OBVIOUS
<1>1. Cardinality(S) <= Cardinality(T) /\ Cardinality(S) \in Nat /\ Cardinality(T) \in Nat
  BY FS_Subset, FS_CardinalityType
<1>2. BuysOf(v) \in SUBSET BuysOf(w) /\ IsFiniteSet(BuysOf(w))
  BY DEF BuysOf, GridFits
<1>3. /\ IsFiniteSet(BuysOf(v)) /\ Cardinality(BuysOf(v)) <= Cardinality(BuysOf(w))
      /\ Cardinality(BuysOf(v)) \in Nat /\ Cardinality(BuysOf(w)) \in Nat
  BY <1>2, FS_Subset, FS_CardinalityType
<1>4. Cardinality(T) + Cardinality(BuysOf(w)) <= Levels
  BY DEF GridFits
<1> QED
  BY <1>1, <1>3, <1>4, LevelsType DEF GridFits

\* Nothing more goes out, and the handler's job does not grow.
LEMMA LevelShrinks ==
  ASSUME Types, LevelInv, BuysOut' \subseteq BuysOut,
         \/ pc' \notin {"cancel", "place"}
         \/ /\ pc' = pc /\ job'.want \subseteq job.want
            /\ pc = "cancel" =>
                 \/ job'.failed = TRUE
                 \/ /\ job'.why = job.why /\ job'.failed = job.failed
                    /\ job.wait \union job.ok \subseteq job'.wait \union job'.ok
  PROVE  LevelInv'
<1>1. IsFiniteSet(BuysOut) /\ Cardinality(BuysOut') <= Cardinality(BuysOut)
      /\ Cardinality(BuysOut') \in Nat /\ Cardinality(BuysOut) \in Nat
  BY OutFinite
<1>2. Cardinality(BuysOut') <= Levels
  BY <1>1, LevelsType DEF LevelInv
<1>3. ASSUME pc' = "place" PROVE GridFits(BuysOut', job'.want)
  <2>1. GridFits(BuysOut, job.want) /\ job'.want \subseteq job.want
    BY <1>3 DEF LevelInv
  <2> QED
    BY <1>1, <2>1, GridShrinks
<1>4. ASSUME pc' = "cancel", job'.why = "diff", ~job'.failed
      PROVE  GridFits(BuysOut' \ (job'.wait \union job'.ok), job'.want)
  <2>1. /\ GridFits(BuysOut \ (job.wait \union job.ok), job.want) /\ job'.want \subseteq job.want
        /\ job.wait \union job.ok \subseteq job'.wait \union job'.ok
    BY <1>4 DEF LevelInv, Cancels
  <2>2. IsFiniteSet(BuysOut \ (job.wait \union job.ok))
    BY OutFinite
  <2>3. BuysOut' \ (job'.wait \union job'.ok) \subseteq BuysOut \ (job.wait \union job.ok)
    BY <2>1
  <2> QED
    BY <2>1, <2>2, <2>3, GridShrinks
<1>5. Cardinality(BuysOut)' <= Levels
  BY <1>2 DEF BuysOut
<1> QED
  BY <1>3, <1>4, <1>5 DEF LevelInv, Cancels, GridFits, BuysOf

\* What a move of one order does to the BUYs that are out.
LEMMA OutMoved ==
  ASSUME Types, NEW o \in Ids
  PROVE  \A w, v, m, n, b :
            /\ Becomes(o, w, v, m, n, b)
            /\ v \in {"sent", "live"} => order[o].venue \in {"sent", "live"}
            => BuysOut' \subseteq BuysOut
<1> SUFFICES ASSUME NEW w, NEW v, NEW m, NEW n, NEW b, Becomes(o, w, v, m, n, b),
                    v \in {"sent", "live"} => order[o].venue \in {"sent", "live"}
             PROVE  BuysOut' \subseteq BuysOut
  OBVIOUS
<1>1. DOMAIN order = Ids
  BY DEF Types, BookType
<1>2. order'[o] = Moved(order[o], w, v, m, n, b) /\ \A p \in Ids : p # o => order'[p] = order[p]
  BY <1>1 DEF Becomes
<1>3. order'[o].venue = v /\ order'[o].side = order[o].side
  BY <1>2 DEF Moved
<1> QED
  BY <1>2, <1>3 DEF BuysOut

\* A step that leaves the orders leaves the BUYs that are out.
LEMMA OutSame ==
  ASSUME UNCHANGED order
  PROVE  BuysOut' = BuysOut
BY DEF BuysOut

\* No step but a send makes an order go out.
LEMMA OutShrinks ==
  ASSUME Types,
         \/ \E o \in Ids : \/ VenueStep(o) \/ ProcessFill(o) \/ StreamCancel(o)
                           \/ CancelReturns(o) \/ CreateReturns(o)
         \/ Reconcile
  PROVE  BuysOut' \subseteq BuysOut
<1>1. ASSUME NEW o \in Ids, VenueStep(o) PROVE BuysOut' \subseteq BuysOut
  <2>1. \E w, v, m, n, b : /\ Becomes(o, w, v, m, n, b)
                           /\ v \in {"sent", "live"} => order[o].venue \in {"sent", "live"}
    BY <1>1, MovedBy
  <2> QED
    BY <2>1, OutMoved
<1>2. ASSUME NEW o \in Ids, ProcessFill(o) PROVE BuysOut' \subseteq BuysOut
  BY <1>2, MovedBy, OutMoved
<1>3. ASSUME NEW o \in Ids, StreamCancel(o) PROVE BuysOut' \subseteq BuysOut
  BY <1>3, MovedBy, OutMoved
<1>4. ASSUME NEW o \in Ids, CancelReturns(o) PROVE BuysOut' \subseteq BuysOut
  <2>1. CASE CancelConfirmed(o)
    BY <2>1, MovedBy, OutMoved
  <2>2. CASE CancelMatched(o)
    BY <2>2, MovedBy, OutMoved
  <2>3. CASE CancelUnconfirmed(o)
    BY <2>3, OutSame DEF CancelUnconfirmed
  <2> QED
    BY <1>4, <2>1, <2>2, <2>3 DEF CancelReturns
<1>5. ASSUME NEW o \in Ids, CreateReturns(o) PROVE BuysOut' \subseteq BuysOut
  <2>1. PICK w, m : Becomes(o, w, order[o].venue, m, order[o].filled, order[o].booked)
    BY <1>5, Answered
  <2> QED
    BY <2>1, OutMoved
<1>6. CASE Reconcile
  <2>1. ASSUME NEW p \in Ids
        PROVE  order'[p].venue = order[p].venue /\ order'[p].side = order[p].side
    <3>1. \A r, w, v, m, n, b : /\ Moved(r, w, v, m, n, b).venue = v
                                /\ Moved(r, w, v, m, n, b).side = r.side
      BY DEF Moved
    <3>2. \/ order'[p] = order[p]
          \/ \E w \in {"OPEN", "CANCELED", "FILLED"} :
               order'[p] = Moved(order[p], w, order[p].venue, order[p].mapped,
                                 order[p].filled, order[p].booked)
      BY <1>6, Reconciled
    <3> QED
      BY <3>1, <3>2
  <2> QED
    BY <2>1 DEF BuysOut
<1> QED
  BY <1>1, <1>2, <1>3, <1>4, <1>5, <1>6

\* Without a halt, every BUY that is out is in the list between handlers.
LEMMA OutKnown ==
  ASSUME TableInv
  PROVE  BuysOut \subseteq Loose
<1> SUFFICES ASSUME NEW o \in BuysOut PROVE o \in Loose
  OBVIOUS
<1>1. o \in Ids /\ BookInv(o)
  BY DEF BuysOut, TableInv, Rows
<1> QED
  BY <1>1 DEF BuysOut, Loose, BookInv

\* A tick: what it cancels makes room for what it wants.
LEMMA TickLevels ==
  ASSUME Types, Core, TableInv, LevelInv, NEW b, OnTick(b)
  PROVE  LevelInv'
<1>1. /\ UNCHANGED <<active, order>> /\ BuysOut' = BuysOut
      /\ BuysOut \subseteq Known /\ pc = "idle"
  BY TickJob, OutSame, OutKnown DEF world, Core, TrackInv
<1> DEFINE d == Differences(b)
           K == KeptBuys(Len(active), d.stale)
<1>2. /\ d.want \subseteq Desired(b) /\ IsFiniteSet(K)
      /\ Cardinality(K) + Cardinality(BuysOf(d.want)) <= Cardinality(BuysOf(Desired(b)))
      /\ IsFiniteSet(BuysOf(Desired(b))) /\ Cardinality(BuysOf(Desired(b))) <= Levels
  BY DiffFits, DesiredQuotes DEF DiffInv
<1> HIDE DEF d
<1>3. ASSUME NEW S, S = IdsIn(d.stale) PROVE GridFits(BuysOut \ S, d.want)
  <2>1. BuysOut \ S \subseteq K
    <3>1. ASSUME NEW o \in BuysOut, o \notin S PROVE o \in K
      <4>1. PICK i \in DOMAIN active : active[i].id = o
        BY <1>1, IdsOf DEF Known
      <4>2. i \in 1 .. Len(active)
        BY <4>1 DEF Types, ListType
      <4>3. active[i].side = "BUY"
        <5>1. PICK e : e = active[i]
          OBVIOUS
        <5>2. Listed(e) /\ e.id = o
          BY <4>1, <5>1 DEF TableInv, ListInv
        <5> QED
          BY <5>1, <5>2 DEF Listed, BuysOut
      <4> QED
        BY <1>3, <3>1, <4>1, <4>2, <4>3 DEF KeptBuys
    <3> QED
      BY <3>1
  <2>2. BuysOf(d.want) \in SUBSET BuysOf(Desired(b))
    BY <1>2 DEF BuysOf
  <2>3. /\ IsFiniteSet(BuysOf(d.want)) /\ Cardinality(BuysOf(d.want)) \in Nat
        /\ Cardinality(BuysOf(Desired(b))) \in Nat
    BY <1>2, <2>2, FS_Subset, FS_CardinalityType
  <2>4. Cardinality(K) \in Nat
    BY <1>2, FS_CardinalityType
  <2>5. Cardinality(K) + Cardinality(BuysOf(d.want)) <= Levels
    <3> HIDE DEF K
    <3> QED
      BY <1>2, <2>3, <2>4, LevelsType
  <2>6. GridFits(K, d.want)
    BY <2>3, <2>5 DEF GridFits
  <2> HIDE DEF K
  <2> QED
    BY <1>2, <2>1, <2>6, GridShrinks
<1>4. Cardinality(BuysOut') <= Levels
  BY <1>1 DEF LevelInv
<1>5. ASSUME NEW why \in {"pause", "complete"}, Gather(why, active, {}) PROVE LevelInv'
  <2>1. pc' = "cancel" /\ job'.why = why
    BY <1>5 DEF Gather, NoJob
  <2> QED
    BY <1>4, <2>1 DEF LevelInv, Cancels, BuysOut
<1>6. CASE Gather("diff", d.stale, d.want)
  <2>1. pc' = "cancel" /\ job'.wait = IdsIn(d.stale) /\ job'.ok = {} /\ job'.want = d.want
    BY <1>6 DEF Gather, NoJob
  <2>2. GridFits(BuysOut' \ (job'.wait \union job'.ok), job'.want)
    BY <1>1, <1>3, <2>1
  <2> QED
    BY <1>4, <2>1, <2>2 DEF LevelInv, BuysOut, GridFits, BuysOf
<1>7. CASE /\ pc' = "place" /\ d.stale = <<>>
           /\ job' = [NoJob EXCEPT !.why = "diff", !.want = d.want]
  <2>1. job'.want = d.want
    BY <1>7 DEF NoJob
  <2>2. IdsIn(d.stale) = {}
    BY <1>7, IdsOf
  <2>3. GridFits(BuysOut', job'.want)
    BY <1>1, <1>3, <2>1, <2>2
  <2> QED
    BY <1>4, <1>7, <2>3 DEF LevelInv, Cancels, BuysOut, GridFits, BuysOf
<1>8. CASE Idle
  BY <1>4, <1>8 DEF Idle, LevelInv, Cancels, BuysOut
<1> QED
  BY <1>5, <1>6, <1>7, <1>8, TickJob DEF d

\* The end of a gather: every cancel of the diff is confirmed before a quote of
\* the grid goes out.
LEMMA CancelsLevels ==
  ASSUME Types, Core, LevelInv, CancelsDone
  PROVE  LevelInv'
<1>1. pc = "cancel" /\ job.wait = {} /\ BuysOut' = BuysOut
  BY Cancelled, OutSame DEF world
<1>2. Cardinality(BuysOut') <= Levels
  BY <1>1 DEF LevelInv
<1>3. CASE pc' \notin {"cancel", "place"}
  BY <1>1, <1>3, LevelShrinks
<1>4. ASSUME NEW s, NEW w, Gather("finally", s, w) PROVE LevelInv'
  <2>1. pc' = "cancel" /\ job'.why = "finally"
    BY <1>4 DEF Gather, NoJob
  <2> QED
    BY <1>2, <2>1 DEF LevelInv, Cancels, BuysOut
<1>5. CASE /\ job.why = "diff" /\ ~job.failed /\ pc' = "place"
           /\ job' = [job EXCEPT !.ok = {}]
  <2>1. \A o \in job.ok : order[o].venue = "closed"
    BY <1>1 DEF Core, GatherInv
  <2>2. BuysOut \ (job.wait \union job.ok) = BuysOut
    BY <1>1, <2>1 DEF BuysOut
  <2>3. GridFits(BuysOut, job.want)
    BY <1>1, <1>5, <2>2 DEF LevelInv, Cancels
  <2>4. job'.want = job.want
    BY <1>5 DEF Types, JobType
  <2>5. GridFits(BuysOut', job'.want)
    BY <1>1, <2>3, <2>4
  <2> QED
    BY <1>2, <1>5, <2>5 DEF LevelInv, Cancels, BuysOut, GridFits, BuysOf
<1> QED
  BY <1>3, <1>4, <1>5, Cancelled DEF Idle

\* A quote that is blocked leaves room; one that is sent takes the place it had.
LEMMA PlaceLevels ==
  ASSUME Types, TableInv, LevelInv, NEW d \in job.want, CreateBlocked(d) \/ CreateSend(d)
  PROVE  LevelInv'
<1>1. CASE CreateBlocked(d)
  <2>1. /\ pc = "place" /\ pc' = pc /\ BuysOut' = BuysOut
        /\ job' = [job EXCEPT !.want = @ \ {d}]
    BY <1>1, OutSame DEF CreateBlocked, world
  <2>2. job'.want \subseteq job.want
    BY <2>1 DEF Types, JobType
  <2> QED
    BY <2>1, <2>2, LevelShrinks
<1>2. CASE CreateSend(d)
  <2>1. pc = "place" /\ pc' = pc
    BY <1>2 DEF CreateSend
  <2>2. PICK o \in Ids :
          /\ order[o].row = "none" /\ order'[o].venue = "sent" /\ order'[o].side = d.side
          /\ \A p \in Ids : p # o => order'[p] = order[p]
          /\ Calling(o, d)
    BY <1>2, Sent
  <2>3. job'.want = job.want \ {d}
    BY <2>2 DEF Calling, Types, JobType
  <2>4. GridFits(BuysOut, job.want)
    BY <2>1 DEF LevelInv
  <2>5. CASE d.side # "BUY"
    <3>1. BuysOut' \subseteq BuysOut
      BY <2>2, <2>5 DEF BuysOut
    <3> QED
      BY <2>1, <2>3, <3>1, LevelShrinks
  <2>6. CASE d.side = "BUY"
    <3> DEFINE B == BuysOf(job.want)
               C == BuysOf(job'.want)
               S == BuysOut
               T == BuysOut'
    <3>1. d \in B /\ C = B \ {d}
      BY <2>3, <2>6 DEF BuysOf
    <3>2. o \notin S /\ T = S \union {o}
      <4>1. RowInv(o)
        BY DEF TableInv, Rows
      <4> QED
        BY <2>2, <2>6, <4>1 DEF BuysOut, RowInv
    <3>3. IsFiniteSet(B) /\ IsFiniteSet(S) /\ Cardinality(S) + Cardinality(B) <= Levels
      BY <2>4, OutFinite DEF GridFits
    <3> HIDE DEF B, C, S, T
    <3>4. /\ IsFiniteSet(C) /\ Cardinality(C) = Cardinality(B) - 1
          /\ Cardinality(T) = Cardinality(S) + 1
          /\ Cardinality(B) \in Nat /\ Cardinality(S) \in Nat /\ Cardinality(C) \in Nat
      BY <3>1, <3>2, <3>3, FS_RemoveElement, FS_AddElement, FS_CardinalityType
    <3>5. Cardinality(T) <= Levels /\ Cardinality(T) + Cardinality(C) <= Levels
      BY <3>3, <3>4, LevelsType
    <3>6. GridFits(T, job'.want)
      BY <3>4, <3>5 DEF GridFits, C
    <3> QED
      BY <2>1, <3>5, <3>6 DEF T, LevelInv, Cancels, BuysOut, GridFits, BuysOf
  <2> QED
    BY <2>5, <2>6
<1> QED
  BY <1>1, <1>2

\* Answers and what happens around the engine take nothing but room.
LEMMA WorldLevels ==
  ASSUME Types, LevelInv, ~safety'.halted,
         \/ \E o \in Ids : \/ VenueStep(o) \/ ProcessFill(o) \/ StreamCancel(o)
                           \/ CancelReturns(o) \/ CreateReturns(o)
         \/ Reconcile
  PROVE  LevelInv'
<1>1. BuysOut' \subseteq BuysOut
  BY OutShrinks
<1>2. CASE (\E o \in Ids : VenueStep(o) \/ ProcessFill(o) \/ StreamCancel(o)) \/ Reconcile
  <2>1. pc' = pc /\ job' = job
    BY <1>2 DEF VenueStep, ProcessFill, StreamCancel, Reconcile, engine
  <2> QED
    BY <1>1, <2>1, LevelShrinks
<1>3. ASSUME NEW o \in Ids, CancelReturns(o) PROVE LevelInv'
  <2>1. pc = "cancel" /\ pc' = pc
    BY <1>3 DEF CancelReturns
  <2>2. CASE CancelConfirmed(o)
    <3>1. job' = [job EXCEPT !.wait = @ \ {o}, !.ok = @ \union {o}]
      BY <2>2 DEF CancelConfirmed
    <3>2. /\ job'.want = job.want /\ job'.why = job.why /\ job'.failed = job.failed
          /\ job'.wait = job.wait \ {o} /\ job'.ok = job.ok \union {o}
      BY <3>1 DEF Types, JobType
    <3> QED
      BY <1>1, <2>1, <3>2, LevelShrinks
  <2>3. CASE CancelMatched(o) \/ CancelUnconfirmed(o)
    <3>1. job' = [job EXCEPT !.wait = @ \ {o}, !.failed = TRUE]
      BY <2>3 DEF CancelMatched, CancelUnconfirmed
    <3>2. job'.want = job.want /\ job'.failed = TRUE
      BY <3>1 DEF Types, JobType
    <3> QED
      BY <1>1, <2>1, <3>2, LevelShrinks
  <2> QED
    BY <1>3, <2>2, <2>3 DEF CancelReturns
<1>4. ASSUME NEW o \in Ids, CreateReturns(o) PROVE LevelInv'
  <2>1. pc = "place" /\ pc' = pc
    BY <1>4 DEF CreateReturns
  <2>2. \/ job' = [job EXCEPT !.calls = @ \ {o}, !.ok = @ \union {o}]
        \/ job' = [job EXCEPT !.calls = @ \ {o}]
    BY <1>4 DEF CreateReturns
  <2>3. job'.want = job.want
    BY <2>2 DEF Types, JobType
  <2> QED
    BY <1>1, <2>1, <2>3, LevelShrinks
<1> QED
  BY <1>2, <1>3, <1>4

\* Handlers that start nothing in the grid.
LEMMA HandlerLevels ==
  ASSUME Types, LevelInv, OnMessage \/ StopTask \/ Bootstrap \/ Subscribe \/ PlacesDone
  PROVE  LevelInv'
<1>1. BuysOut' = BuysOut
  BY OutSame DEF OnMessage, StopTask, Bootstrap, Subscribe, PlacesDone, world
<1>2. Cardinality(BuysOut') <= Levels
  BY <1>1 DEF LevelInv
<1>3. ASSUME NEW why \in {"suspend", "exit", "finally"}, NEW s, NEW w, Gather(why, s, w)
      PROVE  LevelInv'
  <2>1. pc' = "cancel" /\ job'.why = why
    BY <1>3 DEF Gather, NoJob
  <2> QED
    BY <1>2, <2>1 DEF LevelInv, Cancels, BuysOut
<1>4. pc' \notin {"cancel", "place"} => LevelInv'
  BY <1>1, LevelShrinks
<1>5. CASE OnMessage
  <2>1. \/ \E why \in {"suspend", "exit"} : Gather(why, active, {})
        \/ UNCHANGED <<pc, job>> /\ pc = "idle"
    BY <1>5, Messaged
  <2> QED
    BY <1>3, <1>4, <2>1
<1>6. CASE StopTask
  <2>1. pc' = "stopped" \/ Gather("finally", active, {})
    BY <1>6 DEF StopTask, CancelAll
  <2> QED
    BY <1>3, <1>4, <2>1
<1>7. CASE Bootstrap \/ Subscribe \/ PlacesDone
  BY <1>4, <1>7 DEF Bootstrap, Subscribe, PlacesDone, Idle
<1> QED
  BY <1>5, <1>6, <1>7

\* Until the process halts the grid fits, whatever happens.
LEMMA LevelStep ==
  ASSUME Types, Core, TableInv, LevelInv, [Next]_vars, ~safety.halted, ~safety'.halted
  PROVE  LevelInv'
<1>1. ASSUME EngineStep PROVE LevelInv'
  <2>1. ASSUME NEW o \in Ids, CancelReturns(o) \/ CreateReturns(o) PROVE LevelInv'
    BY <2>1, WorldLevels
  <2>2. CASE OnMessage \/ StopTask \/ Bootstrap \/ Subscribe \/ PlacesDone
    BY <2>2, HandlerLevels
  <2>3. CASE CancelsDone
    BY <2>3, CancelsLevels
  <2>4. ASSUME NEW d \in job.want, CreateBlocked(d) \/ CreateSend(d) PROVE LevelInv'
    BY <2>4, PlaceLevels
  <2>5. CASE \E b \in Books : OnTick(b)
    BY <2>5, TickLevels
  <2>6. ~OnFault
    BY HaltIfType DEF OnFault, Types
  <2> QED
    BY <1>1, <2>1, <2>2, <2>3, <2>4, <2>5, <2>6 DEF EngineStep
<1>2. CASE \/ \E o \in Ids : VenueStep(o) \/ ProcessFill(o) \/ StreamCancel(o)
           \/ Reconcile
  BY <1>2, WorldLevels
<1>3. CASE (\E msg \in Commands : Control(msg)) \/ (\E c \in BOOLEAN : Contract(c))
           \/ UNCHANGED vars
  <2>1. UNCHANGED <<pc, job, order>>
    BY <1>3 DEF Control, Contract, engine, world, vars
  <2> QED
    BY <2>1, OutSame, LevelShrinks
<1> QED
  BY <1>1, <1>2, <1>3 DEF Next

\* Nothing is out initially.
LEMMA LevelInit == Init => LevelInv
<1> SUFFICES ASSUME Init PROVE LevelInv
  OBVIOUS
<1>1. \A o \in Ids : order[o].venue = "none"
  BY DEF Init, NoOrder
<1>2. BuysOut = {}
  BY <1>1 DEF BuysOut
<1>3. Cardinality(BuysOut) <= Levels
  BY <1>2, LevelsType, FS_EmptySet
<1> QED
  BY <1>3 DEF Init, LevelInv, Cancels

-------------------------------------------------------------------------------
\* The whole argument: the types, the table of orders, and until the process
\* halts the quotes that are tracked and the grid.
Whole == IInv /\ TableInv /\ (safety.halted \/ LevelInv)

\* The whole argument holds in every reachable state.
LEMMA WholeHolds == Spec => []Whole
<1>1. Init => Whole
  BY TypesInit, CoreInit, TableInit, LevelInit DEF Whole, IInv
<1>2. Whole /\ [Next]_vars => Whole'
  <2> SUFFICES ASSUME Whole, [Next]_vars PROVE Whole'
    OBVIOUS
  <2>1. Types /\ Types' /\ TableInv'
    BY TypesStep, TableStep DEF Whole, IInv
  <2>2. CASE safety.halted
    BY <2>1, <2>2, HaltStays DEF Whole, IInv
  <2>3. CASE ~safety.halted /\ ~safety'.halted
    BY <2>1, <2>3, CoreStep, LevelStep DEF Whole, IInv
  <2>4. CASE safety'.halted
    BY <2>1, <2>4 DEF Whole, IInv
  <2> QED
    BY <2>2, <2>3, <2>4
<1> QED
  BY <1>1, <1>2, PTL DEF Spec

\* The fields keep their types: an order has one entry in active_orders, the
\* pending notional is bounded by the orders, fills are never booked before they
\* happen, and what is held never passes the budget, because create_order charges
\* every BUY that can still fill before it sends it.
THEOREM TypeCorrect == Spec => []TypeOK
<1>1. Whole => TypeOK
  <2> SUFFICES ASSUME Whole PROVE TypeOK
    OBVIOUS
  <2>1. Types /\ TableInv
    BY DEF Whole, IInv
  <2>2. /\ pc \in {"off", "booted", "idle", "cancel", "place", "stopped"}
        /\ safety \in [halted : BOOLEAN, reconciled : BOOLEAN]
    BY <2>1 DEF Types, FlagType
  <2>3. IdsIn(active) \subseteq Ids /\ Cardinality(IdsIn(active)) = Len(active)
    BY <2>1, ActiveList, ListLength DEF TableInv
  <2>4. pending \in 0 .. (Lot * MaxOrders)
    BY <2>1 DEF TableInv, PendingInv
  <2>5. \A o \in Ids : order[o].booked <= order[o].filled /\ order[o].filled <= Lot
    BY <2>1 DEF TableInv, Rows, RowInv, BookInv
  <2>6. inventory \in 0 .. MaxInventory
    <3> DEFINE s == SumFunctionOnSet(Dues, Ids)
    <3>1. s \in Nat /\ inventory \in Nat /\ inventory + s <= MaxInventory
      BY <2>1, DuesNat, IdsFinite, SumNat DEF TableInv, Funded
    <3>2. MaxInventory \in Nat
      BY EngineAssumption
    <3> HIDE DEF s
    <3> QED
      BY <3>1, <3>2
  <2> QED
    BY <2>2, <2>3, <2>4, <2>5, <2>6 DEF TypeOK
<1> QED
  BY <1>1, WholeHolds, PTL

\* sync_orders_diff never has more BUYs out than grid levels, or trading is
\* halted: what its pass keeps and asks for fits the grid, and the replacements
\* wait until every stale quote is confirmed closed.
THEOREM LevelsHold == Spec => []OneQuotePerLevel
<1>1. Whole => OneQuotePerLevel
  BY DEF Whole, LevelInv, BuysOut, OneQuotePerLevel
<1> QED
  BY <1>1, WholeHolds, PTL

\* Between handlers the pending notional in inventory_state covers what the live
\* BUYs can still buy, or trading is halted: every one of them has an entry of its
\* own, and an entry is at least as large as what its order has left.
THEOREM PendingHolds == Spec => []PendingCoversBuys
<1>1. Whole => PendingCoversBuys
  <2> SUFFICES ASSUME Whole, pc = "idle", anchor # 0, ~safety.halted
               PROVE  SumFunctionOnSet([o \in Ids |-> Lot - order[o].filled], LiveBuys)
                        <= pending
    BY DEF PendingCoversBuys
  <2> DEFINE f == [o \in Ids |-> Lot - order[o].filled]
             S == LiveBuys
             g == Sizes(active)
             T == Buys(active)
             h == [o \in S |-> CHOOSE i \in DOMAIN active : active[i].id = o]
  <2>1. Types /\ TableInv /\ Core
    BY DEF Whole, IInv
  <2>2. pending = SumFunctionOnSet(g, T)
    BY <2>1 DEF TableInv, PendingInv, BuyUnits, Sizes, Buys
  <2>3. /\ active \in Seq(ToSet(active))
        /\ \A i \in DOMAIN active : active[i].id \in Ids /\ Listed(active[i])
                                    /\ active[i].size \in 0 .. Lot
    BY <2>1, ActiveList DEF TableInv
  <2>4. ASSUME NEW o \in S
        PROVE  /\ o \in Ids /\ order[o].side = "BUY"
               /\ \E i \in DOMAIN active : active[i].id = o
    <3>1. o \in Ids /\ order[o].side = "BUY" /\ order[o].venue = "live" /\ BookInv(o)
      BY <2>1 DEF LiveBuys, Live, TableInv, Rows
    <3>2. o \in Known
      BY <2>1, <3>1 DEF Core, TrackInv, Loose, BookInv
    <3> QED
      BY <3>1, <3>2, IdsOf DEF Known
  <2>5. ASSUME NEW o \in S
        PROVE  h[o] \in DOMAIN active /\ active[h[o]].id = o
    BY <2>4
  <2> HIDE DEF h
  <2>6. ASSUME NEW o \in S
        PROVE  /\ h[o] \in T /\ f[o] \in Nat /\ f[o] <= g[h[o]]
    <3>1. PICK e : e = active[h[o]]
      OBVIOUS
    <3>2. e.id = o /\ Listed(e) /\ h[o] \in DOMAIN active
      BY <2>3, <2>5, <3>1
    <3>3. e.side = "BUY" /\ e.size \in 0 .. Lot /\ Lot <= e.size + order[o].filled
      BY <2>4, <3>2 DEF Listed
    <3>4. /\ order[o].filled \in Nat /\ order[o].filled <= Lot /\ Lot \in Nat
      BY <2>1, <2>4, Fields, LotType DEF TableInv, Rows, BookInv
    <3>5. f[o] = Lot - order[o].filled /\ g[h[o]] = e.size
      BY <2>4, <3>1, <3>2 DEF Sizes
    <3> HIDE DEF f, g
    <3> QED
      BY <3>1, <3>2, <3>3, <3>4, <3>5 DEF Buys
  <2>7. h \in Injection(S, T)
    <3>1. h \in [S -> T]
      BY <2>6 DEF h
    <3>2. \A o, p \in S : h[o] = h[p] => o = p
      BY <2>5
    <3> HIDE DEF S, T
    <3> QED
      BY <3>1, <3>2 DEF Injection, IsInjective
  <2>8. IsFiniteSet(S) /\ IsFiniteSet(T)
    <3>1. S \in SUBSET Ids /\ T \in SUBSET (1 .. Len(active)) /\ Len(active) \in Nat
      BY <2>3 DEF LiveBuys, Live, Buys
    <3>2. PICK n \in Nat : n = Len(active)
      BY <3>1
    <3>3. IsFiniteSet(1 .. n)
      BY FS_Interval
    <3> HIDE DEF S, T
    <3> QED
      BY <3>1, <3>2, <3>3, IdsFinite, FS_Subset
  <2>9. Amounts(f, S) /\ Amounts(g, T)
    <3>1. Amounts(f, S)
      <4> HIDE DEF f, S
      <4> QED
        BY <2>6 DEF Amounts
    <3>2. ASSUME NEW i \in T PROVE g[i] \in Nat
      <4>1. i \in DOMAIN active
        BY DEF Buys
      <4>2. g[i] = active[i].size
        BY <4>1 DEF Sizes
      <4> QED
        BY <2>3, <4>1, <4>2, LotType
    <3> HIDE DEF g, T
    <3> QED
      BY <3>1, <3>2 DEF Amounts
  <2> HIDE DEF f, S, g, T
  <2>10. SumFunctionOnSet(f, S) <= SumFunctionOnSet(g, T)
    BY <2>6, <2>7, <2>8, <2>9, SumInjected
  <2> QED
    BY <2>2, <2>10 DEF f, S
<1> QED
  BY <1>1, WholeHolds, PTL
===============================================================================
