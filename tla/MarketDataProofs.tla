---------------------------- MODULE MarketDataProofs ----------------------------
(***************************************************************************)
(* Proofs about MarketData, for any moves of the venue, any buffer and any *)
(* faults.                                                                 *)
(*                                                                         *)
(* What makes the book exact is not its validity: a tick size change can   *)
(* mark any known book valid.  Exact says it of every known book that does *)
(* not wait for a snapshot, and that is inductive: only a change that is   *)
(* neither old nor beyond a gap moves the cursor, to the version after it. *)
(***************************************************************************)
EXTENDS MarketData, DataInduction

Versions == 0 .. Len(Moves)
Events == [kind : {"book", "tick", "malformed", "trade"}, version : Versions]
            \union [kind : {"delta"}, version : Versions \ {0}]

\* Where a process stands, with what it carries there.
Nexts   == {"wait", "sleep", "resync", "health"}
Reasons == {"event", "dropped", "snapshot", "disconnected", "stale", "missing"}
Afters  == [pc : {"refresh"}, next : Nexts] \union [pc : {"resync", "halting"}]
Jobs == [pc : {"wait", "sleep", "resync", "health", "halting", "ended"}]
          \union [pc : {"rest", "refresh"}, next : Nexts]
          \union [pc : {"reply"}, next : Nexts, version : Versions]
          \union [pc : {"obValid", "tickValid"}, book : Books, after : Afters]
          \union [pc : {"obInvalid", "tickInvalid", "notice"}, reason : Reasons,
                  after : Afters]

StreamType == /\ venue \in Versions /\ sequenced \subseteq Sources
              /\ stream \in [open : BOOLEAN, queue : Seq(Events), dropped : BOOLEAN]
              /\ Len(stream.queue) <= QueueCap
Locals     == [known : BOOLEAN, valid : BOOLEAN, resync : BOOLEAN,
               fresh : BOOLEAN, seq : {NoSeq} \union Versions, book : Books]
LocalType  == local \in Locals
FlagType   == /\ {seenOpen, ready, halted, tick} \subseteq BOOLEAN
              /\ ob \in [valid : BOOLEAN, book : Books]
JobType    == job \in [Processes -> Jobs]

\* A book that waits for nothing is the venue's book at its cursor.
Exact == sequenced = Sources /\ local.known /\ ~local.resync =>
            local.seq \in Versions /\ local.book = BookAt[local.seq]
Cursor == /\ local.valid => local.known
          /\ sequenced = {} => local.seq = NoSeq
          /\ sequenced = Sources /\ local.known => local.seq # NoSeq
CursorInv == Cursor /\ Exact

IInv == StreamType /\ LocalType /\ FlagType /\ JobType /\ CursorInv

-------------------------------------------------------------------------------
\* The books of the venue.

MoveType == [side : {"bid", "ask"}, price : Nat]

\* A move of the venue makes a book of a book.
LEMMA AfterType ==
  ASSUME NEW b \in Books, NEW mv \in MoveType
  PROVE  After(b, mv) \in Books
<1>1. CASE mv.side = "bid"
  BY <1>1 DEF After, Books, MoveType
<1>2. CASE mv.side = "ask"
  BY <1>2 DEF After, Books, MoveType
<1> QED
  BY <1>1, <1>2 DEF MoveType

\* BookAt satisfies the equation that defines it: for every n there is a
\* function on 0 .. n that does.
LEMMA BookAtUnfolds ==
  BookAt = [n \in Versions |-> IF n = 0 THEN Opening ELSE After(BookAt[n - 1], Moves[n])]
<1> DEFINE Solves(f, k) ==
      f = [n \in 0 .. k |-> IF n = 0 THEN Opening ELSE After(f[n - 1], Moves[n])]
           H == {k \in Nat : \E f : Solves(f, k)}
<1>1. 0 \in H
  <2>1. Solves([n \in 0 .. 0 |-> Opening], 0)
    OBVIOUS
  <2> QED
    BY <2>1
<1>2. ASSUME NEW k \in Nat, k \in H PROVE k + 1 \in H
  <2>1. PICK f : Solves(f, k)
    BY <1>2
  <2> DEFINE g == [n \in 0 .. k + 1 |-> IF n = 0 THEN Opening ELSE After(f[n - 1], Moves[n])]
  <2>2. ASSUME NEW n \in 0 .. k PROVE g[n] = f[n]
    <3>1. f[n] = IF n = 0 THEN Opening ELSE After(f[n - 1], Moves[n])
      BY <2>1
    <3>2. n \in 0 .. k + 1
      OBVIOUS
    <3> QED
      BY <3>1, <3>2
  <2>3. \A n \in 0 .. k + 1 : n # 0 => n - 1 \in 0 .. k
    OBVIOUS
  <2>4. g = [n \in 0 .. k + 1 |-> IF n = 0 THEN Opening ELSE After(g[n - 1], Moves[n])]
    BY <2>2, <2>3
  <2> HIDE DEF g
  <2>5. Solves(g, k + 1)
    BY <2>4
  <2> HIDE DEF Solves
  <2> QED
    BY <2>5
<1>3. Len(Moves) \in H
  <2> HIDE DEF H
  <2>1. Nat \subseteq H
    BY <1>1, <1>2, SetInduction
  <2>2. Len(Moves) \in Nat
    BY MarketDataAssumption
  <2> QED
    BY <2>1, <2>2
<1>4. PICK f : Solves(f, Len(Moves))
  BY <1>3
<1>5. BookAt = CHOOSE b : Solves(b, Len(Moves))
  BY DEF BookAt
<1> QED
  BY <1>4, <1>5 DEF Versions

\* The book of a version is the one before it, moved once.
LEMMA BookAtStep ==
  /\ BookAt[0] = Opening
  /\ \A n \in Versions \ {0} : BookAt[n] = After(BookAt[n - 1], Moves[n])
<1>1. 0 \in Versions
  BY MarketDataAssumption DEF Versions
<1> QED
  BY <1>1, BookAtUnfolds

\* Every book of the venue is a book.
LEMMA BookAtType == \A n \in Versions : BookAt[n] \in Books
<1> DEFINE H == {n \in Nat : n \in Versions => BookAt[n] \in Books}
<1>1. 0 \in H
  BY BookAtStep, MarketDataAssumption DEF Books
<1>2. ASSUME NEW n \in Nat, n \in H PROVE n + 1 \in H
  <2>1. CASE n + 1 \in Versions
    <3>1. n \in Versions /\ Moves[n + 1] \in MoveType
      <4>1. Moves \in Seq(MoveType) /\ Len(Moves) \in Nat
        BY MarketDataAssumption DEF MoveType
      <4>2. n \in Versions /\ n + 1 \in 1 .. Len(Moves)
        BY <2>1, <4>1 DEF Versions
      <4> QED
        BY <4>1, <4>2
    <3>2. BookAt[n + 1] = After(BookAt[n], Moves[n + 1])
      BY <2>1, BookAtStep
    <3> QED
      BY <1>2, <3>1, <3>2, AfterType
  <2> QED
    BY <2>1
<1>3. Nat \subseteq H
  <2> HIDE DEF H
  <2> QED
    BY <1>1, <1>2, SetInduction
<1> QED
  BY <1>3, MarketDataAssumption DEF Versions

-------------------------------------------------------------------------------
\* The local book: what the gateway may replace it with.

\* An invalidation leaves the book and its cursor.
LEMMA InvalidBook ==
  ASSUME LocalType, CursorInv, NEW r \in BOOLEAN,
         local' = Invalid(r), sequenced' = sequenced
  PROVE  LocalType' /\ CursorInv'
<1>1. /\ Invalid(r) \in Locals /\ ~Invalid(r).valid
      /\ Invalid(r).known = local.known /\ Invalid(r).seq = local.seq
      /\ Invalid(r).book = local.book /\ (~Invalid(r).resync => ~local.resync)
  BY DEF LocalType, Locals, Invalid
<1> QED
  BY <1>1 DEF LocalType, CursorInv, Cursor, Exact

\* A snapshot replaces the book and its cursor.
LEMMA SnapshotBook ==
  ASSUME LocalType, NEW source \in Sources, NEW v \in Versions,
         local' = Snapshot(source, v), sequenced' = sequenced
  PROVE  LocalType' /\ CursorInv'
<1>1. Snapshot(source, v) \in Locals
  BY BookAtType DEF Locals, Snapshot, SeqOf
<1>2. v # NoSeq
  BY MarketDataAssumption DEF Versions, NoSeq
<1>3. /\ Snapshot(source, v).known /\ Snapshot(source, v).book = BookAt[v]
      /\ Snapshot(source, v).seq = IF source \in sequenced THEN v ELSE NoSeq
  BY DEF Snapshot, SeqOf
<1> QED
  BY <1>1, <1>2, <1>3 DEF LocalType, CursorInv, Cursor, Exact

\* A delta that is neither old nor beyond a gap is the one after the cursor.
LEMMA ChangedBook ==
  ASSUME LocalType, CursorInv, NEW v \in Versions \ {0},
         local.known, ~local.resync, ~OldCursor(SeqOf("stream", v)), ~Gap(SeqOf("stream", v)),
         local' = Changed(v), sequenced' = sequenced
  PROVE  LocalType' /\ CursorInv'
<1>0. Len(Moves) \in Nat /\ v # NoSeq /\ v \in 1 .. Len(Moves) /\ Moves[v] \in MoveType
  <2>1. Moves \in Seq(MoveType) /\ Len(Moves) \in Nat
    BY MarketDataAssumption DEF MoveType
  <2>2. v \in 1 .. Len(Moves)
    BY <2>1 DEF Versions
  <2> QED
    BY <2>1, <2>2 DEF NoSeq
<1> DEFINE b == After(local.book, Moves[v])
<1>1. b \in Books
  BY <1>0, AfterType DEF LocalType, Locals
<1>2. /\ Changed(v) \in Locals /\ Changed(v).known /\ Changed(v).book = b
      /\ Changed(v).seq = IF "stream" \in sequenced THEN v ELSE NoSeq
  BY <1>1 DEF Changed, Locals, SeqOf, Sound
<1>3. ASSUME sequenced = Sources PROVE b = BookAt[v]
  <2>1. local.seq \in Versions /\ local.seq # NoSeq /\ local.book = BookAt[local.seq]
    BY <1>3 DEF CursorInv, Cursor, Exact
  <2>2. v > local.seq /\ v <= local.seq + 1
    BY <1>0, <1>3, <2>1 DEF OldCursor, Gap, SeqOf, Sources, Versions
  <2>3. local.seq = v - 1
    BY <1>0, <2>1, <2>2 DEF Versions
  <2> QED
    BY <2>1, <2>3, BookAtStep
<1> QED
  BY <1>0, <1>2, <1>3 DEF LocalType, CursorInv, Cursor, Exact, Sources

\* A tick size change leaves the book and its cursor.
LEMMA TickBook ==
  ASSUME LocalType, CursorInv, local.known,
         local' = [local EXCEPT !.valid = TRUE], sequenced' = sequenced
  PROVE  LocalType' /\ CursorInv'
<1>1. /\ local' \in Locals /\ local'.known /\ local'.seq = local.seq
      /\ local'.book = local.book /\ local'.resync = local.resync
  BY DEF LocalType, Locals
<1> QED
  BY <1>1 DEF LocalType, CursorInv, Cursor, Exact

\* A step that leaves the local book leaves its cursor exact.
LEMMA SameBook ==
  ASSUME LocalType, CursorInv, UNCHANGED <<local, sequenced>>
  PROVE  LocalType' /\ CursorInv'
  BY DEF LocalType, CursorInv, Cursor, Exact

-------------------------------------------------------------------------------
\* Where the processes stand.

\* A process moves to one of its places.
LEMMA GotoType ==
  ASSUME JobType, NEW p \in Processes, NEW j \in Jobs, Goto(p, j)
  PROVE  JobType'
  BY DEF JobType, Goto

\* Where the publications of a process lead.
LEMMA PublishType ==
  ASSUME JobType, LocalType', NEW p \in Processes, NEW n \in Nexts,
         NEW reason \in Reasons, NEW after \in Afters
  PROVE  /\ PublishValid(p, n) => JobType'
         /\ PublishInvalid(p, reason, after) => JobType'
         /\ Goto(p, Refreshing(n)) => JobType'
         /\ Refreshing(n) \in Afters
<1>1. Refreshing(n) \in Afters /\ Refreshing(n) \in Jobs
  BY DEF Refreshing, Afters, Jobs
<1>2. [pc |-> "obValid", book |-> local'.book, after |-> Refreshing(n)] \in Jobs
  BY <1>1 DEF LocalType, Locals, Jobs
<1>3. [pc |-> "obInvalid", reason |-> reason, after |-> after] \in Jobs
  BY DEF Jobs
<1> QED
  BY <1>1, <1>2, <1>3, GotoType DEF PublishValid, PublishInvalid

\* What a job at each place carries.
LEMMA JobShapes ==
  ASSUME JobType, NEW p \in Processes
  PROVE  /\ job[p].pc \in {"rest", "refresh", "reply"} => job[p].next \in Nexts
         /\ job[p].pc = "reply" => job[p].version \in Versions
         /\ job[p].pc \in {"obValid", "tickValid"} =>
               /\ job[p] \in [pc : {"obValid", "tickValid"}, book : Books, after : Afters]
         /\ job[p].pc \in {"obInvalid", "tickInvalid", "notice"} =>
               job[p] \in [pc : {"obInvalid", "tickInvalid", "notice"},
                           reason : Reasons, after : Afters]
  BY DEF JobType, Jobs

\* Every place of a process is a job.
LEMMA PlaceJobs ==
  /\ \A n \in Nexts : [pc |-> n] \in Jobs
  /\ [pc |-> "ended"] \in Jobs /\ Afters \subseteq Jobs
  BY DEF Nexts, Jobs, Afters

-------------------------------------------------------------------------------
\* The stream.

\* An event that is queued keeps the queue typed and bounded.
LEMMA EmittedType ==
  ASSUME StreamType, NEW e \in Events
  PROVE  /\ Emitted(e) \in [open : BOOLEAN, queue : Seq(Events), dropped : BOOLEAN]
         /\ Len(Emitted(e).queue) <= QueueCap
<1>1. CASE ~stream.open
  BY <1>1 DEF Emitted, StreamType
<1>2. CASE stream.open /\ Len(stream.queue) >= QueueCap
  BY <1>2 DEF Emitted, StreamType
<1>3. CASE stream.open /\ ~(Len(stream.queue) >= QueueCap)
  <2>1. /\ Append(stream.queue, e) \in Seq(Events)
        /\ Len(Append(stream.queue, e)) = Len(stream.queue) + 1
    BY DEF StreamType
  <2>2. Emitted(e) = [stream EXCEPT !.queue = Append(stream.queue, e)]
    BY <1>3 DEF Emitted
  <2>3. /\ Emitted(e) \in [open : BOOLEAN, queue : Seq(Events), dropped : BOOLEAN]
        /\ Emitted(e).queue = Append(stream.queue, e)
    BY <2>1, <2>2 DEF StreamType
  <2>4. Len(stream.queue) + 1 <= QueueCap
    <3>1. Len(stream.queue) \in Nat /\ QueueCap \in Nat
      BY MarketDataAssumption DEF StreamType
    <3> QED
      BY <1>3, <3>1
  <2> QED
    BY <2>1, <2>3, <2>4
<1> QED
  BY <1>1, <1>2, <1>3

\* An event that is read leaves a shorter queue.
LEMMA ConsumedType ==
  ASSUME StreamType, stream.queue # <<>>, Consumed, UNCHANGED <<venue, sequenced>>
  PROVE  StreamType' /\ Event \in Events
<1>1. /\ Head(stream.queue) \in Events /\ Tail(stream.queue) \in Seq(Events)
      /\ Len(Tail(stream.queue)) = Len(stream.queue) - 1
      /\ Len(stream.queue) \in Nat /\ QueueCap \in Nat
  BY MarketDataAssumption DEF StreamType
<1>2. stream' = [stream EXCEPT !.queue = Tail(stream.queue)]
  BY DEF Consumed
<1>3. /\ stream' \in [open : BOOLEAN, queue : Seq(Events), dropped : BOOLEAN]
      /\ stream'.queue = Tail(stream.queue)
  BY <1>1, <1>2 DEF StreamType
<1>4. Len(stream'.queue) <= QueueCap
  BY <1>1, <1>3 DEF StreamType
<1> QED
  BY <1>1, <1>3, <1>4 DEF StreamType, Event

\* The venue and the connection keep the argument.
LEMMA OutsideStep ==
  ASSUME IInv, VenueMoves \/ OtherEvent \/ Disconnect \/ Reconnect
  PROVE  IInv'
<1> USE DEF IInv
<1>1. LocalType' /\ FlagType' /\ JobType' /\ CursorInv'
  BY DEF VenueMoves, OtherEvent, Disconnect, Reconnect, redis, LocalType, FlagType,
     JobType, CursorInv, Cursor, Exact
<1>2. CASE VenueMoves
  <2>1. venue + 1 \in Versions \ {0}
    BY <1>2, MarketDataAssumption DEF VenueMoves, StreamType, Versions
  <2>2. PICK kind \in {"delta", "book"} :
           stream' = Emitted([kind |-> kind, version |-> venue + 1])
    BY <1>2 DEF VenueMoves
  <2>3. [kind |-> kind, version |-> venue + 1] \in Events
    BY <2>1 DEF Events
  <2> QED
    BY <1>1, <1>2, <2>1, <2>2, <2>3, EmittedType DEF VenueMoves, StreamType
<1>3. CASE OtherEvent
  <2>1. PICK kind \in {"tick", "malformed", "trade"} :
           stream' = Emitted([kind |-> kind, version |-> venue])
    BY <1>3 DEF OtherEvent
  <2>2. [kind |-> kind, version |-> venue] \in Events
    BY DEF Events, StreamType
  <2> QED
    BY <1>1, <1>3, <2>1, <2>2, EmittedType DEF OtherEvent, StreamType
<1>4. CASE Disconnect \/ Reconnect
  BY <1>1, <1>4 DEF Disconnect, Reconnect, StreamType
<1> QED
  BY <1>2, <1>3, <1>4

-------------------------------------------------------------------------------
\* The consumer.

\* Skipping, rejecting and accepting: what each leaves to be shown of the book.
LEMMA Outcome ==
  ASSUME IInv, LocalType', CursorInv', Skip \/ Reject(local') \/ Accept(local')
  PROVE  JobType'
<1>1. "consumer" \in Processes /\ "wait" \in Nexts /\ "event" \in Reasons
  BY DEF Processes, Nexts, Reasons
<1>2. CASE Skip
  BY <1>2 DEF Skip, IInv, JobType
<1>3. CASE Reject(local') \/ Accept(local')
  <2>1. Refreshing("wait") \in Afters
    BY <1>1 DEF Refreshing, Afters
  <2>2. \/ PublishInvalid("consumer", "event", Refreshing("wait"))
        \/ PublishValid("consumer", "wait") \/ Goto("consumer", Refreshing("wait"))
    BY <1>3 DEF Reject, Accept
  <2> QED
    BY <1>1, <2>1, <2>2, PublishType DEF IInv
<1> QED
  BY <1>2, <1>3

\* The stream reader keeps the argument.
LEMMA ConsumeStep == ASSUME IInv, Consume PROVE IInv'
<1> USE DEF IInv
<1>0. "consumer" \in Processes
  BY DEF Processes
<1>1. CASE ConsumerHalts
  BY <1>0, <1>1, PlaceJobs, GotoType
  DEF ConsumerHalts, outside, redis, StreamType, LocalType, FlagType, CursorInv, Cursor, Exact
<1>2. CASE StreamDropped
  <2>1. StreamType'
    BY <1>2, ConsumedType DEF StreamDropped, Consumed
  <2>2. LocalType' /\ CursorInv'
    BY <1>2, InvalidBook DEF StreamDropped
  <2>3. JobType'
    <3>1. [pc |-> "halting"] \in Afters /\ "dropped" \in Reasons /\ "wait" \in Nexts
      BY DEF Afters, Reasons, Nexts
    <3> QED
      BY <1>0, <1>2, <2>2, <3>1, PublishType DEF StreamDropped
  <2> QED
    BY <1>2, <2>1, <2>2, <2>3 DEF StreamDropped, redis, FlagType
<1>3. ASSUME StreamLate \/ StreamBook \/ StreamDelta \/ StreamTick \/ StreamTrade
      PROVE   IInv'
  <2>1. /\ Waiting /\ Consumed /\ Untouched
    BY <1>3 DEF StreamLate, StreamBook, StreamDelta, StreamTick, StreamTrade
  <2>2. StreamType' /\ Event \in Events /\ FlagType'
    BY <2>1, ConsumedType DEF Waiting, Untouched, FlagType
  <2>3. UNCHANGED sequenced /\ Event.version \in Versions
    BY <2>1, <2>2 DEF Untouched, Events
  <2>4. LocalType' /\ CursorInv' /\ (Skip \/ Reject(local') \/ Accept(local'))
    <3>1. CASE StreamLate
      BY <2>3, <3>1, InvalidBook, SameBook DEF StreamLate, Reject, Skip
    <3>2. CASE StreamBook
      <4>1. CASE Skip
        BY <2>3, <4>1, SameBook DEF Skip
      <4>2. CASE Reject(Invalid(TRUE))
        BY <2>3, <4>2, InvalidBook DEF Reject
      <4>3. CASE Accept(Snapshot("stream", Event.version))
        BY <2>3, <4>3, SnapshotBook DEF Accept, Sources
      <4> QED
        BY <3>2, <4>1, <4>2, <4>3 DEF StreamBook
    <3>3. CASE StreamDelta
      <4> DEFINE v == Event.version
      <4>0. v \in Versions \ {0}
        BY <2>2, <3>3 DEF StreamDelta, Events
      <4>1. CASE Skip \/ Reject(local)
        BY <2>3, <4>1, SameBook DEF Skip, Reject
      <4>2. CASE Reject(Invalid(TRUE))
        BY <2>3, <4>2, InvalidBook DEF Reject
      <4>3. CASE /\ Reject(Changed(v)) \/ Accept(Changed(v))
                 /\ local.known /\ ~local.resync
                 /\ ~OldCursor(SeqOf("stream", v)) /\ ~Gap(SeqOf("stream", v))
        <5>1. local' = Changed(v)
          BY <4>3 DEF Reject, Accept
        <5> QED
          BY <2>3, <4>0, <4>3, <5>1, ChangedBook
      <4> QED
        BY <3>3, <4>1, <4>2, <4>3 DEF StreamDelta
    <3>4. CASE StreamTick
      <4>1. CASE local.known /\ Event.kind = "tick"
        BY <2>3, <3>4, <4>1, TickBook DEF StreamTick, Accept
      <4>2. CASE ~(local.known /\ Event.kind = "tick")
        BY <2>3, <3>4, <4>2, InvalidBook DEF StreamTick, Reject
      <4> QED
        BY <4>1, <4>2
    <3>5. CASE StreamTrade
      <4>1. Skip \/ Accept(local)
        BY <3>5 DEF StreamTrade
      <4>2. UNCHANGED local
        BY <4>1 DEF Skip, Accept
      <4> QED
        BY <2>3, <4>1, <4>2, SameBook
    <3> QED
      BY <1>3, <3>1, <3>2, <3>3, <3>4, <3>5
  <2> QED
    BY <2>2, <2>4, Outcome
<1> QED
  BY <1>1, <1>2, <1>3 DEF Consume

-------------------------------------------------------------------------------
\* The monitor and its fetches.

\* The monitor and its REST refresh keep the argument.
LEMMA MonitorStep == ASSUME IInv, Monitor \/ Fetch \/ RestFails PROVE IInv'
<1> USE DEF IInv
<1>0. /\ "monitor" \in Processes
      /\ {"wait", "sleep", "resync", "health"} = Nexts
      /\ {"snapshot", "disconnected", "stale", "missing"} \subseteq Reasons
  BY DEF Processes, Nexts, Reasons
<1>1. StreamType'
  BY DEF Monitor, Fetch, MonitorSeesClosed, MonitorSeesOpen, ResyncDue,
     MonitorFindsHealthy, MonitorFindsUnhealthy, RestAnswers, RestSeeds, RestEmpty,
     RestRefused, RestFails, outside, StreamType
<1>2. FlagType'
  BY DEF Monitor, Fetch, MonitorSeesClosed, MonitorSeesOpen, ResyncDue,
     MonitorFindsHealthy, MonitorFindsUnhealthy, RestAnswers, RestSeeds, RestEmpty,
     RestRefused, RestFails, redis, FlagType
<1>3. CASE MonitorSeesClosed
  <2>1. LocalType' /\ CursorInv'
    BY <1>3, InvalidBook DEF MonitorSeesClosed, outside
  <2>2. [pc |-> "resync"] \in Afters
    BY DEF Afters
  <2> QED
    BY <1>0, <1>1, <1>2, <1>3, <2>1, <2>2, PublishType DEF MonitorSeesClosed
<1>4. CASE MonitorSeesOpen \/ ResyncDue
  <2>1. LocalType' /\ CursorInv'
    BY <1>4, SameBook DEF MonitorSeesOpen, ResyncDue, outside
  <2>2. \A n \in Nexts : [pc |-> "rest", next |-> n] \in Jobs
    BY DEF Jobs
  <2> QED
    BY <1>0, <1>1, <1>2, <1>4, <2>1, <2>2, GotoType DEF MonitorSeesOpen, ResyncDue
<1>5. CASE MonitorFindsHealthy \/ RestFails \/ RestEmpty
  <2>1. LocalType' /\ CursorInv'
    BY <1>5, SameBook DEF MonitorFindsHealthy, RestFails, RestEmpty, outside
  <2>2. RestFails \/ RestEmpty => job["monitor"].next \in Nexts
    BY <1>0, JobShapes DEF RestFails, RestEmpty, At
  <2> QED
    BY <1>0, <1>1, <1>2, <1>5, <2>1, <2>2, PlaceJobs, GotoType
    DEF MonitorFindsHealthy, RestFails, RestEmpty
<1>6. CASE MonitorFindsUnhealthy
  <2>1. LocalType' /\ CursorInv'
    BY <1>6, InvalidBook DEF MonitorFindsUnhealthy, outside
  <2>2. Refreshing("sleep") \in Afters
    BY <1>0 DEF Refreshing, Afters
  <2> QED
    BY <1>0, <1>1, <1>2, <1>6, <2>1, <2>2, PublishType DEF MonitorFindsUnhealthy
<1>7. CASE RestAnswers
  <2>1. LocalType' /\ CursorInv'
    BY <1>7, SameBook DEF RestAnswers, outside
  <2>2. job["monitor"].next \in Nexts
    BY <1>0, <1>7, JobShapes DEF RestAnswers, At
  <2>3. [pc |-> "reply", version |-> venue, next |-> job["monitor"].next] \in Jobs
    BY <2>2 DEF Jobs, StreamType
  <2> QED
    BY <1>0, <1>1, <1>2, <1>7, <2>1, <2>3, GotoType DEF RestAnswers
<1>8. CASE RestSeeds \/ RestRefused
  <2>1. job["monitor"].next \in Nexts /\ job["monitor"].version \in Versions
    BY <1>0, <1>8, JobShapes DEF RestSeeds, RestRefused, At
  <2>2. LocalType' /\ CursorInv'
    BY <1>8, <2>1, InvalidBook, SnapshotBook DEF RestSeeds, RestRefused, outside, Sources
  <2>3. Refreshing(job["monitor"].next) \in Afters
    BY <2>1 DEF Refreshing, Afters
  <2> QED
    BY <1>0, <1>1, <1>2, <1>8, <2>1, <2>2, <2>3, PublishType DEF RestSeeds, RestRefused
<1> QED
  BY <1>3, <1>4, <1>5, <1>6, <1>7, <1>8 DEF Monitor, Fetch

-------------------------------------------------------------------------------
\* Publishing.

\* The writes to Redis keep the argument.
LEMMA PublishStep ==
  ASSUME IInv, NEW p \in Processes, Publish(p) \/ RedisFails(p)
  PROVE  IInv'
<1> USE DEF IInv
<1>1. StreamType' /\ LocalType' /\ CursorInv'
  <2>1. UNCHANGED <<venue, sequenced, stream, local>>
    BY DEF Publish, SetObValid, SendTickValid, SetObInvalid, SendTickInvalid, SetNotice,
       Refresh, RedisFails, outside
  <2> QED
    BY <2>1, SameBook DEF StreamType
<1>2. Healthy \in BOOLEAN
  BY DEF Healthy, HasSnapshot, LocalType, Locals, Sound
<1>3. FlagType'
  <2>1. CASE SetObValid(p)
    BY <2>1, JobShapes DEF SetObValid, At, FlagType
  <2>2. CASE SetObInvalid(p)
    BY <2>2 DEF SetObInvalid, NoBook, Books, FlagType
  <2>3. CASE RedisFails(p)
    BY <2>3 DEF RedisFails, redis, FlagType
  <2>4. CASE SendTickValid(p) \/ SendTickInvalid(p) \/ SetNotice(p) \/ Refresh(p)
    BY <1>2, <2>4 DEF SendTickValid, SendTickInvalid, SetNotice, Refresh, redis, FlagType
  <2> QED
    BY <2>1, <2>2, <2>3, <2>4 DEF Publish
<1>4. JobType'
  <2>1. CASE SetObValid(p)
    <3>1. [job[p] EXCEPT !.pc = "tickValid"] \in Jobs
      BY <2>1, JobShapes DEF SetObValid, At, Jobs
    <3> QED
      BY <2>1, <3>1, GotoType DEF SetObValid
  <2>2. CASE SendTickValid(p) \/ SetNotice(p)
    BY <2>2, JobShapes, PlaceJobs, GotoType DEF SendTickValid, SetNotice, At
  <2>3. CASE SetObInvalid(p)
    <3>1. job[p].after \in Jobs
      BY <2>3, JobShapes, PlaceJobs DEF SetObInvalid, At
    <3>2. [job[p] EXCEPT !.pc = "tickInvalid"] \in Jobs
      BY <2>3, JobShapes DEF SetObInvalid, At, Jobs
    <3> QED
      BY <2>3, <3>1, <3>2, GotoType DEF SetObInvalid
  <2>4. CASE SendTickInvalid(p)
    <3>1. [job[p] EXCEPT !.pc = "notice"] \in Jobs
      BY <2>4, JobShapes DEF SendTickInvalid, At, Jobs
    <3> QED
      BY <2>4, <3>1, GotoType DEF SendTickInvalid
  <2>5. CASE Refresh(p)
    BY <2>5, JobShapes, PlaceJobs, GotoType DEF Refresh, At
  <2>6. CASE RedisFails(p)
    <3>1. job[p].after \in Afters
      BY <2>6, JobShapes DEF RedisFails
    <3>2. InFetch(p) => job[p].after.next \in Nexts
      BY DEF InFetch, Nexts
    <3> QED
      BY <2>6, <3>2, PlaceJobs, GotoType DEF RedisFails
  <2> QED
    BY <2>1, <2>2, <2>3, <2>4, <2>5, <2>6 DEF Publish
<1> QED
  BY <1>1, <1>3, <1>4

-------------------------------------------------------------------------------
\* The argument holds initially.
LEMMA InvInit == Init => IInv
<1> SUFFICES ASSUME Init PROVE IInv
  OBVIOUS
<1>1. StreamType
  BY MarketDataAssumption DEF Init, StreamType, Versions
<1>2. LocalType /\ FlagType /\ CursorInv
  BY DEF Init, LocalType, Locals, FlagType, NoBook, Books, CursorInv, Cursor, Exact
<1>3. JobType
  BY DEF Init, JobType, Jobs
<1> QED
  BY <1>1, <1>2, <1>3 DEF IInv

\* Every step keeps the argument.
LEMMA InvStep == IInv /\ [Next]_vars => IInv'
<1> SUFFICES ASSUME IInv, [Next]_vars PROVE IInv'
  OBVIOUS
<1>1. CASE BookAges
  <2>1. /\ local' \in Locals /\ local'.known = local.known /\ local'.valid = local.valid
        /\ local'.resync = local.resync /\ local'.seq = local.seq /\ local'.book = local.book
    BY <1>1 DEF BookAges, IInv, LocalType, Locals
  <2> QED
    BY <1>1, <2>1 DEF BookAges, IInv, outside, redis, StreamType, LocalType, FlagType,
       JobType, CursorInv, Cursor, Exact
<1>2. CASE UNCHANGED vars
  BY <1>2 DEF vars, outside, redis, IInv, StreamType, LocalType, FlagType, JobType,
     CursorInv, Cursor, Exact
<1> QED
  BY <1>1, <1>2, OutsideStep, ConsumeStep, MonitorStep, PublishStep DEF Next

\* The argument holds in every reachable state.
LEMMA InvHolds == Spec => []IInv
  BY InvInit, InvStep, PTL DEF Spec

\* Flags, cursors, queue and program counters stay in their domains.
THEOREM TypeCorrect == Spec => []TypeOK
<1>1. IInv => TypeOK
  BY DEF IInv, StreamType, LocalType, Locals, FlagType, JobType, Jobs, CursorInv, Cursor,
     Versions, TypeOK
<1> QED
  BY <1>1, InvHolds, PTL

\* With sequence numbers on both ways a trusted book is the venue's book at its cursor,
\* whatever is lost, dropped, late or overtaken by a REST reply.
THEOREM BookExact == Spec => []ExactAtCursor
<1>1. IInv => ExactAtCursor
  BY DEF IInv, CursorInv, Cursor, Exact, ExactAtCursor
<1> QED
  BY <1>1, InvHolds, PTL
===============================================================================
