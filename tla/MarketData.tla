------------------------------ MODULE MarketData ------------------------------
(***************************************************************************)
(* The market data gateway for one asset: the consumer of the SDK stream   *)
(* and the freshness monitor, which also fetches the book over REST.  They *)
(* share the local order book and publish it to Redis - the key ob:<asset> *)
(* and the channel tick:<asset> - in several awaits each.                  *)
(*                                                                         *)
(* Data abstraction.  A book is its best bid and best ask, 0 for an empty  *)
(* side; the n-th change of the venue's book is Moves[n].  The age of a    *)
(* book is the flag `fresh'.  The reason of an invalid book is the part of *)
(* the gateway that found it.  The key market_constraints:<asset>, written *)
(* just before ob:<asset>, is left out: no gateway decision reads it, and  *)
(* its failing write is RedisFails at "obValid".                           *)
(***************************************************************************)
EXTENDS Integers, Sequences

CONSTANTS Moves,     \* Moves[n] = [side, price]: the venue's n-th change
          Opening,   \* the venue's book before them
          Numbered,  \* the sets of sources that may carry sequence numbers
          QueueCap,  \* events the SDK buffers before it drops
          Faults,    \* what may disturb them, see FaultKinds
          MaxFaults  \* bound: how many of them in a behaviour

Processes == {"consumer", "monitor"}
Sources   == {"rest", "stream"}

\* The stream disconnects; an event or a snapshot arrives too old; a REST call
\* fails or brings no levels; a Redis call fails; an event that is no change of
\* the book arrives: a tick size, a malformed one, a trade.
FaultKinds == {"stream", "late", "rest", "redis", "tick"}

ASSUME MarketDataAssumption ==
    /\ Opening \in [bid : Nat, ask : Nat]
    /\ Moves \in Seq([side : {"bid", "ask"}, price : Nat])
    /\ {QueueCap, MaxFaults} \subseteq Nat /\ Numbered \subseteq SUBSET Sources
    /\ Faults \subseteq FaultKinds

VARIABLES
    venue,      \* changes made so far
    sequenced,  \* the sources that carry sequence numbers
    stream,     \* the SDK's connection: open, queue, dropped
    local,      \* LocalOrderbook of the asset: levels and metadata
    seenOpen,   \* _last_stream_open
    notice,     \* _last_invalid_notice
    job,        \* where each process stands
    ob,         \* Redis: the key ob:<asset>
    tick,       \* Redis: the last message on tick:<asset> is a valid book
    ready,      \* readiness flag market_data_integrity
    halted,     \* trading_safety._halted
    faults      \* faults so far, at most MaxFaults

outside == <<venue, sequenced, stream>>
redis   == <<ob, tick, notice>>
vars    == <<outside, local, seenOpen, redis, job, ready, halted, faults>>

NoSeq  == -1
NoBook == [bid |-> 0, ask |-> 0]

After(book, move) == [book EXCEPT ![move.side] = move.price]
BookAt[n \in 0 .. Len(Moves)] ==
    IF n = 0 THEN Opening ELSE After(BookAt[n - 1], Moves[n])

\* validate_book_levels: both sides, not crossed or locked.
Sound(book) == book.bid > 0 /\ book.ask > 0 /\ book.bid < book.ask

\* LocalOrderbook.snapshot, and assess_snapshot of it.
HasSnapshot == local.known /\ local.valid /\ local.book.bid > 0 /\ local.book.ask > 0
\* Mutant: a book does not grow old.
HealthyAnyAge == HasSnapshot /\ Sound(local.book)
Healthy     == HasSnapshot /\ local.fresh /\ Sound(local.book)

SeqOf(source, n) == IF source \in sequenced THEN n ELSE NoSeq

Fault(k) == k \in Faults /\ faults < MaxFaults /\ faults' = faults + 1

Init ==
    /\ venue = 0 /\ sequenced \in Numbered
    /\ stream = [open |-> TRUE, queue |-> <<>>, dropped |-> FALSE]
    /\ local = [known |-> FALSE, valid |-> FALSE, resync |-> FALSE, fresh |-> FALSE,
                seq |-> NoSeq, book |-> NoBook]
    /\ seenOpen = TRUE /\ notice = "none"
    /\ job = [p \in Processes |->
                 [pc |-> IF p = "consumer" THEN "wait" ELSE "sleep"]]
    /\ ob = [valid |-> FALSE, book |-> NoBook]
    /\ tick = FALSE
    /\ ready = FALSE /\ halted = FALSE /\ faults = 0

-------------------------------------------------------------------------------
(* The venue and the SDK *)

\* A full buffer drops the event, a closed connection never sees it.
Emitted(event) ==
    IF ~stream.open THEN stream
    ELSE IF Len(stream.queue) >= QueueCap THEN [stream EXCEPT !.dropped = TRUE]
    ELSE [stream EXCEPT !.queue = Append(@, event)]

\* A change of the book, sent as a delta or as a full book.
VenueMoves ==
    /\ venue < Len(Moves)
    /\ venue' = venue + 1
    /\ \E kind \in {"delta", "book"} :
          stream' = Emitted([kind |-> kind, version |-> venue + 1])
    /\ UNCHANGED <<sequenced, local, seenOpen, redis, job, ready, halted,
                   faults>>

OtherEvent ==
    /\ Fault("tick")
    /\ \E kind \in {"tick", "malformed", "trade"} :
          stream' = Emitted([kind |-> kind, version |-> venue])
    /\ UNCHANGED <<venue, sequenced, local, seenOpen, redis, job, ready, halted>>

Disconnect ==
    /\ stream.open /\ Fault("stream")
    /\ stream' = [stream EXCEPT !.open = FALSE]
    /\ UNCHANGED <<venue, sequenced, local, seenOpen, redis, job, ready,
                   halted>>

\* Transparent to the iterator.
Reconnect ==
    /\ ~stream.open
    /\ stream' = [stream EXCEPT !.open = TRUE]
    /\ UNCHANGED <<venue, sequenced, local, seenOpen, redis, job, ready,
                   halted, faults>>

\* MARKET_DATA_MAX_AGE_SEC passes without an update.
BookAges ==
    /\ local.fresh
    /\ local' = [local EXCEPT !.fresh = FALSE]
    /\ UNCHANGED <<outside, seenOpen, redis, job, ready, halted, faults>>

-------------------------------------------------------------------------------
(* Publishing: the same awaits, whoever publishes *)

At(p, pc)    == job[p].pc = pc
Goto(p, state) == job' = [job EXCEPT ![p] = state]

Refreshing(next) == [pc |-> "refresh", next |-> next]

PublishValid(p, next) ==
    Goto(p, [pc |-> "obValid", book |-> local'.book, after |-> Refreshing(next)])
PublishInvalid(p, reason, after) ==
    Goto(p, [pc |-> "obInvalid", reason |-> reason, after |-> after])

SetObValid(p) ==
    /\ At(p, "obValid")
    /\ ob' = [valid |-> TRUE, book |-> job[p].book]
    /\ Goto(p, [job[p] EXCEPT !.pc = "tickValid"])
    /\ UNCHANGED <<outside, local, seenOpen, tick, notice, ready, halted, faults>>

SendTickValid(p) ==
    /\ At(p, "tickValid")
    /\ tick' = TRUE
    /\ Goto(p, job[p].after)
    /\ UNCHANGED <<outside, local, seenOpen, ob, notice, ready, halted, faults>>

\* Mutant: the invalid book goes to the channel only.
SetObInvalidUnkept(p) ==
    /\ At(p, "obInvalid")
    /\ Goto(p, IF notice = job[p].reason THEN job[p].after
               ELSE [job[p] EXCEPT !.pc = "tickInvalid"])
    /\ UNCHANGED <<outside, local, seenOpen, redis, ready, halted, faults>>

\* The key is rewritten every time, the channel only for a new reason.
SetObInvalid(p) ==
    /\ At(p, "obInvalid")
    /\ ob' = [valid |-> FALSE, book |-> NoBook]
    /\ Goto(p, IF notice = job[p].reason THEN job[p].after
               ELSE [job[p] EXCEPT !.pc = "tickInvalid"])
    /\ UNCHANGED <<outside, local, seenOpen, tick, notice, ready, halted, faults>>

SendTickInvalid(p) ==
    /\ At(p, "tickInvalid")
    /\ tick' = FALSE
    /\ Goto(p, [job[p] EXCEPT !.pc = "notice"])
    /\ UNCHANGED <<outside, local, seenOpen, ob, notice, ready, halted, faults>>

SetNotice(p) ==
    /\ At(p, "notice")
    /\ notice' = job[p].reason
    /\ Goto(p, job[p].after)
    /\ UNCHANGED <<outside, local, seenOpen, ob, tick, ready, halted, faults>>

\* _refresh_integrity_readiness, then on: the monitor refreshes inside its fetch
\* as well, and goes on to `next'.
Refresh(p) ==
    /\ At(p, "refresh")
    /\ ready' = Healthy
    /\ Goto(p, [pc |-> job[p].next])
    /\ UNCHANGED <<outside, local, seenOpen, redis, halted, faults>>

\* A Redis call raises: the process halts and ends; a failure in the monitor's
\* fetch is only logged.
InFetch(p) == job[p].after.pc = "refresh" /\ job[p].after.next \in {"resync", "health"}

RedisFails(p) ==
    /\ job[p].pc \in {"obValid", "tickValid", "obInvalid", "tickInvalid"}
    /\ Fault("redis")
    /\ IF InFetch(p)
       THEN Goto(p, [pc |-> job[p].after.next]) /\ UNCHANGED <<ready, halted>>
       ELSE /\ Goto(p, [pc |-> "ended"])
            /\ halted' = TRUE
            /\ ready' = (ready /\ p # "monitor")
    /\ UNCHANGED <<outside, local, seenOpen, redis>>

Publish(p) ==
    \/ SetObValid(p) \/ SendTickValid(p) \/ SetObInvalid(p) \/ SendTickInvalid(p)
    \/ SetNotice(p) \/ Refresh(p)

-------------------------------------------------------------------------------
(* apply_event and the stream consumer *)

Invalid(resync) == [local EXCEPT !.valid = FALSE, !.resync = @ \/ resync]

Snapshot(source, version) ==
    [known |-> TRUE, valid |-> TRUE, resync |-> FALSE, fresh |-> TRUE,
     seq |-> SeqOf(source, version), book |-> BookAt[version]]

Waiting   == At("consumer", "wait") /\ stream.queue # <<>> /\ ~stream.dropped
Event     == Head(stream.queue)
Consumed  == stream' = [stream EXCEPT !.queue = Tail(@)]
Untouched == UNCHANGED <<venue, sequenced, seenOpen, ob, tick, ready, halted>>

\* The event changes nothing: read the next one.
Skip == UNCHANGED <<local, notice, job>>

\* The event makes the book untrusted, or changes it; publishing a valid book
\* clears the notice first.
Reject(book) ==
    /\ local' = book
    /\ PublishInvalid("consumer", "event", Refreshing("wait"))
    /\ UNCHANGED notice
Accept(book) ==
    /\ local' = book
    /\ IF book.valid /\ book.book.bid > 0 /\ book.book.ask > 0
       THEN PublishValid("consumer", "wait") /\ notice' = "none"
       ELSE Goto("consumer", Refreshing("wait")) /\ UNCHANGED notice

\* evaluate_cursor.
OldCursor(seq) == seq # NoSeq /\ local.seq # NoSeq /\ seq <= local.seq
GapIgnored(seq) == FALSE  \* mutant: a gap goes unnoticed
Gap(seq)       == seq # NoSeq /\ local.seq # NoSeq /\ seq > local.seq + 1

\* An event older than MARKET_DATA_MAX_AGE_SEC; a late trade is passed over.
StreamLate ==
    /\ Waiting /\ Consumed /\ Untouched /\ Fault("late")
    /\ IF Event.kind = "trade" THEN Skip ELSE Reject(Invalid(TRUE))

StreamBook ==
    LET version == Event.version IN
    /\ Waiting /\ Event.kind = "book" /\ Consumed /\ Untouched
    /\ IF OldCursor(SeqOf("stream", version)) THEN Skip
       ELSE IF ~Sound(BookAt[version]) THEN Reject(Invalid(TRUE))
       ELSE Accept(Snapshot("stream", version))
    /\ UNCHANGED faults

\* Mutant: a delta advances the cursor by itself.
ChangedCounting(version) ==
    LET book == After(local.book, Moves[version]) IN
    [known |-> TRUE, valid |-> Sound(book), resync |-> ~Sound(book), fresh |-> TRUE,
     seq |-> local.seq + 1, book |-> book]

\* The levels and the cursor after a delta, trusted if they are sound.
Changed(version) ==
    LET book == After(local.book, Moves[version]) IN
    [known |-> TRUE, valid |-> Sound(book), resync |-> ~Sound(book), fresh |-> TRUE,
     seq |-> SeqOf("stream", version), book |-> book]

StreamDelta ==
    LET version == Event.version
        seq     == SeqOf("stream", version)
    IN
    /\ Waiting /\ Event.kind = "delta" /\ Consumed /\ Untouched
    /\ IF ~local.known THEN Reject(Invalid(TRUE))
       ELSE IF local.resync THEN Reject(local)
       ELSE IF OldCursor(seq) THEN Skip
       ELSE IF Gap(seq) THEN Reject(Invalid(TRUE))
       ELSE IF ~Changed(version).valid THEN Reject(Changed(version))
       ELSE Accept(Changed(version))
    /\ UNCHANGED faults

\* tick_size_change: the constraint is new, and the book is marked healthy.
StreamTick ==
    /\ Waiting /\ Event.kind \in {"tick", "malformed"} /\ Consumed /\ Untouched
    /\ IF local.known /\ Event.kind = "tick" THEN Accept([local EXCEPT !.valid = TRUE])
       ELSE Reject(Invalid(TRUE))
    /\ UNCHANGED faults

\* last_trade_price: the book as it stands is published with the trade.
StreamTrade ==
    /\ Waiting /\ Event.kind = "trade" /\ Consumed /\ Untouched
    /\ IF local.known THEN Accept(local) ELSE Skip
    /\ UNCHANGED faults

\* The SDK says that events are missing: the consumer halts and ends.
StreamDropped ==
    /\ At("consumer", "wait") /\ stream.queue # <<>> /\ stream.dropped
    /\ stream' = [stream EXCEPT !.queue = Tail(@)]
    /\ local' = Invalid(TRUE)
    /\ PublishInvalid("consumer", "dropped", [pc |-> "halting"])
    /\ UNCHANGED <<venue, sequenced, seenOpen, redis, ready, halted, faults>>

ConsumerHalts ==
    /\ At("consumer", "halting")
    /\ halted' = TRUE
    /\ Goto("consumer", [pc |-> "ended"])
    /\ UNCHANGED <<outside, local, seenOpen, redis, ready, faults>>

Consume ==
    \/ StreamLate \/ StreamBook \/ StreamDelta \/ StreamTick \/ StreamTrade
    \/ StreamDropped \/ ConsumerHalts

-------------------------------------------------------------------------------
(* fetch_initial_snapshot, in the monitor *)

\* The venue answers; the reply travels.
RestAnswers ==
    /\ At("monitor", "rest")
    /\ Goto("monitor", [pc |-> "reply", version |-> venue, next |-> job["monitor"].next])
    /\ UNCHANGED <<outside, local, seenOpen, redis, ready, halted, faults>>

RestFails ==
    /\ At("monitor", "rest") /\ Fault("rest")
    /\ Goto("monitor", [pc |-> job["monitor"].next])
    /\ UNCHANGED <<outside, local, seenOpen, redis, ready, halted>>

\* seed: whatever the stream has applied meanwhile is replaced.
RestSeeds ==
    /\ At("monitor", "reply") /\ Sound(BookAt[job["monitor"].version])
    /\ local' = Snapshot("rest", job["monitor"].version)
    /\ notice' = "none"
    /\ PublishValid("monitor", job["monitor"].next)
    /\ UNCHANGED <<outside, seenOpen, ob, tick, ready, halted, faults>>

\* A reply without a level leaves the local book as it is.
RestEmpty ==
    /\ At("monitor", "reply")
    /\ IF BookAt[job["monitor"].version] = NoBook THEN UNCHANGED faults ELSE Fault("rest")
    /\ Goto("monitor", [pc |-> job["monitor"].next])
    /\ UNCHANGED <<outside, local, seenOpen, redis, ready, halted>>

\* seed raises: a side is missing, the book is crossed, or it is too old.
RestRefused ==
    /\ At("monitor", "reply") /\ BookAt[job["monitor"].version] # NoBook
    /\ \/ ~Sound(BookAt[job["monitor"].version]) /\ UNCHANGED faults
       \/ Fault("late")
    /\ local' = Invalid(TRUE)
    /\ PublishInvalid("monitor", "snapshot", Refreshing(job["monitor"].next))
    /\ UNCHANGED <<outside, seenOpen, redis, ready, halted>>

Fetch == RestAnswers \/ RestSeeds \/ RestEmpty \/ RestRefused

-------------------------------------------------------------------------------
(* The freshness monitor: one pass a second *)

MonitorSeesClosed ==
    /\ At("monitor", "sleep") /\ ~stream.open /\ seenOpen
    /\ seenOpen' = FALSE
    /\ local' = Invalid(TRUE)
    /\ PublishInvalid("monitor", "disconnected", [pc |-> "resync"])
    /\ UNCHANGED <<outside, redis, ready, halted, faults>>

\* The SDK reconnected: seed from REST before any other delta is trusted.
MonitorSeesOpen ==
    /\ At("monitor", "sleep") /\ stream.open /\ ~seenOpen
    /\ seenOpen' = TRUE
    /\ Goto("monitor", [pc |-> "rest", next |-> "resync"])
    /\ UNCHANGED <<outside, local, redis, ready, halted, faults>>

\* No change of the connection to handle, or it is handled.
ConnectionSeen ==
    At("monitor", "resync") \/ (At("monitor", "sleep") /\ stream.open = seenOpen)

\* Mutant: only an unhealthy book is fetched again.
ResyncDueUnhealthy ==
    /\ ConnectionSeen /\ ~Healthy
    /\ Goto("monitor", [pc |-> "rest", next |-> "health"])
    /\ UNCHANGED <<outside, local, seenOpen, redis, ready, halted, faults>>

\* MARKET_DATA_REST_RESYNC_SEC have passed since the last one.
ResyncDue ==
    /\ ConnectionSeen
    /\ Goto("monitor", [pc |-> "rest", next |-> "health"])
    /\ UNCHANGED <<outside, local, seenOpen, redis, ready, halted, faults>>

\* No resync is due, or it is done.
ResyncSeen == ConnectionSeen \/ At("monitor", "health")

MonitorFindsHealthy ==
    /\ ResyncSeen /\ Healthy
    /\ ready' = TRUE
    /\ Goto("monitor", [pc |-> "sleep"])
    /\ UNCHANGED <<outside, local, seenOpen, redis, halted, faults>>

\* A book that is only old may be revived by the next delta.
MonitorFindsUnhealthy ==
    /\ ResyncSeen /\ ~Healthy
    /\ local' = Invalid(FALSE)
    /\ PublishInvalid("monitor", IF HasSnapshot THEN "stale" ELSE "missing",
                      Refreshing("sleep"))
    /\ UNCHANGED <<outside, seenOpen, redis, ready, halted, faults>>

Monitor ==
    \/ MonitorSeesClosed \/ MonitorSeesOpen
    \/ ResyncDue \/ MonitorFindsHealthy \/ MonitorFindsUnhealthy

-------------------------------------------------------------------------------
Next ==
    \/ VenueMoves \/ OtherEvent \/ Disconnect \/ Reconnect \/ BookAges
    \/ Consume \/ Monitor \/ Fetch \/ RestFails
    \/ \E p \in Processes : Publish(p) \/ RedisFails(p)

Spec == Init /\ [][Next]_vars

\* The coroutines run on, the resync falls due again and again.  Nothing forces
\* the venue to move or to reconnect, and no REST call need succeed beyond the
\* bound on faults.  A book ages while the venue's is empty: nothing renews it.
Fairness ==
    /\ \A p \in Processes : WF_vars(Publish(p))
    /\ WF_vars(Fetch) /\ WF_vars(Consume) /\ WF_vars(Monitor) /\ SF_vars(ResyncDue)
    /\ WF_vars(BookAges /\ BookAt[venue] = NoBook)

FairSpec == Spec /\ Fairness

-------------------------------------------------------------------------------
(* Properties *)

Books == [bid : Nat, ask : Nat]

\* Every flag, cursor and program counter stays in its domain; without sequence
\* numbers the book never has a cursor.
TypeOK ==
    /\ venue \in 0 .. Len(Moves)
    /\ stream.dropped \in BOOLEAN /\ Len(stream.queue) <= QueueCap
    /\ local \in [known : BOOLEAN, valid : BOOLEAN, resync : BOOLEAN,
                  fresh : BOOLEAN, seq : {NoSeq} \cup 0 .. Len(Moves), book : Books]
    /\ sequenced \subseteq Sources /\ (sequenced = {} => local.seq = NoSeq)
    /\ {seenOpen, ready, halted, tick, stream.open} \subseteq BOOLEAN
    /\ ob \in [valid : BOOLEAN, book : Books]
    /\ \A p \in Processes :
          job[p].pc \in {"wait", "sleep", "rest", "reply", "resync", "health",
                         "obValid", "tickValid", "obInvalid", "tickInvalid",
                         "notice", "refresh", "halting", "ended"}

\* With sequence numbers in the stream and in the REST replies, a book the gateway
\* trusts is exactly the venue's book at its cursor, whatever was lost, dropped,
\* late or overtaken by a REST reply.  Numbers in the stream alone do not do: the
\* first delta after a seed sets the cursor, gap or not (integrity.py:83).
ExactAtCursor ==
    sequenced = Sources /\ local.valid /\ ~local.resync => local.book = BookAt[local.seq]

MonitorAlive == ~At("monitor", "ended")

\* Once the venue stops, a gateway whose monitor lives ends with the venue's
\* book, in memory and in Redis, or with none it trusts if that book is crossed
\* or one-sided: a publication that was overtaken does not stay, and neither
\* does a delta that was lost, with and without sequence numbers (README.md:19
\* "periodic REST resync").
BookHeals ==
    <>[](MonitorAlive =>
            /\ IF Sound(BookAt[venue]) THEN local.book = BookAt[venue] ELSE ~local.valid
            /\ ob.valid => ob.book = BookAt[venue])

\* A book that stays invalid is invalid in Redis and in the readiness flag, also
\* when a publication of the valid one was still under way.
InvalidIsSeen ==
    <>[](MonitorAlive /\ ~local.valid) => <>[](~ob.valid /\ ~ready)

\* "Invalid data cancels known quotes instead of being priced" (README.md:75):
\* the last tick of a book that stays invalid says so.  It does not hold: a
\* publication that was under way is delivered last, and the notice of the
\* invalid one is not repeated.
InvalidIsTold ==
    <>[](MonitorAlive /\ ~local.valid) => <>[]~tick

\* "full snapshot is required before applying more deltas" (gateway.py:212): a
\* book that needs one is not trusted before it.  It does not hold: a
\* tick_size_change marks it healthy (gateway.py:333).
TrustNeedsSnapshot == local.valid => ~local.resync
===============================================================================
