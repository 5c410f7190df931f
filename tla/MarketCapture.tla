---------------------------- MODULE MarketCapture ----------------------------
(***************************************************************************)
(* The public market capture: the gateway of crates/public-market-data     *)
(* journals every validated event of a websocket session and offers it to  *)
(* a bounded channel, the live actor of crates/live-market-state applies   *)
(* what the channel holds, and the CLI of crates/order-book-replay replays *)
(* the journal, with or without a checkpoint.                              *)
(*                                                                         *)
(* The gateway and the actor are two tasks: a message of several events,   *)
(* the synchronized marker it completes, the actor, its health ticks, the  *)
(* wall clock and a crash interleave between any two events.  The venue    *)
(* may send any of Messages, also an event before its snapshot.            *)
(***************************************************************************)
EXTENDS Integers, Sequences, SequencesExt, SequenceTheorems, NaturalsInduction,
        WellFoundedInduction, TLAPS

CONSTANTS
    Tokens,         \* the outcome tokens of the captured markets
    Subscriptions,  \* the token sets discovery may answer with
    Messages,       \* the event sequences the venue may send in one message
    Capacity,       \* channel_capacity
    StaleAfter,     \* stale_after
    MaxLog,         \* bound on the records of the journal
    MaxSequence,    \* bound on the sequence numbers taken
    MaxClock,       \* bounds on the wall clock, for one file and for segments
    MaxTroubles     \* bound on lost epochs, failed writes, crashes and clock steps back

ASSUME CapacityAssumption == Capacity \in Nat \ {0}

------------------------------------------------------------------------------
(***************************************************************************)
(* The deterministic reconstruction of token books from public events,     *)
(* crates/order-book-replay: ReplayState::apply as a predicate (the event  *)
(* is accepted) and a function (what it makes of the state), the replay of *)
(* a whole journal, and the replay that starts from a checkpoint.          *)
(*                                                                         *)
(* A book side is a function from the prices it holds to quantities; a     *)
(* token stands for a BookKey.  The gateway has already refused an event   *)
(* whose tokens are not of its condition.                                  *)
(***************************************************************************)
None == -1
EmptyReplay == [epoch |-> 0, status |-> "Inactive", last |-> None, books |-> <<>>]

Crossed(book) == \E bid \in DOMAIN book.bids, ask \in DOMAIN book.asks : bid >= ask
IsAuthoritative(s) ==
    /\ s.status = "Synchronized" /\ s.books # <<>>
    /\ \A t \in DOMAIN s.books : s.books[t].authoritative

\* The best price of a side, or None.
BestBid(book) == IF DOMAIN book.bids = {} THEN None
                 ELSE CHOOSE p \in DOMAIN book.bids : \A q \in DOMAIN book.bids : q <= p
BestAsk(book) == IF DOMAIN book.asks = {} THEN None
                 ELSE CHOOSE p \in DOMAIN book.asks : \A q \in DOMAIN book.asks : p <= q

\* Levels are <<price, quantity>> pairs as the venue sent them.
ValidLevels(levels) ==
    /\ \A i \in DOMAIN levels : levels[i][2] # 0
    /\ \A i, j \in DOMAIN levels : levels[i][1] = levels[j][1] => i = j
LevelsToMap(levels) ==
    [p \in {levels[i][1] : i \in DOMAIN levels} |->
        levels[CHOOSE i \in DOMAIN levels : levels[i][1] = p][2]]
Inserted(map, key, value) ==
    [k \in DOMAIN map \cup {key} |-> IF k = key THEN value ELSE map[k]]
SetLevel(side, price, quantity) ==
    IF quantity = 0 THEN [p \in DOMAIN side \ {price} |-> side[p]]
    ELSE Inserted(side, price, quantity)

Snapshot(event) ==
    [bids |-> LevelsToMap(event.bids), asks |-> LevelsToMap(event.asks), tick |-> None,
     trade |-> None, authoritative |-> TRUE]
ValidSnapshot(event) ==
    ValidLevels(event.bids) /\ ValidLevels(event.asks) /\ ~Crossed(Snapshot(event))

ChangeLevel(books, change) ==
    IF ~books[change.token].authoritative THEN books
    ELSE IF change.side = "Bid"
         THEN [books EXCEPT ![change.token].bids = SetLevel(@, change.price, change.quantity)]
         ELSE [books EXCEPT ![change.token].asks = SetLevel(@, change.price, change.quantity)]
\* As a bug would write it: only the token of the first change is examined.
DistrustCrossedFirst(books, changes) ==
    LET t == changes[1].token
    IN  [books EXCEPT ![t].authoritative = @ /\ ~Crossed(books[t])]
\* A crossed book is never trusted again before a fresh snapshot.
DistrustCrossed(books, changes) ==
    [t \in DOMAIN books |->
        IF \E i \in DOMAIN changes : changes[i].token = t
        THEN [books[t] EXCEPT !.authoritative = @ /\ ~Crossed(books[t])]
        ELSE books[t]]
ChangeLevels(books, changes) ==
    LET f[n \in 0..Len(changes)] ==
            IF n = 0 THEN books ELSE ChangeLevel(f[n-1], changes[n])
    IN  f[Len(changes)]
ApplyPriceChanges(books, changes) == DistrustCrossed(ChangeLevels(books, changes), changes)

BestPricesAgree(book, event) ==
    book.authoritative => BestBid(book) = event.bid /\ BestAsk(book) = event.ask

EventTokens(event) ==
    IF event.kind = "price_change"
    THEN {event.changes[i].token : i \in DOMAIN event.changes} ELSE {event.token}

SystemKinds == {"start", "identity", "synced", "rediscover", "shutdown"}
MarketKinds == {"book", "price_change", "tick_size_change", "last_trade_price", "best_bid_ask"}
Active(s) == s.status \in {"Collecting", "Synchronized"}

\* The events the parser of the gateway makes of a message; their texts and prices are anything.
ASSUME MessagesAssumption ==
    \A m \in Messages :
        /\ m \in Seq(ToSet(m))
        /\ \A i \in DOMAIN m :
               /\ m[i].kind \in MarketKinds
               /\ m[i].kind = "price_change" => m[i].changes \in Seq(ToSet(m[i].changes))

CanApplySystem(s, event) ==
    \/ event.kind \in {"start", "identity"}
    \/ event.kind = "synced" /\ s.status = "Collecting" /\ s.books # <<>>
    \/ event.kind \in {"rediscover", "shutdown"} /\ Active(s)
StartEpoch(s) == [s EXCEPT !.epoch = @ + 1, !.status = "Collecting", !.books = <<>>]
ApplySystem(s, event) ==
    CASE event.kind = "start" -> StartEpoch(s)
      [] event.kind = "identity" -> s
      [] event.kind = "synced" -> [s EXCEPT !.status = "Synchronized"]
      [] event.kind = "rediscover" -> [s EXCEPT !.status = "Inactive", !.books = <<>>]
      [] event.kind = "shutdown" -> [s EXCEPT !.status = "Shutdown"]

CanApplyMarket(s, event) ==
    /\ Active(s)
    /\ IF event.kind = "book" THEN ValidSnapshot(event)
       ELSE EventTokens(event) \subseteq DOMAIN s.books
\* apply_tick_size takes the venue's new value, whatever the old one it names.
ApplyTickSize(books, event) == [books EXCEPT ![event.token].tick = event.tick]
ApplyLastTrade(books, event) == [books EXCEPT ![event.token].trade = event.price]
ApplyMarket(s, event) ==
    CASE event.kind = "book" -> [s EXCEPT !.books = Inserted(@, event.token, Snapshot(event))]
      [] event.kind = "price_change" -> [s EXCEPT !.books = ApplyPriceChanges(@, event.changes)]
      [] event.kind = "tick_size_change" -> [s EXCEPT !.books = ApplyTickSize(@, event)]
      [] event.kind = "last_trade_price" -> [s EXCEPT !.books = ApplyLastTrade(@, event)]
      [] event.kind = "best_bid_ask" ->
            [s EXCEPT !.books[event.token].authoritative =
                @ /\ BestPricesAgree(s.books[event.token], event)]

SequenceFollows(last, sequence) == last # None => sequence = last + 1

\* ReplayState::apply: an event is accepted as a whole or not at all.
CanApply(s, e) ==
    /\ SequenceFollows(s.last, e.sequence)
    /\ IF e.event.kind \in SystemKinds THEN CanApplySystem(s, e.event)
       ELSE CanApplyMarket(s, e.event)
Applied(s, e) ==
    [(IF e.event.kind \in SystemKinds THEN ApplySystem(s, e.event)
      ELSE ApplyMarket(s, e.event)) EXCEPT !.last = e.sequence]

\* The replay of events from a state, up to the one that is refused, if any.
ReplayStep(course, e) ==
    IF course.ok /\ CanApply(course.state, e)
    THEN [state |-> Applied(course.state, e), ok |-> TRUE]
    ELSE [state |-> course.state, ok |-> FALSE]
ReplayOn(start, events) ==
    LET f[n \in 0..Len(events)] ==
            IF n = 0 THEN [state |-> start, ok |-> TRUE] ELSE ReplayStep(f[n-1], events[n])
    IN  f[Len(events)]
\* replay_path and replay_segmented_path begin with the default state.
Replayable(events) == ReplayOn(EmptyReplay, events).ok
Replay(events) == ReplayOn(EmptyReplay, events).state

\* As a bug would write it: the checkpoint is trusted without its prefix.
CheckpointMatchesUnchecked(events, checkpoint) ==
    \E n \in 1..Len(events) : events[n].sequence = checkpoint.last
\* replay_segmented_from_checkpoint: the digests agree where the sequences meet.
CheckpointMatches(events, checkpoint) ==
    IF checkpoint.last = None THEN checkpoint = EmptyReplay
    ELSE \E n \in 1..Len(events) :
            /\ events[n].sequence = checkpoint.last
            /\ Replayable(SubSeq(events, 1, n))
            /\ Replay(SubSeq(events, 1, n)) = checkpoint
\* From there on the checkpoint takes the place of the replayed state.
ReplayFromCheckpoint(events, checkpoint) ==
    LET met == IF checkpoint.last = None THEN 0
               ELSE CHOOSE n \in 1..Len(events) : events[n].sequence = checkpoint.last
    IN  ReplayOn(checkpoint, SubSeq(events, met + 1, Len(events)))

------------------------------------------------------------------------------
VARIABLES
    segmented,      \* the journal is a directory of segments, not one file
    journal,        \* the records
    synced,         \* how many of them reached the disk
    checkpoint,     \* the checkpoint file: absent, torn or sealed, and its state
    gateway,        \* "down", "discovering", "capturing" or "closing"
    sequence,       \* the next sequence number
    subscribed,     \* the tokens of the session
    pending,        \* those without a snapshot yet
    synchronized,   \* the marker was written in this session
    batch,          \* events of the current message not yet journaled
    received,       \* when the message was read
    channel,        \* the bounded channel
    actor,          \* LiveStateCore, and whether its task runs
    published,      \* the watch channel: the last snapshot
    origin,         \* records of the journal when the process started
    clock,          \* the wall clock
    troubles        \* how many of them happened

fileVars == <<segmented, journal, synced>>
sessionVars == <<subscribed, pending, synchronized, received>>
vars == <<fileVars, checkpoint, gateway, sequence, sessionVars, batch, channel, actor, published,
          origin, clock, troubles>>

File(kind, state) == [kind |-> kind, state |-> state]
NewActor == [running |-> TRUE, mode |-> "Starting", replay |-> EmptyReplay, lastReceived |-> None]
View(core) == [mode |-> core.mode, lastReceived |-> core.lastReceived]

Init ==
    /\ segmented \in BOOLEAN /\ journal = <<>> /\ synced = 0
    /\ checkpoint = File("absent", EmptyReplay)
    /\ gateway = "down" /\ sequence = 0 /\ subscribed = {} /\ pending = {}
    /\ synchronized = FALSE /\ batch = <<>> /\ received = 0 /\ channel = <<>>
    /\ actor = [NewActor EXCEPT !.running = FALSE] /\ published = View(NewActor)
    /\ origin = 0 /\ clock = 0 /\ troubles = 0

\* The locals of a session, and those of the process, are gone.
SessionGone ==
    subscribed' = {} /\ pending' = {} /\ synchronized' = FALSE /\ received' = 0 /\ batch' = <<>>
ProcessGone ==
    /\ SessionGone /\ gateway' = "down" /\ sequence' = 0 /\ origin' = 0 /\ channel' = <<>>
    /\ actor' = [NewActor EXCEPT !.running = FALSE] /\ published' = View(NewActor)

Trouble == troubles < MaxTroubles /\ troubles' = troubles + 1

-----------------------------------------------------------------------------
(* The live actor. *)

Halted(core) == [core EXCEPT !.mode = "Halted"]
\* As a bug would write it: freshness is not examined.
RefreshedAtReceipt(core, now) ==
    [core EXCEPT !.mode = IF core.replay.status = "Synchronized" THEN "Ready" ELSE "Inactive"]
\* refresh_mode with the clock it is given.
Refreshed(core, now) ==
    CASE core.replay.status = "Inactive" -> [core EXCEPT !.mode = "Inactive"]
      [] core.replay.status = "Collecting" -> [core EXCEPT !.mode = "CollectingSnapshots"]
      [] core.replay.status = "Shutdown" -> [core EXCEPT !.mode = "Shutdown"]
      [] core.replay.status = "Synchronized" ->
            IF ~IsAuthoritative(core.replay) THEN [core EXCEPT !.mode = "RecoveringSnapshot"]
            ELSE IF core.lastReceived = None \/ now < core.lastReceived THEN Halted(core)
            ELSE [core EXCEPT !.mode =
                     IF now - core.lastReceived <= StaleAfter THEN "Ready" ELSE "Stale"]

\* LiveStateCore::apply: the receive time of the event stands for now.
CoreApply(core, e) ==
    LET market == e.event.kind \in MarketKinds
    IN  IF \/ market /\ e.received < core.lastReceived
           \/ ~CanApply(core.replay, e)
        THEN Halted(core)
        ELSE Refreshed([core EXCEPT !.replay = Applied(@, e),
                                    !.lastReceived = IF market THEN e.received ELSE @], e.received)

\* One turn of the actor's loop: it publishes, and returns once it halted.
Turn(core) ==
    /\ actor' = [core EXCEPT !.running = core.mode # "Halted"]
    /\ published' = View(core)

ActorTakesEvent ==
    /\ actor.running /\ channel # <<>>
    /\ Turn(CoreApply(actor, Head(channel)))
    /\ channel' = IF actor'.running THEN Tail(channel) ELSE <<>>
    /\ UNCHANGED <<fileVars, checkpoint, gateway, sequence, sessionVars, batch, origin, clock,
                   troubles>>

HealthTick ==
    /\ actor.running
    /\ Turn(Refreshed(actor, clock))
    /\ channel' = IF actor'.running THEN channel ELSE <<>>
    /\ UNCHANGED <<fileVars, checkpoint, gateway, sequence, sessionVars, batch, origin, clock,
                   troubles>>

\* Every sender is dropped and the channel is drained.
ActorCloses ==
    /\ actor.running /\ gateway = "closing" /\ channel = <<>>
    /\ LET core == IF actor.replay.status = "Shutdown" THEN actor
                   ELSE [actor EXCEPT !.mode = "Closed"]
       IN  actor' = [core EXCEPT !.running = FALSE] /\ published' = View(core)
    /\ UNCHANGED <<fileVars, checkpoint, gateway, sequence, sessionVars, batch, channel, origin,
                   clock, troubles>>

-----------------------------------------------------------------------------
(* The gateway. *)

System(kind, tokens) == [kind |-> kind, tokens |-> tokens]
LastSequence == IF journal = <<>> THEN None ELSE journal[Len(journal)].sequence

\* main opens the journal and starts the actor.
Start ==
    /\ gateway = "down" /\ gateway' = "discovering"
    /\ sequence' = LastSequence + 1 /\ origin' = Len(journal)
    /\ actor' = NewActor /\ published' = View(NewActor)
    /\ UNCHANGED <<fileVars, checkpoint, sessionVars, batch, channel, clock, troubles>>

\* Discovery answers, the socket opens and the epoch begins.
Connect(tokens) ==
    /\ gateway = "discovering" /\ gateway' = "capturing"
    /\ subscribed' = tokens /\ pending' = tokens /\ synchronized' = FALSE
    /\ batch' = <<System("start", tokens), System("identity", tokens)>>
    /\ UNCHANGED <<fileVars, checkpoint, sequence, received, channel, actor, published, origin,
                   clock, troubles>>

\* The select loop is idle: every event of the last message was handled.
Idle == gateway = "capturing" /\ batch = <<>>

ReceiveMessage(m) ==
    /\ Idle
    /\ \A i \in DOMAIN m : EventTokens(m[i]) \subseteq subscribed
    /\ batch' = m /\ received' = clock
    /\ UNCHANGED <<fileVars, checkpoint, gateway, sequence, subscribed, pending, synchronized,
                   channel, actor, published, origin, clock, troubles>>

\* A closed socket, a missing pong, or a message that does not parse.
EpochFails ==
    /\ Idle /\ gateway' = "discovering" /\ SessionGone
    /\ Trouble
    /\ UNCHANGED <<fileVars, checkpoint, sequence, channel, actor, published, origin, clock>>

\* The rediscovery timer or ctrl-c ends the epoch with a marker.
EndEpoch(kind) ==
    /\ Idle /\ UNCHANGED sessionVars
    /\ batch' = <<System(kind, subscribed)>>
    /\ UNCHANGED <<fileVars, checkpoint, gateway, sequence, channel, actor, published, origin,
                   clock, troubles>>

\* As a bug would write it: the marker no longer waits for the last snapshot.
SnapshotsCompleteButOne(left) == \A t, u \in left : t = u
SnapshotsComplete(left) == left = {}

Envelope(event) ==
    [event |-> event, sequence |-> sequence,
     received |-> IF event.kind \in MarketKinds THEN received ELSE clock]
Without(event) == IF event.kind = "book" THEN pending \ {event.token} ELSE pending

\* The segmented writer refuses a sequence that does not follow.
AppendRefused == segmented /\ ~SequenceFollows(LastSequence, sequence)
Synced(event) == event.kind \in SystemKinds

\* append_and_deliver of the next event, and the fsync of a marker.
Deliver(event) ==
    /\ journal' = Append(journal, Envelope(event))
    /\ synced' = IF Synced(event) THEN Len(journal') ELSE synced
    /\ channel' = Append(channel, Envelope(event))

AfterEvent(event) ==
    LET complete == event.kind \in MarketKinds /\ Tail(batch) = <<>> /\ ~synchronized
                    /\ SnapshotsComplete(Without(event))
    IN  /\ batch' = IF complete THEN <<System("synced", subscribed)>> ELSE Tail(batch)
        /\ synchronized' = (synchronized \/ complete)
        /\ pending' = Without(event)
        /\ received' = IF batch' = <<>> THEN 0 ELSE received
        /\ UNCHANGED <<subscribed, gateway>>

\* The marker that ends an epoch returns from the session, or from the process.
AfterMarker(event) ==
    /\ SessionGone
    /\ gateway' = IF event.kind = "shutdown" THEN "closing" ELSE "discovering"

JournalNext ==
    /\ batch # <<>> /\ ~AppendRefused
    /\ Len(journal) < MaxLog /\ sequence < MaxSequence
    /\ actor.running /\ Len(channel) < Capacity
    /\ sequence' = sequence + 1 /\ Deliver(Head(batch))
    /\ IF Head(batch).kind \in {"rediscover", "shutdown"} THEN AfterMarker(Head(batch))
       ELSE AfterEvent(Head(batch))
    /\ UNCHANGED <<segmented, checkpoint, actor, published, origin, clock, troubles>>

\* try_send finds the channel full or closed: the process ends.
ChannelRefuses ==
    /\ batch # <<>> /\ ~AppendRefused
    /\ Len(journal) < MaxLog /\ sequence < MaxSequence
    /\ ~actor.running \/ Len(channel) = Capacity
    /\ sequence' = sequence + 1
    /\ journal' = Append(journal, Envelope(Head(batch)))
    /\ gateway' = "closing" /\ SessionGone
    /\ UNCHANGED <<segmented, synced, checkpoint, channel, actor, published, origin, clock,
                   troubles>>

\* As a bug would write it: the channel was served before the journal.
AppendFailsAfterSend ==
    /\ batch # <<>> /\ sequence < MaxSequence /\ actor.running /\ Len(channel) < Capacity
    /\ sequence' = sequence + 1 /\ gateway' = "discovering"
    /\ channel' = Append(channel, Envelope(Head(batch))) /\ SessionGone
    /\ Trouble
    /\ UNCHANGED <<fileVars, checkpoint, actor, published, origin, clock>>
\* The append fails: the sequence number is gone and the epoch ends.
AppendFails ==
    /\ batch # <<>> /\ sequence < MaxSequence
    /\ sequence' = sequence + 1 /\ gateway' = "discovering" /\ SessionGone
    /\ Trouble
    /\ UNCHANGED <<fileVars, checkpoint, channel, actor, published, origin, clock>>

\* The fsync of a marker fails after the marker was written and delivered.
MarkerSyncFails ==
    /\ batch # <<>> /\ Synced(Head(batch)) /\ ~AppendRefused
    /\ Len(journal) < MaxLog /\ sequence < MaxSequence
    /\ actor.running /\ Len(channel) < Capacity
    /\ sequence' = sequence + 1
    /\ journal' = Append(journal, Envelope(Head(batch)))
    /\ channel' = Append(channel, Envelope(Head(batch)))
    /\ gateway' = "discovering" /\ SessionGone
    /\ Trouble
    /\ UNCHANGED <<segmented, synced, checkpoint, actor, published, origin, clock>>

\* main waited for the actor and returns.
Exit ==
    /\ gateway = "closing" /\ ~actor.running /\ ProcessGone
    /\ UNCHANGED <<fileVars, checkpoint, clock, troubles>>

-----------------------------------------------------------------------------
(* The machine and the offline tools. *)

\* What was not synced may be lost, a suffix of any length.
Crash ==
    /\ gateway # "down" /\ ProcessGone
    /\ \E n \in synced..Len(journal) : journal' = SubSeq(journal, 1, n) /\ synced' = n
    /\ Trouble
    /\ UNCHANGED <<segmented, checkpoint, clock>>

\* --write-segment-checkpoint: the file is new, and torn when its writer dies.
\* It reads only the journal, so it is taken while the other tasks are idle.
SaveCheckpoint ==
    /\ segmented /\ checkpoint.kind = "absent" /\ Replayable(journal)
    /\ batch = <<>> /\ channel = <<>>
    /\ \/ checkpoint' = File("sealed", Replay(journal)) /\ troubles' = troubles
       \/ checkpoint' = File("torn", EmptyReplay) /\ Trouble
    /\ UNCHANGED <<fileVars, gateway, sequence, sessionVars, batch, channel, actor, published,
                   origin, clock>>

\* The wall clock goes on, or is set back.
ClockMoves ==
    /\ \/ clock < MaxClock[segmented] /\ clock' = clock + 1 /\ troubles' = troubles
       \/ clock > 0 /\ clock' = clock - 1 /\ Trouble
    /\ UNCHANGED <<fileVars, checkpoint, gateway, sequence, sessionVars, batch, channel, actor,
                   published, origin>>

Next ==
    \/ ActorTakesEvent \/ HealthTick \/ ActorCloses
    \/ Start \/ (\E tokens \in Subscriptions : Connect(tokens))
    \/ (\E m \in Messages : ReceiveMessage(m))
    \/ EpochFails \/ (\E kind \in {"rediscover", "shutdown"} : EndEpoch(kind))
    \/ JournalNext \/ ChannelRefuses \/ AppendFails \/ MarkerSyncFails \/ Exit
    \/ Crash \/ SaveCheckpoint \/ ClockMoves

Spec == Init /\ [][Next]_vars
\* The health interval of the select loop always ticks again.
FairSpec == Spec /\ WF_vars(HealthTick)

-----------------------------------------------------------------------------
(* Properties. *)

\* What the running actor holds: the records of this process that it took.
Taken == SubSeq(journal, origin + 1, Len(journal) - Len(channel))

\* LMS-001, LMS-007: the running actor holds exactly the offline replay of the
\* records of its process that left the channel, and those all replay
\* (append_and_deliver, CoreApply); nothing was dropped, doubled or reordered
\* on the way, and the one record a refused send leaves behind is the last.
LiveIsReplay ==
    actor.running =>
        \/ Replayable(Taken) /\ actor.replay = Replay(Taken)
        \/ /\ gateway = "closing" /\ Taken # <<>>
           /\ Replayable(Front(Taken)) /\ actor.replay = Replay(Front(Taken))

\* PMC-005, OBR-004: every book the actor holds is from a snapshot of the epoch
\* it is in, and a synchronized actor has a book for every token of the epoch
\* and for no other (StartEpoch, pending_snapshots).
Applying == IF Replayable(Taken) /\ actor.replay = Replay(Taken) THEN Taken ELSE Front(Taken)
CurrentEpoch ==
    LET start == CHOOSE n \in DOMAIN Applying :
                    /\ Applying[n].event.kind = "start"
                    /\ \A k \in n+1..Len(Applying) : Applying[k].event.kind # "start"
    IN  SubSeq(Applying, start, Len(Applying))
BooksAreCurrent ==
    actor.running /\ actor.replay.books # <<>> =>
        /\ \A t \in DOMAIN actor.replay.books : \E n \in DOMAIN CurrentEpoch :
               CurrentEpoch[n].event.kind = "book" /\ CurrentEpoch[n].event.token = t
        /\ actor.replay.status = "Synchronized" =>
               DOMAIN actor.replay.books = CurrentEpoch[1].event.tokens

\* OBR-005: a book the actor calls authoritative is not crossed
\* (apply_price_changes examines every book of the message).
AuthorityIsSound ==
    \A t \in DOMAIN actor.replay.books :
        actor.replay.books[t].authoritative => ~Crossed(actor.replay.books[t])

\* A checkpoint that replay accepts gives the state of the whole journal, also
\* when a power loss took records the checkpoint had seen and their numbers
\* were used again (replay_segmented_from_checkpoint).
CheckpointAgrees ==
    /\ checkpoint.kind = "sealed" /\ Replayable(journal)
    /\ CheckpointMatches(journal, checkpoint.state)
    => ReplayFromCheckpoint(journal, checkpoint.state) = [state |-> Replay(journal), ok |-> TRUE]

\* LMS-005, as far as the code keeps it: a snapshot that says READY for an event
\* older than the budget is replaced in time (the health tick of spawn_actor).
Overdue == published.mode = "Ready" /\ clock - published.lastReceived > StaleAfter
StaleIsNoticed == Overdue /\ actor.running ~> ~Overdue \/ ~actor.running

\* LMS-005, as written: READY requires a market event within the budget.  apply
\* takes the receive time of the event for now, however long it was queued.
ReadyIsFresh ==
    [][published' # published /\ published'.mode = "Ready"
       => clock - published'.lastReceived <= StaleAfter]_vars

-----------------------------------------------------------------------------
(***************************************************************************)
(* Proofs: the inductive invariant.                                        *)
(***************************************************************************)
IsSequence(s) == s \in Seq(ToSet(s))

\* The values of the fields: replay state, books, core of the actor.
IsBook(b) ==
    /\ b = [bids |-> b.bids, asks |-> b.asks, tick |-> b.tick, trade |-> b.trade,
            authoritative |-> b.authoritative]
    /\ b.authoritative \in BOOLEAN
IsBooks(books) ==
    /\ books = [t \in DOMAIN books |-> books[t]]
    /\ \A t \in DOMAIN books : IsBook(books[t])
Statuses == {"Inactive", "Collecting", "Synchronized", "Shutdown"}
IsReplay(s) ==
    /\ s = [epoch |-> s.epoch, status |-> s.status, last |-> s.last, books |-> s.books]
    /\ s.status \in Statuses /\ IsBooks(s.books)
Sound(s) == \A t \in DOMAIN s.books : s.books[t].authoritative => ~Crossed(s.books[t])
IsCore(core) ==
    /\ core = [running |-> core.running, mode |-> core.mode, replay |-> core.replay,
               lastReceived |-> core.lastReceived]
    /\ core.running \in BOOLEAN
    /\ IsReplay(core.replay)

IsEvent(v) ==
    /\ v.kind \in SystemKinds \cup MarketKinds
    /\ v.kind = "price_change" => IsSequence(v.changes)
IsEnvelope(e) == IsEvent(e.event) /\ e.sequence \in Nat

CaptureTypes ==
    /\ IsSequence(journal) /\ \A i \in 1..Len(journal) : IsEnvelope(journal[i])
    /\ IsSequence(channel) /\ \A i \in 1..Len(channel) : IsEnvelope(channel[i])
    /\ IsSequence(batch) /\ \A i \in 1..Len(batch) : IsEvent(batch[i])
    /\ sequence \in Nat /\ synced \in 0..Len(journal) /\ origin \in 0..Len(journal)
    /\ gateway \in {"down", "discovering", "capturing", "closing"}
    /\ IsCore(actor)

\* Outside a session nothing waits to be journaled, and a dead process has no actor.
SessionBound ==
    /\ gateway # "capturing" => batch = <<>>
    /\ gateway = "down" => ~actor.running /\ channel = <<>>

\* The actor took the records of its process up to the k-th of the journal; the channel has
\* those after it, but for the one whose sending was refused.
TookUpTo(k) ==
    /\ k \in origin..Len(journal)
    /\ \/ k + Len(channel) = Len(journal)
       \/ gateway = "closing" /\ k + Len(channel) + 1 = Len(journal)
    /\ \A i \in 1..Len(channel) : channel[i] = journal[k + i]
    /\ ReplayOn(EmptyReplay, SubSeq(journal, origin + 1, k)) = [state |-> actor.replay, ok |-> TRUE]

\* The n-th record began the epoch that the i-th is in; a token had its snapshot by then.
Begins(s, n, i) ==
    /\ n \in 1..i /\ s[n].event.kind = "start"
    /\ \A j \in n + 1..i : s[j].event.kind # "start"
HasBook(s, t, n, i) == \E j \in n + 1..i : s[j].event.kind = "book" /\ s[j].event.token = t

\* A record of an epoch is about its tokens, and the marker stands after the snapshots.
RecordsInEpochs ==
    \A i \in origin + 1..Len(journal) :
        journal[i].event.kind \in MarketKinds \cup {"synced"} =>
            \E n \in origin + 1..i :
                /\ Begins(journal, n, i)
                /\ journal[i].event.kind \in MarketKinds =>
                       EventTokens(journal[i].event) \subseteq journal[n].event.tokens
                /\ journal[i].event.kind = "synced" =>
                       \A t \in journal[n].event.tokens : HasBook(journal, t, n, i)

\* The session journaled the start of its epoch, unless it is about to, and the tokens it does
\* not wait for have their snapshots; what it has read is about its tokens.
SessionInEpoch ==
    gateway = "capturing" =>
        /\ pending \subseteq subscribed
        /\ \A i \in 1..Len(batch) :
               /\ batch[i].kind = "start" => i = 1 /\ batch[i].tokens = subscribed
                                            /\ pending = subscribed
               /\ batch[i].kind = "synced" => i = 1 /\ pending = {}
               /\ batch[i].kind \in MarketKinds => EventTokens(batch[i]) \subseteq subscribed
        /\ batch = <<>> \/ batch[1].kind # "start" =>
               \E n \in origin + 1..Len(journal) :
                   /\ Begins(journal, n, Len(journal)) /\ journal[n].event.tokens = subscribed
                   /\ \A t \in subscribed \ pending : HasBook(journal, t, n, Len(journal))

\* What the actor holds after the k-th record.
BooksOfEpoch(k) ==
    Active(actor.replay) \/ actor.replay.books # <<>> =>
        \E n \in origin + 1..k :
            /\ Begins(journal, n, k)
            /\ \A t \in DOMAIN actor.replay.books : HasBook(journal, t, n, k)
            /\ Active(actor.replay) =>
                   /\ DOMAIN actor.replay.books \subseteq journal[n].event.tokens
                   /\ \A t \in journal[n].event.tokens :
                          HasBook(journal, t, n, k) => t \in DOMAIN actor.replay.books
            /\ actor.replay.status = "Synchronized" =>
                   DOMAIN actor.replay.books = journal[n].event.tokens

CaptureInv ==
    /\ CaptureTypes /\ SessionBound /\ Sound(actor.replay)
    /\ gateway # "down" => RecordsInEpochs
    /\ SessionInEpoch
    /\ actor.running => \E k \in origin..Len(journal) : TookUpTo(k) /\ BooksOfEpoch(k)

-----------------------------------------------------------------------------
(***************************************************************************)
(* Proofs: sequences.                                                      *)
(***************************************************************************)
\* What a sequence is made of.
LEMMA SequenceElements ==
    ASSUME NEW s, IsSequence(s)
    PROVE  /\ Len(s) \in Nat /\ DOMAIN s = 1..Len(s)
           /\ \A i \in 1..Len(s) : s[i] \in ToSet(s)
           /\ s = <<>> <=> Len(s) = 0
  <1>1. Len(s) \in Nat /\ DOMAIN s = 1..Len(s)
    BY LenProperties DEF IsSequence
  <1>2. \A i \in 1..Len(s) : s[i] \in ToSet(s)
    BY <1>1 DEF ToSet
  <1>3. s = <<>> <=> Len(s) = 0
    BY EmptySeq DEF IsSequence
  <1> QED BY <1>1, <1>2, <1>3

\* A sequence over any set is one.
LEMMA SequenceOver ==
    ASSUME NEW S, NEW s \in Seq(S)
    PROVE  IsSequence(s)
  <1>1. DOMAIN s = 1..Len(s) /\ Len(s) \in Nat /\ s \in [1..Len(s) -> S]
    BY LenProperties
  <1>2. \A i \in 1..Len(s) : s[i] \in ToSet(s)
    BY <1>1 DEF ToSet
  <1>3. s \in [1..Len(s) -> ToSet(s)]
    BY <1>1, <1>2
  <1>4. s \in UNION {[1..n -> ToSet(s)] : n \in Nat}
    BY <1>1, <1>3
  <1> QED BY <1>4, SeqDef DEF IsSequence

\* Two sequences with the same elements are the same.
LEMMA SequencesSame ==
    ASSUME NEW s, NEW t, IsSequence(s), IsSequence(t), Len(s) = Len(t),
           \A i \in 1..Len(s) : s[i] = t[i]
    PROVE  s = t
  <1>1. DOMAIN s = 1..Len(s) /\ DOMAIN t = 1..Len(s)
    BY SequenceElements
  <1>2. s = [i \in DOMAIN s |-> s[i]] /\ t = [i \in DOMAIN t |-> t[i]]
    BY LenProperties DEF IsSequence
  <1> QED BY <1>1, <1>2

\* An element more at the end.
LEMMA AppendElements ==
    ASSUME NEW s, IsSequence(s), NEW x
    PROVE  /\ IsSequence(Append(s, x))
           /\ Len(Append(s, x)) = Len(s) + 1
           /\ Append(s, x)[Len(s) + 1] = x
           /\ \A i \in 1..Len(s) : Append(s, x)[i] = s[i]
  <1>1. s \in Seq(ToSet(s) \cup {x})
    BY DEF IsSequence
  <1>2. /\ Append(s, x) \in Seq(ToSet(s) \cup {x}) /\ Len(Append(s, x)) = Len(s) + 1
        /\ Append(s, x)[Len(s) + 1] = x
        /\ \A i \in 1..Len(s) : Append(s, x)[i] = s[i]
    BY <1>1, AppendProperties, LenProperties
  <1> QED BY <1>2, SequenceOver

\* The first element and the others.
LEMMA TailElements ==
    ASSUME NEW s, IsSequence(s), s # <<>>
    PROVE  /\ 1 \in 1..Len(s) /\ Head(s) = s[1]
           /\ IsSequence(Tail(s)) /\ Len(Tail(s)) = Len(s) - 1
           /\ \A i \in 1..Len(s) - 1 : Tail(s)[i] = s[i + 1]
  <1>1. s \in Seq(ToSet(s))
    BY DEF IsSequence
  <1>2. Tail(s) \in Seq(ToSet(s)) /\ Len(Tail(s)) = Len(s) - 1
        /\ \A i \in 1..Len(s) - 1 : Tail(s)[i] = s[i + 1]
    BY <1>1, HeadTailProperties
  <1>3. Len(s) \in Nat /\ Len(s) # 0
    BY SequenceElements
  <1>4. Head(s) = s[1]
    BY <1>1
  <1>5. 1 \in 1..Len(s)
    BY <1>3
  <1>6. IsSequence(Tail(s))
    BY <1>2, SequenceOver
  <1> QED BY <1>2, <1>4, <1>5, <1>6

\* A part of a sequence.
LEMMA PartElements ==
    ASSUME NEW s, IsSequence(s), NEW m \in Nat \ {0}, NEW n \in Int, n <= Len(s)
    PROVE  /\ IsSequence(SubSeq(s, m, n))
           /\ Len(SubSeq(s, m, n)) = IF m <= n THEN n - m + 1 ELSE 0
           /\ \A i \in 1..n - m + 1 : SubSeq(s, m, n)[i] = s[m + i - 1]
  <1>1. \A i \in m..n : i \in 1..Len(s)
    BY SequenceElements
  <1>2. \A i \in m..n : s[i] \in ToSet(s)
    BY <1>1, SequenceElements
  <1>3. /\ SubSeq(s, m, n) \in Seq(ToSet(s))
        /\ Len(SubSeq(s, m, n)) = IF m <= n THEN n - m + 1 ELSE 0
        /\ \A i \in 1..n - m + 1 : SubSeq(s, m, n)[i] = s[m + i - 1]
    BY <1>2, SubSeqProperties
  <1> QED BY <1>3, SequenceOver

\* The short sequences of the session.
LEMMA ShortSequences ==
    /\ IsSequence(<<>>) /\ Len(<<>>) = 0
    /\ \A x : IsSequence(<<x>>) /\ Len(<<x>>) = 1 /\ <<x>>[1] = x
    /\ \A x, y : IsSequence(<<x, y>>) /\ Len(<<x, y>>) = 2 /\ <<x, y>>[1] = x /\ <<x, y>>[2] = y
  <1>1. <<>> \in Seq({})
    OBVIOUS
  <1>2. ASSUME NEW x PROVE <<x>> \in Seq({x})
    OBVIOUS
  <1>3. ASSUME NEW x, NEW y PROVE <<x, y>> \in Seq({x, y})
    OBVIOUS
  <1> QED BY <1>1, <1>2, <1>3, SequenceOver

\* A part of a sequence is a shorter part and an element more.
LEMMA PartGrows ==
    ASSUME NEW s, IsSequence(s), NEW m \in Nat \ {0}, NEW n \in Nat, m <= n, n <= Len(s)
    PROVE  SubSeq(s, m, n) = Append(SubSeq(s, m, n - 1), s[n])
  <1> DEFINE a == SubSeq(s, m, n)
             b == SubSeq(s, m, n - 1)
  <1>1. /\ IsSequence(a) /\ Len(a) = n - m + 1
        /\ \A i \in 1..n - m + 1 : a[i] = s[m + i - 1]
    BY PartElements
  <1>2. Len(s) \in Nat /\ n - 1 \in Int /\ n - 1 <= Len(s)
    BY SequenceElements
  <1>3. /\ IsSequence(b) /\ Len(b) = IF m <= n - 1 THEN (n - 1) - m + 1 ELSE 0
        /\ \A i \in 1..(n - 1) - m + 1 : b[i] = s[m + i - 1]
    BY <1>2, PartElements
  <1>4. Len(b) = n - m
    BY <1>3
  <1> HIDE DEF a, b
  <1>5. /\ IsSequence(Append(b, s[n])) /\ Len(Append(b, s[n])) = Len(b) + 1
        /\ Append(b, s[n])[Len(b) + 1] = s[n]
        /\ \A i \in 1..Len(b) : Append(b, s[n])[i] = b[i]
    BY <1>3, AppendElements
  <1>6. \A i \in 1..Len(a) : a[i] = Append(b, s[n])[i]
    <2> SUFFICES ASSUME NEW i \in 1..Len(a) PROVE a[i] = Append(b, s[n])[i]
      OBVIOUS
    <2>1. CASE i = n - m + 1
      BY <1>1, <1>4, <1>5, <2>1
    <2>2. CASE i # n - m + 1
      <3>1. i \in 1..n - m /\ i \in 1..(n - 1) - m + 1
        BY <1>1, <2>2
      <3> QED BY <1>1, <1>3, <1>4, <1>5, <3>1
    <2> QED BY <2>1, <2>2
  <1>7. Len(a) = Len(Append(b, s[n]))
    BY <1>1, <1>4, <1>5
  <1>8. a = Append(b, s[n])
    BY <1>1, <1>5, <1>6, <1>7, SequencesSame
  <1> QED BY <1>8 DEF a, b

\* Every set of natural numbers has a smallest one.
LEMMA SmallestNumber ==
    ASSUME NEW T, T \subseteq Nat, T # {}
    PROVE  \E x \in T : \A y \in T : x <= y
  <1> DEFINE R == OpToRel(<, Nat)
  <1>1. IsWellFoundedOn(R, Nat)
    BY NatLessThanWellFounded
  <1>2. \A y \in Nat, x \in Nat : y < x => <<y, x>> \in R
    BY DEF OpToRel
  <1> HIDE DEF R
  <1>3. PICK x \in T : \A y \in T : ~ (<<y, x>> \in R)
    BY <1>1, WFMin
  <1>4. \A y \in T : ~ (y < x)
    BY <1>2, <1>3
  <1>5. \A y \in T : x <= y
    BY <1>4
  <1> QED BY <1>5

-----------------------------------------------------------------------------
(***************************************************************************)
(* Proofs: what a replay and the changes of one message compute.  Both are *)
(* recursive functions on the positions; an induction over them is an      *)
(* argument about the smallest position at which a claim fails.            *)
(***************************************************************************)
ReplayTable(g, start, s, n) ==
    g = [i \in 0..n |-> IF i = 0 THEN [state |-> start, ok |-> TRUE] ELSE ReplayStep(g[i - 1], s[i])]

\* Two tables of the same beginning agree on it.
LEMMA ReplayTablesAgree ==
    ASSUME NEW start, NEW s, NEW t, NEW g, NEW h, NEW n \in Nat, NEW m \in 0..n,
           ReplayTable(g, start, s, n), ReplayTable(h, start, t, m), \A i \in 1..m : s[i] = t[i]
    PROVE  g[m] = h[m]
  <1> DEFINE bad == {i \in 0..m : g[i] # h[i]}
  <1>1. CASE bad # {}
    <2>1. bad \subseteq Nat
      OBVIOUS
    <2> HIDE DEF bad
    <2>2. PICK i \in bad : \A j \in bad : i <= j
      BY <1>1, <2>1, SmallestNumber
    <2> USE DEF bad
    <2>3. i \in 0..m /\ i \in 0..n /\ g[i] # h[i]
      BY <2>2
    <2>4. i # 0
      BY <2>3 DEF ReplayTable
    <2>5. i - 1 \in 0..m /\ i - 1 \notin bad /\ i \in 1..m
      BY <2>2, <2>3, <2>4
    <2>6. g[i - 1] = h[i - 1] /\ s[i] = t[i]
      BY <2>5
    <2>7. g[i] = ReplayStep(g[i - 1], s[i]) /\ h[i] = ReplayStep(h[i - 1], t[i])
      BY <2>3, <2>4 DEF ReplayTable
    <2> QED BY <2>3, <2>6, <2>7
  <1>2. CASE bad = {}
    <2>1. m \in 0..m
      OBVIOUS
    <2> QED BY <1>2, <2>1
  <1> QED BY <1>1, <1>2

\* There is a table of every length.
LEMMA ReplayTablesExist ==
    ASSUME NEW start, NEW s, NEW n \in Nat
    PROVE  \E g : ReplayTable(g, start, s, n)
  <1> DEFINE bad == {m \in Nat : ~ \E g : ReplayTable(g, start, s, m)}
  <1> SUFFICES ASSUME bad # {} PROVE FALSE
    BY Zenon
  <1>1. bad \subseteq Nat
    OBVIOUS
  <1> HIDE DEF bad
  <1>2. PICK m \in bad : \A j \in bad : m <= j
    BY <1>1, SmallestNumber
  <1> USE DEF bad
  <1>3. m \in Nat /\ ~ \E g : ReplayTable(g, start, s, m)
    BY <1>2
  <1>4. m # 0
    <2> DEFINE g == [i \in 0..0 |-> [state |-> start, ok |-> TRUE]]
    <2>1. ReplayTable(g, start, s, 0)
      BY DEF ReplayTable
    <2> QED BY <1>3, <2>1
  <1>5. m - 1 \in Nat /\ m - 1 \notin bad
    BY <1>2, <1>3, <1>4
  <1>6. PICK g : ReplayTable(g, start, s, m - 1)
    BY <1>5
  <1> DEFINE h == [i \in 0..m |-> IF i < m THEN g[i] ELSE ReplayStep(g[i - 1], s[i])]
  <1>7. \A i \in 0..m : h[i] = IF i = 0 THEN [state |-> start, ok |-> TRUE] ELSE ReplayStep(h[i - 1], s[i])
    <2> SUFFICES ASSUME NEW i \in 0..m
                 PROVE  h[i] = IF i = 0 THEN [state |-> start, ok |-> TRUE] ELSE ReplayStep(h[i - 1], s[i])
      OBVIOUS
    <2>1. CASE i = 0
      <3>1. 0 \in 0..m - 1 /\ 0 < m
        BY <1>3, <1>4
      <3> QED BY <1>6, <2>1, <3>1 DEF ReplayTable
    <2>2. CASE i # 0
      <3>1. i - 1 \in 0..m - 1 /\ i - 1 \in 0..m /\ i - 1 < m
        BY <1>3, <2>2
      <3>2. h[i - 1] = g[i - 1]
        BY <3>1
      <3>3. CASE i < m
        <4>1. i \in 0..m - 1
          BY <1>3, <3>3
        <4>2. g[i] = ReplayStep(g[i - 1], s[i])
          BY <1>6, <2>2, <4>1 DEF ReplayTable
        <4> QED BY <2>2, <3>2, <3>3, <4>2
      <3>4. CASE i = m
        <4>1. ~ (i < m)
          BY <1>3, <3>4
        <4>2. h[i] = ReplayStep(g[i - 1], s[i])
          BY <4>1
        <4> QED BY <2>2, <3>2, <4>2
      <3> QED BY <1>3, <3>3, <3>4
    <2> QED BY <2>1, <2>2
  <1>8. ReplayTable(h, start, s, m)
    BY <1>7 DEF ReplayTable
  <1> QED BY <1>3, <1>8

\* What a replay gives is the last entry of a table.
LEMMA ReplayInTable ==
    ASSUME NEW start, NEW s, IsSequence(s)
    PROVE  \E g : ReplayTable(g, start, s, Len(s)) /\ ReplayOn(start, s) = g[Len(s)]
  <1> DEFINE g == CHOOSE g : ReplayTable(g, start, s, Len(s))
  <1>0. Len(s) \in Nat
    BY SequenceElements
  <1>1. ReplayTable(g, start, s, Len(s))
    BY <1>0, ReplayTablesExist
  <1>2. ReplayOn(start, s) = g[Len(s)]
    BY DEF ReplayOn, ReplayTable
  <1> QED BY <1>1, <1>2

\* Nothing replayed is the state itself.
LEMMA ReplayNone ==
    ASSUME NEW start
    PROVE  ReplayOn(start, <<>>) = [state |-> start, ok |-> TRUE]
  <1>1. IsSequence(<<>>) /\ Len(<<>>) = 0
    BY ShortSequences
  <1>2. PICK g : ReplayTable(g, start, <<>>, 0) /\ ReplayOn(start, <<>>) = g[0]
    BY <1>1, ReplayInTable
  <1> QED BY <1>2 DEF ReplayTable

\* One event more is one step more.
LEMMA ReplayOneMore ==
    ASSUME NEW start, NEW s, IsSequence(s), NEW x
    PROVE  ReplayOn(start, Append(s, x)) = ReplayStep(ReplayOn(start, s), x)
  <1> DEFINE n == Len(s)
             t == Append(s, x)
  <1>1. /\ n \in Nat /\ IsSequence(t) /\ Len(t) = n + 1 /\ t[n + 1] = x
        /\ \A i \in 1..n : t[i] = s[i]
    BY SequenceElements, AppendElements
  <1> HIDE DEF t
  <1>2. PICK g : ReplayTable(g, start, s, n) /\ ReplayOn(start, s) = g[n]
    BY <1>1, ReplayInTable
  <1>3. PICK h : ReplayTable(h, start, t, n + 1) /\ ReplayOn(start, t) = h[n + 1]
    BY <1>1, ReplayInTable
  <1>4. n \in 0..n + 1 /\ n + 1 \in Nat /\ n + 1 \in 0..n + 1 /\ n + 1 # 0 /\ (n + 1) - 1 = n
    BY <1>1
  <1>5. h[n] = g[n]
    <2> DEFINE k == n + 1
    <2>1. k \in Nat /\ n \in 0..k /\ ReplayTable(h, start, t, k) /\ ReplayTable(g, start, s, n)
      BY <1>2, <1>3, <1>4
    <2>2. \A i \in 1..n : t[i] = s[i]
      BY <1>1
    <2> HIDE DEF n, k
    <2> QED BY ONLY <2>1, <2>2, ReplayTablesAgree
  <1>6. h[n + 1] = ReplayStep(h[n], t[n + 1])
    BY <1>3, <1>4 DEF ReplayTable
  <1> QED BY <1>1, <1>2, <1>3, <1>5, <1>6 DEF t

LevelsTable(g, start, s, n) ==
    g = [i \in 0..n |-> IF i = 0 THEN start ELSE ChangeLevel(g[i - 1], s[i])]

\* Two tables of the same beginning agree on it.
LEMMA LevelsTablesAgree ==
    ASSUME NEW start, NEW s, NEW t, NEW g, NEW h, NEW n \in Nat, NEW m \in 0..n,
           LevelsTable(g, start, s, n), LevelsTable(h, start, t, m), \A i \in 1..m : s[i] = t[i]
    PROVE  g[m] = h[m]
  <1> DEFINE bad == {i \in 0..m : g[i] # h[i]}
  <1>1. CASE bad # {}
    <2>1. bad \subseteq Nat
      OBVIOUS
    <2> HIDE DEF bad
    <2>2. PICK i \in bad : \A j \in bad : i <= j
      BY <1>1, <2>1, SmallestNumber
    <2> USE DEF bad
    <2>3. i \in 0..m /\ i \in 0..n /\ g[i] # h[i]
      BY <2>2
    <2>4. i # 0
      BY <2>3 DEF LevelsTable
    <2>5. i - 1 \in 0..m /\ i - 1 \notin bad /\ i \in 1..m
      BY <2>2, <2>3, <2>4
    <2>6. g[i - 1] = h[i - 1] /\ s[i] = t[i]
      BY <2>5
    <2>7. g[i] = ChangeLevel(g[i - 1], s[i]) /\ h[i] = ChangeLevel(h[i - 1], t[i])
      BY <2>3, <2>4 DEF LevelsTable
    <2> QED BY <2>3, <2>6, <2>7
  <1>2. CASE bad = {}
    <2>1. m \in 0..m
      OBVIOUS
    <2> QED BY <1>2, <2>1
  <1> QED BY <1>1, <1>2

\* There is a table of every length.
LEMMA LevelsTablesExist ==
    ASSUME NEW start, NEW s, NEW n \in Nat
    PROVE  \E g : LevelsTable(g, start, s, n)
  <1> DEFINE bad == {m \in Nat : ~ \E g : LevelsTable(g, start, s, m)}
  <1> SUFFICES ASSUME bad # {} PROVE FALSE
    BY Zenon
  <1>1. bad \subseteq Nat
    OBVIOUS
  <1> HIDE DEF bad
  <1>2. PICK m \in bad : \A j \in bad : m <= j
    BY <1>1, SmallestNumber
  <1> USE DEF bad
  <1>3. m \in Nat /\ ~ \E g : LevelsTable(g, start, s, m)
    BY <1>2
  <1>4. m # 0
    <2> DEFINE g == [i \in 0..0 |-> start]
    <2>1. LevelsTable(g, start, s, 0)
      BY DEF LevelsTable
    <2> QED BY <1>3, <2>1
  <1>5. m - 1 \in Nat /\ m - 1 \notin bad
    BY <1>2, <1>3, <1>4
  <1>6. PICK g : LevelsTable(g, start, s, m - 1)
    BY <1>5
  <1> DEFINE h == [i \in 0..m |-> IF i < m THEN g[i] ELSE ChangeLevel(g[i - 1], s[i])]
  <1>7. \A i \in 0..m : h[i] = IF i = 0 THEN start ELSE ChangeLevel(h[i - 1], s[i])
    <2> SUFFICES ASSUME NEW i \in 0..m
                 PROVE  h[i] = IF i = 0 THEN start ELSE ChangeLevel(h[i - 1], s[i])
      OBVIOUS
    <2>1. CASE i = 0
      <3>1. 0 \in 0..m - 1 /\ 0 < m
        BY <1>3, <1>4
      <3> QED BY <1>6, <2>1, <3>1 DEF LevelsTable
    <2>2. CASE i # 0
      <3>1. i - 1 \in 0..m - 1 /\ i - 1 \in 0..m /\ i - 1 < m
        BY <1>3, <2>2
      <3>2. h[i - 1] = g[i - 1]
        BY <3>1
      <3>3. CASE i < m
        <4>1. i \in 0..m - 1
          BY <1>3, <3>3
        <4>2. g[i] = ChangeLevel(g[i - 1], s[i])
          BY <1>6, <2>2, <4>1 DEF LevelsTable
        <4> QED BY <2>2, <3>2, <3>3, <4>2
      <3>4. CASE i = m
        <4>1. ~ (i < m)
          BY <1>3, <3>4
        <4>2. h[i] = ChangeLevel(g[i - 1], s[i])
          BY <4>1
        <4> QED BY <2>2, <3>2, <4>2
      <3> QED BY <1>3, <3>3, <3>4
    <2> QED BY <2>1, <2>2
  <1>8. LevelsTable(h, start, s, m)
    BY <1>7 DEF LevelsTable
  <1> QED BY <1>3, <1>8

\* What the changes give is the last entry of a table.
LEMMA LevelsInTable ==
    ASSUME NEW start, NEW s, IsSequence(s)
    PROVE  \E g : LevelsTable(g, start, s, Len(s)) /\ ChangeLevels(start, s) = g[Len(s)]
  <1> DEFINE g == CHOOSE g : LevelsTable(g, start, s, Len(s))
  <1>0. Len(s) \in Nat
    BY SequenceElements
  <1>1. LevelsTable(g, start, s, Len(s))
    BY <1>0, LevelsTablesExist
  <1>2. ChangeLevels(start, s) = g[Len(s)]
    BY DEF ChangeLevels, LevelsTable
  <1> QED BY <1>1, <1>2

\* No change leaves the books as they are.
LEMMA LevelsNone ==
    ASSUME NEW start
    PROVE  ChangeLevels(start, <<>>) = start
  <1>1. IsSequence(<<>>) /\ Len(<<>>) = 0
    BY ShortSequences
  <1>2. PICK g : LevelsTable(g, start, <<>>, 0) /\ ChangeLevels(start, <<>>) = g[0]
    BY <1>1, LevelsInTable
  <1> QED BY <1>2 DEF LevelsTable

\* One change more is one step more.
LEMMA LevelsOneMore ==
    ASSUME NEW start, NEW s, IsSequence(s), NEW x
    PROVE  ChangeLevels(start, Append(s, x)) = ChangeLevel(ChangeLevels(start, s), x)
  <1> DEFINE n == Len(s)
             t == Append(s, x)
  <1>1. /\ n \in Nat /\ IsSequence(t) /\ Len(t) = n + 1 /\ t[n + 1] = x
        /\ \A i \in 1..n : t[i] = s[i]
    BY SequenceElements, AppendElements
  <1> HIDE DEF t
  <1>2. PICK g : LevelsTable(g, start, s, n) /\ ChangeLevels(start, s) = g[n]
    BY <1>1, LevelsInTable
  <1>3. PICK h : LevelsTable(h, start, t, n + 1) /\ ChangeLevels(start, t) = h[n + 1]
    BY <1>1, LevelsInTable
  <1>4. n \in 0..n + 1 /\ n + 1 \in Nat /\ n + 1 \in 0..n + 1 /\ n + 1 # 0 /\ (n + 1) - 1 = n
    BY <1>1
  <1>5. h[n] = g[n]
    <2> DEFINE k == n + 1
    <2>1. k \in Nat /\ n \in 0..k /\ LevelsTable(h, start, t, k) /\ LevelsTable(g, start, s, n)
      BY <1>2, <1>3, <1>4
    <2>2. \A i \in 1..n : t[i] = s[i]
      BY <1>1
    <2> HIDE DEF n, k
    <2> QED BY ONLY <2>1, <2>2, LevelsTablesAgree
  <1>6. h[n + 1] = ChangeLevel(h[n], t[n + 1])
    BY <1>3, <1>4 DEF LevelsTable
  <1> QED BY <1>1, <1>2, <1>3, <1>5, <1>6 DEF t

-----------------------------------------------------------------------------
(***************************************************************************)
(* Proofs: what one event makes of the replayed state.                     *)
(***************************************************************************)
\* One change keeps the books what they are and touches the book of its token only.
LEMMA ChangeLevelKeeps ==
    ASSUME NEW books, IsBooks(books), NEW c, c.token \in DOMAIN books
    PROVE  /\ IsBooks(ChangeLevel(books, c)) /\ DOMAIN ChangeLevel(books, c) = DOMAIN books
           /\ \A t \in DOMAIN books : t # c.token => ChangeLevel(books, c)[t] = books[t]
  <1> DEFINE b == books[c.token]
             new == ChangeLevel(books, c)[c.token]
  <1>1. IsBook(b)
    BY DEF IsBooks
  <1>2. /\ ChangeLevel(books, c) = [t \in DOMAIN books |-> ChangeLevel(books, c)[t]]
        /\ \A t \in DOMAIN books : t # c.token => ChangeLevel(books, c)[t] = books[t]
    BY DEF ChangeLevel, IsBooks
  <1>3. \/ new = b
        \/ \E side : new = [b EXCEPT !.bids = side]
        \/ \E side : new = [b EXCEPT !.asks = side]
    <2>1. CASE ~b.authoritative
      BY <2>1 DEF ChangeLevel
    <2>2. CASE b.authoritative /\ c.side = "Bid"
      <3>1. new = [b EXCEPT !.bids = SetLevel(b.bids, c.price, c.quantity)]
        BY <2>2 DEF ChangeLevel, IsBooks
      <3> QED BY <3>1
    <2>3. CASE b.authoritative /\ c.side # "Bid"
      <3>1. new = [b EXCEPT !.asks = SetLevel(b.asks, c.price, c.quantity)]
        BY <2>3 DEF ChangeLevel, IsBooks
      <3> QED BY <3>1
    <2> QED BY <2>1, <2>2, <2>3
  <1> HIDE DEF new
  <1>4. IsBook(new)
    BY <1>1, <1>3 DEF IsBook
  <1>5. \A t \in DOMAIN books : IsBook(ChangeLevel(books, c)[t])
    BY <1>2, <1>4 DEF IsBooks, new
  <1> QED BY <1>2, <1>5 DEF IsBooks

\* A message changes the books of its tokens only.
LEMMA ChangeLevelsKeep ==
    ASSUME NEW books, IsBooks(books), NEW changes, IsSequence(changes),
           \A i \in 1..Len(changes) : changes[i].token \in DOMAIN books
    PROVE  /\ IsBooks(ChangeLevels(books, changes))
           /\ DOMAIN ChangeLevels(books, changes) = DOMAIN books
           /\ \A t \in DOMAIN books :
                  (\A i \in 1..Len(changes) : changes[i].token # t)
                  => ChangeLevels(books, changes)[t] = books[t]
  <1> DEFINE part(k) == SubSeq(changes, 1, k)
             good(k) == /\ IsBooks(ChangeLevels(books, part(k)))
                        /\ DOMAIN ChangeLevels(books, part(k)) = DOMAIN books
                        /\ \A t \in DOMAIN books :
                               (\A i \in 1..Len(changes) : changes[i].token # t)
                               => ChangeLevels(books, part(k))[t] = books[t]
             bad == {k \in 0..Len(changes) : ~good(k)}
  <1>0. Len(changes) \in Nat
    BY SequenceElements
  <1>1. CASE bad # {}
    <2>1. bad \subseteq Nat
      OBVIOUS
    <2> HIDE DEF bad
    <2>2. PICK k \in bad : \A j \in bad : k <= j
      BY <1>1, <2>1, SmallestNumber
    <2> USE DEF bad
    <2>3. k \in 0..Len(changes) /\ ~good(k)
      BY <2>2
    <2>4. k # 0
      <3>1. part(0) = <<>>
        <4>1. IsSequence(part(0)) /\ Len(part(0)) = 0
          BY <1>0, PartElements
        <4> QED BY <4>1, SequenceElements
      <3>2. ChangeLevels(books, part(0)) = books
        BY <3>1, LevelsNone
      <3>3. good(0)
        BY <3>2
      <3> QED BY <2>3, <3>3
    <2>5. k - 1 \in 0..Len(changes) /\ k - 1 \notin bad /\ k \in 1..Len(changes)
      BY <1>0, <2>2, <2>3, <2>4
    <2>6. good(k - 1)
      BY <2>5
    <2>7. IsSequence(part(k - 1)) /\ part(k) = Append(part(k - 1), changes[k])
      <3>1. k - 1 \in Int /\ k - 1 <= Len(changes) /\ k \in Nat /\ 1 <= k /\ k <= Len(changes)
        BY <1>0, <2>5
      <3> QED BY <3>1, PartElements, PartGrows
    <2> DEFINE B == ChangeLevels(books, part(k - 1))
    <2> HIDE DEF part
    <2>8. ChangeLevels(books, part(k)) = ChangeLevel(B, changes[k])
      BY <2>7, LevelsOneMore
    <2> HIDE DEF B
    <2>9. IsBooks(B) /\ DOMAIN B = DOMAIN books /\ changes[k].token \in DOMAIN B
      BY <2>5, <2>6 DEF B
    <2>10. /\ IsBooks(ChangeLevel(B, changes[k])) /\ DOMAIN ChangeLevel(B, changes[k]) = DOMAIN B
           /\ \A t \in DOMAIN B : t # changes[k].token => ChangeLevel(B, changes[k])[t] = B[t]
      BY <2>9, ChangeLevelKeeps
    <2>11. \A t \in DOMAIN books : (\A i \in 1..Len(changes) : changes[i].token # t)
                                   => ChangeLevel(B, changes[k])[t] = books[t]
      BY <2>5, <2>6, <2>9, <2>10 DEF B
    <2>12. good(k)
      BY <2>8, <2>9, <2>10, <2>11
    <2> QED BY <2>3, <2>12
  <1>2. CASE bad = {}
    <2>1. good(Len(changes))
      BY <1>0, <1>2
    <2>2. part(Len(changes)) = changes
      <3>1. changes \in Seq(ToSet(changes))
        BY DEF IsSequence
      <3> QED BY <3>1, SubSeqFull
    <2> QED BY <2>1, <2>2
  <1> QED BY <1>1, <1>2

\* After a message no book of it that is trusted is crossed.
LEMMA PriceChangesSound ==
    ASSUME NEW s, IsReplay(s), Sound(s), NEW changes, IsSequence(changes),
           \A i \in 1..Len(changes) : changes[i].token \in DOMAIN s.books
    PROVE  LET books == ApplyPriceChanges(s.books, changes)
           IN  /\ IsBooks(books) /\ DOMAIN books = DOMAIN s.books
               /\ \A t \in DOMAIN books : books[t].authoritative => ~Crossed(books[t])
  <1> DEFINE B == ChangeLevels(s.books, changes)
             books == DistrustCrossed(B, changes)
  <1>1. /\ IsBooks(B) /\ DOMAIN B = DOMAIN s.books
        /\ \A t \in DOMAIN s.books :
               (\A i \in 1..Len(changes) : changes[i].token # t) => B[t] = s.books[t]
    BY ChangeLevelsKeep DEF IsReplay
  <1>2. DOMAIN changes = 1..Len(changes)
    BY SequenceElements
  <1> HIDE DEF B
  <1>3. books = [t \in DOMAIN B |-> books[t]] /\ DOMAIN books = DOMAIN B
    BY DEF DistrustCrossed
  <1>4. ASSUME NEW t \in DOMAIN B
        PROVE  IsBook(books[t]) /\ (books[t].authoritative => ~Crossed(books[t]))
    <2>1. IsBook(B[t])
      BY <1>1 DEF IsBooks
    <2>2. CASE \E i \in DOMAIN changes : changes[i].token = t
      <3> DEFINE a == B[t].authoritative /\ ~Crossed(B[t])
      <3>1. books[t] = [B[t] EXCEPT !.authoritative = a]
        BY <2>2 DEF DistrustCrossed
      <3>2. a \in BOOLEAN /\ (a => ~Crossed(B[t]))
        BY <2>1 DEF IsBook
      <3> HIDE DEF a, books
      <3>3. /\ IsBook(books[t]) /\ books[t].authoritative = a
            /\ books[t].bids = B[t].bids /\ books[t].asks = B[t].asks
        BY <2>1, <3>1, <3>2 DEF IsBook
      <3> QED BY <3>2, <3>3 DEF Crossed
    <2>3. CASE ~ \E i \in DOMAIN changes : changes[i].token = t
      <3>1. books[t] = B[t]
        BY <2>3 DEF DistrustCrossed
      <3>2. B[t] = s.books[t]
        BY <1>1, <1>2, <2>3
      <3> QED BY <1>1, <2>1, <3>1, <3>2 DEF Sound
    <2> QED BY <2>2, <2>3
  <1> HIDE DEF books
  <1>5. /\ IsBooks(books) /\ DOMAIN books = DOMAIN s.books
        /\ \A t \in DOMAIN books : books[t].authoritative => ~Crossed(books[t])
    BY <1>1, <1>3, <1>4 DEF IsBooks
  <1> QED BY <1>5 DEF books, B, ApplyPriceChanges

\* The fields of the state after each event, by its kind.
Follows(r, s, e) ==
    /\ IsReplay(r) /\ Sound(r) /\ r.last = e.sequence
    /\ e.event.kind = "start" => r.status = "Collecting" /\ r.books = <<>>
    /\ e.event.kind = "identity" => r.status = s.status /\ r.books = s.books
    /\ e.event.kind = "synced" =>
           s.status = "Collecting" /\ r.status = "Synchronized" /\ r.books = s.books
    /\ e.event.kind = "rediscover" => r.status = "Inactive" /\ r.books = <<>>
    /\ e.event.kind = "shutdown" => Active(s) /\ r.status = "Shutdown" /\ r.books = s.books
    /\ e.event.kind \in MarketKinds => Active(s) /\ r.status = s.status
    /\ e.event.kind = "book" => DOMAIN r.books = DOMAIN s.books \cup {e.event.token}
    /\ e.event.kind \in MarketKinds \ {"book"} => DOMAIN r.books = DOMAIN s.books

\* No books at all are sound.
LEMMA NoBooks == IsBooks(<<>>) /\ DOMAIN <<>> = {}
  <1>1. DOMAIN <<>> = {}
    OBVIOUS
  <1>2. <<>> = [t \in DOMAIN <<>> |-> <<>>[t]]
    OBVIOUS
  <1> QED BY <1>1, <1>2 DEF IsBooks

\* What a marker of an epoch makes of the state.
LEMMA SystemEventApplied ==
    ASSUME NEW s, IsReplay(s), Sound(s), NEW e, e.event.kind \in SystemKinds, CanApply(s, e)
    PROVE  Follows(Applied(s, e), s, e)
  <1> DEFINE r == ApplySystem(s, e.event)
  <1>1. CanApplySystem(s, e.event)
    BY DEF CanApply
  <1>2. Applied(s, e) = [r EXCEPT !.last = e.sequence]
    BY DEF Applied
  <1>3. /\ r = [epoch |-> r.epoch, status |-> r.status, last |-> r.last, books |-> r.books]
        /\ r.status \in Statuses /\ IsBooks(r.books)
        /\ r.books = s.books \/ r.books = <<>>
        /\ e.event.kind = "start" => r.status = "Collecting" /\ r.books = <<>>
        /\ e.event.kind = "identity" => r.status = s.status /\ r.books = s.books
        /\ e.event.kind = "synced" =>
               s.status = "Collecting" /\ r.status = "Synchronized" /\ r.books = s.books
        /\ e.event.kind = "rediscover" => r.status = "Inactive" /\ r.books = <<>>
        /\ e.event.kind = "shutdown" => Active(s) /\ r.status = "Shutdown" /\ r.books = s.books
    <2>1. CASE e.event.kind = "start"
      <3>1. r = [s EXCEPT !.epoch = s.epoch + 1, !.status = "Collecting", !.books = <<>>]
        BY <2>1 DEF ApplySystem, StartEpoch
      <3> HIDE DEF r
      <3>2. r.status = "Collecting" /\ r.books = <<>>
            /\ r = [epoch |-> r.epoch, status |-> r.status, last |-> r.last, books |-> r.books]
        BY <3>1 DEF IsReplay
      <3> QED BY <2>1, <3>2, NoBooks DEF Statuses
    <2>2. CASE e.event.kind = "identity"
      <3>1. r = s
        BY <2>2 DEF ApplySystem
      <3> HIDE DEF r
      <3> QED BY <2>2, <3>1 DEF IsReplay
    <2>3. CASE e.event.kind = "synced"
      <3>1. r = [s EXCEPT !.status = "Synchronized"] /\ s.status = "Collecting"
        BY <1>1, <2>3 DEF ApplySystem, CanApplySystem
      <3> HIDE DEF r
      <3>2. r.status = "Synchronized" /\ r.books = s.books
            /\ r = [epoch |-> r.epoch, status |-> r.status, last |-> r.last, books |-> r.books]
        BY <3>1 DEF IsReplay
      <3> QED BY <2>3, <3>1, <3>2 DEF Statuses, IsReplay
    <2>4. CASE e.event.kind = "rediscover"
      <3>1. r = [s EXCEPT !.status = "Inactive", !.books = <<>>]
        BY <2>4 DEF ApplySystem
      <3> HIDE DEF r
      <3>2. r.status = "Inactive" /\ r.books = <<>>
            /\ r = [epoch |-> r.epoch, status |-> r.status, last |-> r.last, books |-> r.books]
        BY <3>1 DEF IsReplay
      <3> QED BY <2>4, <3>2, NoBooks DEF Statuses
    <2>5. CASE e.event.kind = "shutdown"
      <3>1. r = [s EXCEPT !.status = "Shutdown"] /\ Active(s)
        BY <1>1, <2>5 DEF ApplySystem, CanApplySystem
      <3> HIDE DEF r
      <3>2. r.status = "Shutdown" /\ r.books = s.books
            /\ r = [epoch |-> r.epoch, status |-> r.status, last |-> r.last, books |-> r.books]
        BY <3>1 DEF IsReplay
      <3> QED BY <2>5, <3>1, <3>2 DEF Statuses, IsReplay
    <2> QED BY <2>1, <2>2, <2>3, <2>4, <2>5 DEF SystemKinds
  <1> HIDE DEF r
  <1> DEFINE a == Applied(s, e)
  <1>4. /\ a.last = e.sequence /\ a.status = r.status /\ a.books = r.books
        /\ a = [epoch |-> a.epoch, status |-> a.status, last |-> a.last, books |-> a.books]
    BY <1>2, <1>3
  <1> HIDE DEF a
  <1>5. IsReplay(a)
    BY <1>3, <1>4 DEF IsReplay
  <1>6. Sound(a)
    BY <1>3, <1>4, NoBooks DEF Sound
  <1>7. e.event.kind \notin MarketKinds
    BY DEF SystemKinds, MarketKinds
  <1> QED BY <1>3, <1>4, <1>5, <1>6, <1>7 DEF Follows, a, MarketKinds

\* A fresh snapshot is not crossed.
LEMMA SnapshotSound ==
    ASSUME NEW v, ValidSnapshot(v)
    PROVE  IsBook(Snapshot(v)) /\ ~Crossed(Snapshot(v))
  BY DEF ValidSnapshot, Snapshot, IsBook

\* What a market event may make of one book: what its levels are and what it is trusted for.
Touched(b, c) == /\ IsBook(b) /\ b.bids = c.bids /\ b.asks = c.asks
                 /\ b.authoritative => c.authoritative

\* A book that lost trust, or none of its levels, leaves the others as they were.
LEMMA BookTouched ==
    ASSUME NEW s, IsReplay(s), Sound(s), NEW books, NEW t \in DOMAIN s.books, NEW b,
           books = [s.books EXCEPT ![t] = b], Touched(b, s.books[t])
    PROVE  /\ IsBooks(books) /\ DOMAIN books = DOMAIN s.books
           /\ \A u \in DOMAIN books : books[u].authoritative => ~Crossed(books[u])
  <1>1. /\ s.books = [u \in DOMAIN s.books |-> s.books[u]]
        /\ \A u \in DOMAIN s.books : IsBook(s.books[u])
    BY DEF IsReplay, IsBooks
  <1>2. /\ books = [u \in DOMAIN books |-> books[u]] /\ DOMAIN books = DOMAIN s.books
        /\ books[t] = b /\ \A u \in DOMAIN books : u # t => books[u] = s.books[u]
    BY <1>1
  <1>3. b.authoritative => ~Crossed(b)
    BY DEF Touched, Crossed, Sound
  <1>4. \A u \in DOMAIN books : IsBook(books[u])
    BY <1>1, <1>2 DEF Touched
  <1>5. \A u \in DOMAIN books : books[u].authoritative => ~Crossed(books[u])
    BY <1>2, <1>3 DEF Sound
  <1> QED BY <1>2, <1>4, <1>5 DEF IsBooks

\* What an event of the venue makes of the state.
LEMMA MarketEventApplied ==
    ASSUME NEW s, IsReplay(s), Sound(s), NEW e, IsEnvelope(e), e.event.kind \in MarketKinds,
           CanApply(s, e)
    PROVE  Follows(Applied(s, e), s, e)
  <1> DEFINE v == e.event
             r == ApplyMarket(s, v)
  <1>1. v.kind \notin SystemKinds
    BY DEF SystemKinds, MarketKinds
  <1>2. CanApplyMarket(s, v) /\ Applied(s, e) = [r EXCEPT !.last = e.sequence]
    BY <1>1 DEF CanApply, Applied
  <1>3. /\ s.books = [u \in DOMAIN s.books |-> s.books[u]]
        /\ \A u \in DOMAIN s.books : IsBook(s.books[u])
    BY DEF IsReplay, IsBooks
  <1>4. v.kind # "book" => EventTokens(v) \subseteq DOMAIN s.books
    BY <1>2 DEF CanApplyMarket
  <1>5. /\ r = [s EXCEPT !.books = r.books]
        /\ IsBooks(r.books)
        /\ \A u \in DOMAIN r.books : r.books[u].authoritative => ~Crossed(r.books[u])
        /\ v.kind = "book" => DOMAIN r.books = DOMAIN s.books \cup {v.token}
        /\ v.kind # "book" => DOMAIN r.books = DOMAIN s.books
    <2>1. CASE v.kind = "book"
      <3> DEFINE books == Inserted(s.books, v.token, Snapshot(v))
      <3>1. r = [s EXCEPT !.books = books]
        BY <2>1 DEF ApplyMarket
      <3>2. IsBook(Snapshot(v)) /\ ~Crossed(Snapshot(v))
        BY <1>2, <2>1, SnapshotSound DEF CanApplyMarket
      <3>3. /\ books = [u \in DOMAIN books |-> books[u]]
            /\ DOMAIN books = DOMAIN s.books \cup {v.token}
            /\ books[v.token] = Snapshot(v)
            /\ \A u \in DOMAIN s.books : u # v.token => books[u] = s.books[u]
        BY DEF Inserted
      <3> HIDE DEF r, books
      <3>4. r.books = books
        BY <3>1 DEF IsReplay
      <3>5. \A u \in DOMAIN books : IsBook(books[u])
        BY <1>3, <3>2, <3>3
      <3>6. \A u \in DOMAIN books : books[u].authoritative => ~Crossed(books[u])
        BY <3>2, <3>3 DEF Sound
      <3> QED BY <2>1, <3>1, <3>3, <3>4, <3>5, <3>6 DEF IsBooks
    <2>2. CASE v.kind = "price_change"
      <3> DEFINE books == ApplyPriceChanges(s.books, v.changes)
      <3>1. r = [s EXCEPT !.books = books]
        BY <2>2 DEF ApplyMarket
      <3>2. IsSequence(v.changes)
        BY <2>2 DEF IsEnvelope, IsEvent
      <3>3. DOMAIN v.changes = 1..Len(v.changes)
        BY <3>2, SequenceElements
      <3>4. \A i \in 1..Len(v.changes) : v.changes[i].token \in DOMAIN s.books
        BY <1>4, <2>2, <3>3 DEF EventTokens
      <3>5. /\ IsBooks(books) /\ DOMAIN books = DOMAIN s.books
            /\ \A t \in DOMAIN books : books[t].authoritative => ~Crossed(books[t])
        BY <3>2, <3>4, PriceChangesSound
      <3> HIDE DEF r, books
      <3>6. r.books = books
        BY <3>1 DEF IsReplay
      <3> QED BY <2>2, <3>1, <3>5, <3>6
    <2>3. CASE v.kind \in {"tick_size_change", "last_trade_price", "best_bid_ask"}
      <3>1. v.token \in DOMAIN s.books
        BY <1>4, <2>3 DEF EventTokens
      <3> DEFINE c == s.books[v.token]
      <3>2. IsBook(c)
        BY <1>3, <3>1
      <3>3. PICK b : Touched(b, c) /\ r = [s EXCEPT !.books = [s.books EXCEPT ![v.token] = b]]
        <4>1. CASE v.kind = "tick_size_change"
          <5> DEFINE b == [c EXCEPT !.tick = v.tick]
          <5>1. r = [s EXCEPT !.books = [s.books EXCEPT ![v.token] = b]]
            BY <4>1 DEF ApplyMarket, ApplyTickSize, IsReplay
          <5>2. Touched(b, c)
            BY <3>2 DEF IsBook, Touched
          <5> QED BY <5>1, <5>2
        <4>2. CASE v.kind = "last_trade_price"
          <5> DEFINE b == [c EXCEPT !.trade = v.price]
          <5>1. r = [s EXCEPT !.books = [s.books EXCEPT ![v.token] = b]]
            BY <4>2 DEF ApplyMarket, ApplyLastTrade, IsReplay
          <5>2. Touched(b, c)
            BY <3>2 DEF IsBook, Touched
          <5> QED BY <5>1, <5>2
        <4>3. CASE v.kind = "best_bid_ask"
          <5> DEFINE a == c.authoritative /\ BestPricesAgree(c, v)
                     b == [c EXCEPT !.authoritative = a]
          <5>1. r = [s EXCEPT !.books = [s.books EXCEPT ![v.token] = b]]
            BY <4>3 DEF ApplyMarket, IsReplay
          <5>2. a \in BOOLEAN /\ (a => c.authoritative)
            BY <3>2 DEF IsBook
          <5> HIDE DEF a
          <5>3. b.authoritative = a /\ b.bids = c.bids /\ b.asks = c.asks
                /\ b = [bids |-> b.bids, asks |-> b.asks, tick |-> b.tick, trade |-> b.trade,
                        authoritative |-> b.authoritative]
            BY <3>2 DEF IsBook
          <5>4. Touched(b, c)
            BY <5>2, <5>3 DEF IsBook, Touched
          <5> QED BY <5>1, <5>4
        <4> QED BY <2>3, <4>1, <4>2, <4>3
      <3> DEFINE books == [s.books EXCEPT ![v.token] = b]
      <3>4. /\ IsBooks(books) /\ DOMAIN books = DOMAIN s.books
            /\ \A u \in DOMAIN books : books[u].authoritative => ~Crossed(books[u])
        BY <3>1, <3>3, BookTouched
      <3> HIDE DEF r, books
      <3>5. r = [s EXCEPT !.books = books]
        BY <3>3 DEF books
      <3>6. r.books = books
        BY <3>5 DEF IsReplay
      <3> QED BY <2>3, <3>4, <3>5, <3>6
    <2> QED BY <2>1, <2>2, <2>3 DEF MarketKinds
  <1> HIDE DEF r
  <1> DEFINE a == Applied(s, e)
  <1>6. /\ a.last = e.sequence /\ a.status = s.status /\ a.books = r.books
        /\ a = [epoch |-> a.epoch, status |-> a.status, last |-> a.last, books |-> a.books]
    <2>1. r = [epoch |-> s.epoch, status |-> s.status, last |-> s.last, books |-> r.books]
      BY <1>5 DEF IsReplay
    <2> QED BY <1>2, <2>1
  <1> HIDE DEF a
  <1>7. IsReplay(a) /\ Sound(a) /\ Active(s)
    BY <1>2, <1>5, <1>6 DEF IsReplay, Sound, CanApplyMarket
  <1>8. v.kind = "book" => DOMAIN a.books = DOMAIN s.books \cup {v.token}
    BY <1>5, <1>6
  <1>9. v.kind \in MarketKinds \ {"book"} => DOMAIN a.books = DOMAIN s.books
    BY <1>5, <1>6
  <1>10. /\ v.kind \notin {"start", "identity", "synced", "rediscover", "shutdown"}
         /\ a.last = e.sequence /\ a.status = s.status
    BY <1>1, <1>6 DEF SystemKinds
  <1> HIDE DEF v
  <1>11. /\ IsReplay(a) /\ Sound(a) /\ Active(s) /\ a.last = e.sequence /\ a.status = s.status
    BY <1>7, <1>10
  <1> QED BY <1>8, <1>9, <1>10, <1>11 DEF Follows, a, v

\* What any event makes of the state.
LEMMA EventApplied ==
    ASSUME NEW s, IsReplay(s), Sound(s), NEW e, IsEnvelope(e), CanApply(s, e)
    PROVE  Follows(Applied(s, e), s, e)
  BY SystemEventApplied, MarketEventApplied DEF IsEnvelope, IsEvent

\* What the actor makes of an event, by whether it halts on it.
LEMMA EventTaken ==
    ASSUME NEW core, IsCore(core), Sound(core.replay), NEW e, IsEnvelope(e)
    PROVE  LET c == CoreApply(core, e)
           IN  /\ IsCore(c) /\ Sound(c.replay)
               /\ c.mode # "Halted" => CanApply(core.replay, e)
                                       /\ c.replay = Applied(core.replay, e)
  <1> DEFINE fails == (e.event.kind \in MarketKinds /\ e.received < core.lastReceived)
                      \/ ~CanApply(core.replay, e)
             next == [core EXCEPT !.replay = Applied(@, e),
                                  !.lastReceived = IF e.event.kind \in MarketKinds
                                                   THEN e.received ELSE @]
  <1>1. CASE fails
    <2>1. CoreApply(core, e) = [core EXCEPT !.mode = "Halted"]
      BY <1>1 DEF CoreApply, Halted
    <2> QED BY <2>1 DEF IsCore
  <1>2. CASE ~fails
    <2>1. CoreApply(core, e) = Refreshed(next, e.received)
      BY <1>2 DEF CoreApply
    <2>2. Follows(Applied(core.replay, e), core.replay, e)
      BY <1>2, EventApplied DEF IsCore
    <2> DEFINE R == Applied(core.replay, e)
               l == IF e.event.kind \in MarketKinds THEN e.received ELSE core.lastReceived
    <2>3. IsCore(next) /\ next.replay = R
      <3>1. next = [core EXCEPT !.replay = R, !.lastReceived = l]
        OBVIOUS
      <3>2. IsReplay(R)
        BY <2>2 DEF Follows
      <3> HIDE DEF next, R, l
      <3> QED BY <3>1, <3>2 DEF IsCore
    <2> HIDE DEF next
    <2>4. IsCore(Refreshed(next, e.received)) /\ Refreshed(next, e.received).replay = next.replay
      BY <2>3 DEF Refreshed, Halted, IsCore, IsReplay, Statuses
    <2> QED BY <1>2, <2>1, <2>2, <2>3, <2>4 DEF Follows
  <1> QED BY <1>1, <1>2

-----------------------------------------------------------------------------
(***************************************************************************)
(* Proofs: the steps keep the types and the bounds of a session.           *)
(***************************************************************************)
CaptureBase == CaptureTypes /\ SessionBound /\ Sound(actor.replay)

\* The actor between two turns of its loop.
LEMMA TurnKeeps ==
    ASSUME NEW core, IsCore(core), Turn(core)
    PROVE  /\ IsCore(actor') /\ actor'.replay = core.replay
           /\ actor'.running <=> core.mode # "Halted"
  <1> DEFINE b == core.mode # "Halted"
  <1>1. actor' = [core EXCEPT !.running = b] /\ b \in BOOLEAN
    BY DEF Turn
  <1> HIDE DEF b
  <1>2. IsCore(actor') /\ actor'.replay = core.replay /\ actor'.running = b
    BY <1>1 DEF IsCore
  <1> QED BY <1>2 DEF b

\* The mode is not part of what was replayed.
LEMMA RefreshedKeeps ==
    ASSUME NEW core, IsCore(core), NEW now
    PROVE  IsCore(Refreshed(core, now)) /\ Refreshed(core, now).replay = core.replay
  BY DEF Refreshed, Halted, IsCore, IsReplay, Statuses

\* An actor whose task ended holds what it held.
LEMMA StoppedKeeps ==
    ASSUME NEW core, IsCore(core)
    PROVE  LET stopped == [core EXCEPT !.running = FALSE]
           IN  IsCore(stopped) /\ stopped.replay = core.replay /\ ~stopped.running
  <1>1. ASSUME NEW c, c = [core EXCEPT !.running = FALSE]
        PROVE  IsCore(c) /\ c.replay = core.replay /\ c.running = FALSE
    BY <1>1 DEF IsCore
  <1> QED BY <1>1

\* A new actor has applied nothing.
LEMMA NewActorIsEmpty ==
    LET stopped == [NewActor EXCEPT !.running = FALSE]
    IN  /\ IsCore(NewActor) /\ Sound(NewActor.replay) /\ NewActor.replay = EmptyReplay
        /\ NewActor.running
        /\ IsCore(stopped) /\ Sound(stopped.replay) /\ stopped.replay = EmptyReplay
        /\ ~stopped.running
  <1>1. IsReplay(EmptyReplay) /\ Sound(EmptyReplay)
    BY NoBooks DEF EmptyReplay, IsReplay, Statuses, Sound
  <1> HIDE DEF EmptyReplay
  <1>2. /\ NewActor.running = TRUE /\ NewActor.mode = "Starting" /\ NewActor.replay = EmptyReplay
        /\ NewActor.lastReceived = None
        /\ NewActor = [running |-> NewActor.running, mode |-> NewActor.mode,
                       replay |-> NewActor.replay, lastReceived |-> NewActor.lastReceived]
    BY DEF NewActor
  <1>3. IsCore(NewActor)
    BY <1>1, <1>2 DEF IsCore
  <1> QED BY <1>1, <1>2, <1>3, StoppedKeeps

\* What a turn of the actor changes.
ActorTurn ==
    /\ UNCHANGED <<journal, synced, gateway, sequence, subscribed, pending, batch, origin>>
    /\ actor.running
    /\ \/ /\ channel # <<>>
          /\ Turn(CoreApply(actor, Head(channel)))
          /\ channel' = IF actor'.running THEN Tail(channel) ELSE <<>>
       \/ /\ IsCore(actor') /\ actor'.replay = actor.replay
          /\ IF actor'.running THEN channel' = channel ELSE channel' \in {channel, <<>>}

\* What a step of a session changes that journals nothing.
SessionTurn ==
    /\ UNCHANGED <<journal, synced, channel, actor, origin>>
    /\ gateway \in {"discovering", "capturing"}
    /\ gateway' \in {"discovering", "capturing"}
    /\ sequence' \in {sequence, sequence + 1}
    /\ \/ gateway' = "discovering" /\ batch' = <<>>
       \/ /\ gateway' = "capturing" /\ subscribed' = pending'
          /\ batch' = <<System("start", subscribed'), System("identity", subscribed')>>
       \/ /\ gateway = "capturing" /\ gateway' = "capturing" /\ batch = <<>>
          /\ UNCHANGED <<subscribed, pending>>
          /\ \/ batch' \in Messages /\ \A i \in DOMAIN batch' : EventTokens(batch'[i]) \subseteq subscribed
             \/ \E kind \in {"rediscover", "shutdown"} : batch' = <<System(kind, subscribed)>>

\* What a step changes that journals the next event of the session.
Journaled(x) ==
    /\ batch # <<>> /\ x = Envelope(Head(batch))
    /\ journal' = Append(journal, x) /\ sequence' = sequence + 1
    /\ synced' \in {synced, Len(journal')}
    /\ UNCHANGED <<actor, origin>>
    /\ \/ actor.running /\ channel' = Append(channel, x)
       \/ channel' = channel /\ gateway' = "closing"
    /\ \/ gateway' \in {"discovering", "closing"} /\ batch' = <<>>
       \/ /\ Head(batch).kind \notin {"rediscover", "shutdown"}
          /\ AfterEvent(Head(batch))

\* What the end of a process changes.
ProcessEnds ==
    /\ ProcessGone
    /\ \E n \in synced..Len(journal) :
           \/ journal' = SubSeq(journal, 1, n) /\ synced' = n
           \/ UNCHANGED <<journal, synced>>

ProcessStarts ==
    /\ gateway = "down" /\ gateway' = "discovering"
    /\ sequence' = LastSequence + 1 /\ origin' = Len(journal) /\ actor' = NewActor
    /\ UNCHANGED <<journal, synced, subscribed, pending, batch, channel>>

Unmoved ==
    UNCHANGED <<journal, synced, gateway, sequence, subscribed, pending, batch, channel, actor,
                origin>>

\* Every step is one of these.
LEMMA CaptureSteps ==
    ASSUME CaptureBase, [Next]_vars
    PROVE  ActorTurn \/ SessionTurn \/ (\E x : Journaled(x)) \/ ProcessEnds \/ ProcessStarts \/ Unmoved
  <1> USE DEF fileVars, sessionVars
  <1>0. IsCore(actor)
    BY DEF CaptureBase, CaptureTypes
  <1>1. CASE UNCHANGED vars
    BY <1>1 DEF vars, Unmoved
  <1>2. CASE ActorTakesEvent
    BY <1>2 DEF ActorTakesEvent, ActorTurn
  <1>3. CASE HealthTick
    <2>1. IsCore(Refreshed(actor, clock)) /\ Refreshed(actor, clock).replay = actor.replay
      BY <1>0, RefreshedKeeps
    <2>2. IsCore(actor') /\ actor'.replay = actor.replay
      BY <1>3, <2>1, TurnKeeps DEF HealthTick
    <2> QED BY <1>3, <2>2 DEF HealthTick, ActorTurn
  <1>4. CASE ActorCloses
    <2>1. PICK core : /\ core = actor \/ core = [actor EXCEPT !.mode = "Closed"]
                      /\ actor' = [core EXCEPT !.running = FALSE]
      BY <1>4 DEF ActorCloses
    <2>2. IsCore(core) /\ core.replay = actor.replay
      BY <1>0, <2>1 DEF IsCore
    <2>3. IsCore(actor') /\ actor'.replay = core.replay /\ actor'.running = FALSE
      BY <2>1, <2>2 DEF IsCore
    <2> QED BY <1>4, <2>2, <2>3 DEF ActorCloses, ActorTurn
  <1>5. CASE Start
    BY <1>5 DEF Start, ProcessStarts
  <1>6. ASSUME NEW tokens \in Subscriptions, Connect(tokens) PROVE SessionTurn
    BY <1>6 DEF Connect, SessionTurn
  <1>7. ASSUME NEW m \in Messages, ReceiveMessage(m) PROVE SessionTurn
    BY <1>7 DEF ReceiveMessage, Idle, SessionTurn
  <1>8. CASE EpochFails
    BY <1>8 DEF EpochFails, Idle, SessionGone, SessionTurn
  <1>9. ASSUME NEW kind \in {"rediscover", "shutdown"}, EndEpoch(kind) PROVE SessionTurn
    BY <1>9 DEF EndEpoch, Idle, SessionTurn
  <1>10. CASE JournalNext
    <2>1. Journaled(Envelope(Head(batch)))
      <3>1. CASE Head(batch).kind \in {"rediscover", "shutdown"}
        BY <1>10, <3>1 DEF JournalNext, Deliver, AfterMarker, SessionGone, Journaled
      <3>2. CASE Head(batch).kind \notin {"rediscover", "shutdown"}
        BY <1>10, <3>2 DEF JournalNext, Deliver, Journaled
      <3> QED BY <3>1, <3>2
    <2> QED BY <2>1
  <1>11. CASE ChannelRefuses
    <2>1. Journaled(Envelope(Head(batch)))
      BY <1>11 DEF ChannelRefuses, SessionGone, Journaled
    <2> QED BY <2>1
  <1>12. CASE AppendFails
    BY <1>12 DEF AppendFails, SessionGone, SessionTurn, CaptureBase, SessionBound
  <1>13. CASE MarkerSyncFails
    <2>1. Journaled(Envelope(Head(batch)))
      BY <1>13 DEF MarkerSyncFails, SessionGone, Journaled
    <2> QED BY <2>1
  <1>14. CASE Exit
    <2>1. Len(journal) \in synced..Len(journal)
      BY SequenceElements DEF CaptureBase, CaptureTypes
    <2> QED BY <1>14, <2>1 DEF Exit, ProcessEnds
  <1>15. CASE Crash
    BY <1>15 DEF Crash, ProcessEnds
  <1>16. CASE SaveCheckpoint
    BY <1>16 DEF SaveCheckpoint, Unmoved
  <1>17. CASE ClockMoves
    BY <1>17 DEF ClockMoves, Unmoved
  <1> QED BY <1>1, <1>2, <1>3, <1>4, <1>5, <1>6, <1>7, <1>8, <1>9, <1>10, <1>11, <1>12, <1>13,
             <1>14, <1>15, <1>16, <1>17 DEF Next

\* The marks of a session are events.
LEMMA MarksAreEvents ==
    ASSUME NEW kind \in SystemKinds, NEW tokens
    PROVE  IsEvent(System(kind, tokens)) /\ System(kind, tokens).kind = kind
           /\ System(kind, tokens).tokens = tokens
  BY DEF System, IsEvent, SystemKinds

\* So is what the venue sends.
LEMMA MessagesAreEvents ==
    ASSUME NEW m \in Messages
    PROVE  IsSequence(m) /\ \A i \in 1..Len(m) : IsEvent(m[i]) /\ m[i].kind \in MarketKinds
  <1>1. IsSequence(m)
    BY MessagesAssumption DEF IsSequence
  <1>2. DOMAIN m = 1..Len(m)
    BY <1>1, SequenceElements
  <1> QED BY <1>1, <1>2, MessagesAssumption DEF IsEvent, IsSequence

\* What is journaled carries the event and the number of the gateway.
LEMMA EnvelopeCarries ==
    ASSUME NEW v
    PROVE  Envelope(v).event = v /\ Envelope(v).sequence = sequence
  BY DEF Envelope

\* A sequence of one or two marks.
LEMMA MarkBatches ==
    ASSUME NEW kind \in SystemKinds, NEW other \in SystemKinds, NEW tokens, NEW s,
           s \in {<<>>, <<System(kind, tokens)>>, <<System(kind, tokens), System(other, tokens)>>}
    PROVE  IsSequence(s) /\ \A i \in 1..Len(s) : IsEvent(s[i])
  <1>1. IsEvent(System(kind, tokens)) /\ IsEvent(System(other, tokens))
    BY MarksAreEvents
  <1>2. CASE s = <<>>
    BY <1>2, ShortSequences
  <1>3. CASE s = <<System(kind, tokens)>>
    <2>1. IsSequence(s) /\ Len(s) = 1 /\ s[1] = System(kind, tokens)
      BY <1>3, ShortSequences
    <2> QED BY <1>1, <2>1
  <1>4. CASE s = <<System(kind, tokens), System(other, tokens)>>
    <2>1. IsSequence(s) /\ Len(s) = 2 /\ s[1] = System(kind, tokens) /\ s[2] = System(other, tokens)
      BY <1>4, ShortSequences
    <2> QED BY <1>1, <2>1
  <1> QED BY <1>2, <1>3, <1>4

\* A turn of the actor keeps types, bounds and soundness.
LEMMA ActorTurnKeepsBase ==
    ASSUME CaptureBase, ActorTurn
    PROVE  CaptureBase'
  <1> USE DEF CaptureBase
  <1>0. /\ IsCore(actor) /\ IsSequence(channel) /\ \A i \in 1..Len(channel) : IsEnvelope(channel[i])
    BY DEF CaptureTypes
  <1>1. /\ IsCore(actor') /\ Sound(actor'.replay) /\ channel' \in {channel, Tail(channel), <<>>}
        /\ channel # <<>> \/ channel' \in {channel, <<>>}
    <2>1. CASE channel # <<>> /\ Turn(CoreApply(actor, Head(channel)))
               /\ channel' = IF actor'.running THEN Tail(channel) ELSE <<>>
      <3>1. IsEnvelope(Head(channel))
        BY <1>0, <2>1, TailElements
      <3>2. IsCore(CoreApply(actor, Head(channel))) /\ Sound(CoreApply(actor, Head(channel)).replay)
        BY <1>0, <3>1, EventTaken
      <3> QED BY <2>1, <3>2, TurnKeeps
    <2>2. CASE IsCore(actor') /\ actor'.replay = actor.replay /\ channel' \in {channel, <<>>}
      BY <2>2
    <2> QED BY <2>1, <2>2 DEF ActorTurn
  <1>2. IsSequence(channel') /\ \A i \in 1..Len(channel') : IsEnvelope(channel'[i])
    <2>1. CASE channel' = channel
      BY <1>0, <2>1
    <2>2. CASE channel' = <<>>
      BY <2>2, ShortSequences
    <2>3. CASE channel' = Tail(channel) /\ channel # <<>>
      <3>1. Len(channel) \in Nat
        BY <1>0, SequenceElements
      <3>2. /\ IsSequence(channel') /\ Len(channel') = Len(channel) - 1
            /\ \A i \in 1..Len(channel) - 1 : channel'[i] = channel[i + 1]
        BY <1>0, <2>3, TailElements
      <3>3. \A i \in 1..Len(channel) - 1 : i + 1 \in 1..Len(channel)
        BY <3>1
      <3> QED BY <1>0, <3>2, <3>3
    <2> QED BY <1>1, <2>1, <2>2, <2>3
  <1>3. CaptureTypes'
    BY <1>1, <1>2 DEF CaptureTypes, ActorTurn
  <1>4. SessionBound'
    BY DEF SessionBound, ActorTurn
  <1> QED BY <1>1, <1>3, <1>4

\* So does a step of the session that journals nothing.
LEMMA SessionTurnKeepsBase ==
    ASSUME CaptureBase, SessionTurn
    PROVE  CaptureBase'
  <1> USE DEF CaptureBase
  <1>1. IsSequence(batch') /\ \A i \in 1..Len(batch') : IsEvent(batch'[i])
    <2>1. CASE batch' \in Messages
      BY <2>1, MessagesAreEvents
    <2>2. CASE ~(batch' \in Messages)
      <3>1. \E kind \in SystemKinds, other \in SystemKinds : \E tokens :
               batch' \in {<<>>, <<System(kind, tokens)>>, <<System(kind, tokens), System(other, tokens)>>}
        BY <2>2 DEF SessionTurn, SystemKinds
      <3> QED BY <3>1, MarkBatches
    <2> QED BY <2>1, <2>2
  <1>2. CaptureTypes'
    BY <1>1 DEF CaptureTypes, SessionTurn
  <1>3. SessionBound'
    BY DEF SessionBound, SessionTurn
  <1>4. Sound(actor'.replay)
    BY DEF SessionTurn
  <1> QED BY <1>2, <1>3, <1>4

\* What is left of the batch is events.
LEMMA JournaledKeepsBatch ==
    ASSUME CaptureBase, NEW x, Journaled(x)
    PROVE  IsSequence(batch') /\ \A i \in 1..Len(batch') : IsEvent(batch'[i])
  <1>0. IsSequence(batch) /\ batch # <<>> /\ \A i \in 1..Len(batch) : IsEvent(batch[i])
    BY DEF CaptureBase, CaptureTypes, Journaled
  <1>1. CASE batch' = <<>> \/ batch' = <<System("synced", subscribed)>>
    <2>1. "synced" \in SystemKinds
      BY DEF SystemKinds
    <2> QED BY <1>1, <2>1, MarkBatches
  <1>2. CASE batch' = Tail(batch)
    <2>1. Len(batch) \in Nat
      BY <1>0, SequenceElements
    <2>2. /\ IsSequence(batch') /\ Len(batch') = Len(batch) - 1
          /\ \A i \in 1..Len(batch) - 1 : batch'[i] = batch[i + 1]
      BY <1>0, <1>2, TailElements
    <2>3. \A i \in 1..Len(batch) - 1 : i + 1 \in 1..Len(batch)
      BY <2>1
    <2> QED BY <1>0, <2>2, <2>3
  <1> QED BY <1>1, <1>2 DEF Journaled, AfterEvent

\* What is journaled is an envelope.
LEMMA JournaledIsEnvelope ==
    ASSUME CaptureBase, NEW x, Journaled(x)
    PROVE  /\ IsEnvelope(x) /\ x.event = Head(batch) /\ x.event = batch[1] /\ x.sequence = sequence
           /\ gateway = "capturing"
  <1>1. IsSequence(batch) /\ batch # <<>> /\ \A i \in 1..Len(batch) : IsEvent(batch[i])
    BY DEF CaptureBase, CaptureTypes, Journaled
  <1>2. IsEvent(Head(batch)) /\ Head(batch) = batch[1]
    BY <1>1, TailElements
  <1>3. x = Envelope(Head(batch)) /\ sequence \in Nat
    BY DEF CaptureBase, CaptureTypes, Journaled
  <1> QED BY <1>1, <1>2, <1>3, EnvelopeCarries DEF IsEnvelope, CaptureBase, SessionBound

\* So does the journaling of an event.
LEMMA JournaledKeepsBase ==
    ASSUME CaptureBase, NEW x, Journaled(x)
    PROVE  CaptureBase'
  <1>0. /\ IsSequence(journal) /\ \A i \in 1..Len(journal) : IsEnvelope(journal[i])
        /\ IsSequence(channel) /\ \A i \in 1..Len(channel) : IsEnvelope(channel[i])
        /\ sequence \in Nat /\ synced \in 0..Len(journal) /\ origin \in 0..Len(journal)
    BY DEF CaptureBase, CaptureTypes
  <1>1. IsEnvelope(x) /\ gateway = "capturing"
    BY JournaledIsEnvelope
  <1>2. Len(journal) \in Nat /\ Len(channel) \in Nat
    BY <1>0, SequenceElements
  <1>3. /\ IsSequence(journal') /\ Len(journal') = Len(journal) + 1
        /\ \A i \in 1..Len(journal') : IsEnvelope(journal'[i])
    <2>1. /\ IsSequence(journal') /\ Len(journal') = Len(journal) + 1
          /\ journal'[Len(journal) + 1] = x
          /\ \A i \in 1..Len(journal) : journal'[i] = journal[i]
      BY <1>0, AppendElements DEF Journaled
    <2>2. \A i \in 1..Len(journal) + 1 : i \in 1..Len(journal) \/ i = Len(journal) + 1
      BY <1>2
    <2> QED BY <1>0, <1>1, <2>1, <2>2
  <1>4. IsSequence(channel') /\ \A i \in 1..Len(channel') : IsEnvelope(channel'[i])
    <2>1. CASE channel' = channel
      BY <1>0, <2>1
    <2>2. CASE channel' = Append(channel, x)
      <3>1. /\ IsSequence(channel') /\ Len(channel') = Len(channel) + 1
            /\ channel'[Len(channel) + 1] = x
            /\ \A i \in 1..Len(channel) : channel'[i] = channel[i]
        BY <1>0, <2>2, AppendElements
      <3>2. \A i \in 1..Len(channel) + 1 : i \in 1..Len(channel) \/ i = Len(channel) + 1
        BY <1>2
      <3> QED BY <1>0, <1>1, <3>1, <3>2
    <2> QED BY <2>1, <2>2 DEF Journaled
  <1>5. IsSequence(batch') /\ \A i \in 1..Len(batch') : IsEvent(batch'[i])
    BY JournaledKeepsBatch
  <1>6. /\ sequence' \in Nat /\ synced' \in 0..Len(journal') /\ origin' \in 0..Len(journal')
    BY <1>0, <1>2, <1>3 DEF Journaled
  <1>7. /\ gateway' \in {"discovering", "capturing", "closing"}
        /\ gateway' # "capturing" => batch' = <<>>
    BY <1>1 DEF Journaled, AfterEvent
  <1>8. IsCore(actor') /\ Sound(actor'.replay)
    BY DEF Journaled, CaptureBase, CaptureTypes
  <1>9. CaptureTypes'
    BY <1>3, <1>4, <1>5, <1>6, <1>7, <1>8 DEF CaptureTypes
  <1>10. SessionBound'
    BY <1>7 DEF SessionBound
  <1> QED BY <1>8, <1>9, <1>10 DEF CaptureBase

\* So does the end of a process, by crash or exit.
LEMMA ProcessEndsKeepsBase ==
    ASSUME CaptureBase, ProcessEnds
    PROVE  CaptureBase' /\ ~actor'.running /\ gateway' = "down"
  <1>0. /\ IsSequence(journal) /\ \A i \in 1..Len(journal) : IsEnvelope(journal[i])
        /\ synced \in 0..Len(journal)
    BY DEF CaptureBase, CaptureTypes
  <1>1. Len(journal) \in Nat
    BY <1>0, SequenceElements
  <1>2. /\ IsSequence(journal') /\ \A i \in 1..Len(journal') : IsEnvelope(journal'[i])
        /\ Len(journal') \in Nat /\ synced' \in 0..Len(journal')
    <2>1. PICK n \in synced..Len(journal) :
             \/ journal' = SubSeq(journal, 1, n) /\ synced' = n
             \/ UNCHANGED <<journal, synced>>
      BY DEF ProcessEnds
    <2>2. CASE journal' = SubSeq(journal, 1, n) /\ synced' = n
      <3>1. n \in Nat /\ n <= Len(journal) /\ n \in Int
        BY <1>0, <1>1
      <3>2. /\ IsSequence(journal') /\ Len(journal') = IF 1 <= n THEN n - 1 + 1 ELSE 0
            /\ \A i \in 1..n - 1 + 1 : journal'[i] = journal[1 + i - 1]
        BY <1>0, <2>2, <3>1, PartElements
      <3>3. Len(journal') = n /\ \A i \in 1..n : i \in 1..Len(journal) /\ 1 + i - 1 = i
        BY <1>1, <3>1, <3>2
      <3>4. \A i \in 1..n : journal'[i] = journal[i]
        BY <3>1, <3>2, <3>3
      <3> QED BY <1>0, <2>2, <3>1, <3>2, <3>3, <3>4
    <2>3. CASE UNCHANGED <<journal, synced>>
      BY <1>0, <1>1, <2>3
    <2> QED BY <2>1, <2>2, <2>3
  <1>3. /\ gateway' = "down" /\ batch' = <<>> /\ channel' = <<>> /\ sequence' = 0 /\ origin' = 0
        /\ actor' = [NewActor EXCEPT !.running = FALSE]
    BY DEF ProcessEnds, ProcessGone, SessionGone
  <1>4. IsCore(actor') /\ Sound(actor'.replay) /\ ~actor'.running
    BY <1>3, NewActorIsEmpty
  <1>5. CaptureTypes'
    BY <1>2, <1>3, <1>4, ShortSequences DEF CaptureTypes
  <1>6. SessionBound'
    BY <1>3, <1>4 DEF SessionBound
  <1> QED BY <1>3, <1>4, <1>5, <1>6 DEF CaptureBase

\* So does the start of a process.
LEMMA ProcessStartsKeepsBase ==
    ASSUME CaptureBase, ProcessStarts
    PROVE  CaptureBase'
  <1>1. LastSequence + 1 \in Nat
    <2>1. CASE journal = <<>>
      BY <2>1 DEF LastSequence, None
    <2>2. CASE journal # <<>>
      <3>1. Len(journal) \in 1..Len(journal)
        BY <2>2, SequenceElements DEF CaptureBase, CaptureTypes
      <3>2. journal[Len(journal)].sequence \in Nat
        BY <3>1 DEF CaptureBase, CaptureTypes, IsEnvelope
      <3> QED BY <2>2, <3>2 DEF LastSequence
    <2> QED BY <2>1, <2>2
  <1>2. IsCore(actor') /\ Sound(actor'.replay)
    BY NewActorIsEmpty DEF ProcessStarts
  <1>3. Len(journal) \in Nat
    BY SequenceElements DEF CaptureBase, CaptureTypes
  <1>4. CaptureTypes'
    BY <1>1, <1>2, <1>3 DEF CaptureBase, CaptureTypes, ProcessStarts
  <1>5. SessionBound'
    BY DEF CaptureBase, SessionBound, ProcessStarts
  <1> QED BY <1>2, <1>4, <1>5 DEF CaptureBase

\* Types, bounds and the soundness of the books are kept by every step.
LEMMA BaseKept ==
    ASSUME CaptureBase, [Next]_vars
    PROVE  CaptureBase'
  <1>1. CASE Unmoved
    BY <1>1 DEF Unmoved, CaptureBase, CaptureTypes, SessionBound
  <1> QED BY <1>1, CaptureSteps, ActorTurnKeepsBase, SessionTurnKeepsBase, JournaledKeepsBase,
             ProcessEndsKeepsBase, ProcessStartsKeepsBase

\* They hold in the beginning.
LEMMA BaseAtStart ==
    ASSUME Init
    PROVE  CaptureBase
  <1>1. IsCore(actor) /\ Sound(actor.replay) /\ ~actor.running
    BY NewActorIsEmpty DEF Init
  <1>2. IsSequence(<<>>) /\ Len(<<>>) = 0
    BY ShortSequences
  <1> QED BY <1>1, <1>2 DEF Init, CaptureBase, CaptureTypes, SessionBound

-----------------------------------------------------------------------------
(***************************************************************************)
(* Proofs: the steps keep the records in their epochs, and what the actor  *)
(* holds a replay of what it took.                                         *)
(***************************************************************************)
\* Records that stay stay in their epochs.
LEMMA EpochsStand ==
    ASSUME NEW s, NEW r, NEW i \in Nat, \A j \in 1..i : r[j] = s[j], NEW n \in 1..i
    PROVE  /\ r[n] = s[n]
           /\ Begins(r, n, i) <=> Begins(s, n, i)
           /\ \A t : HasBook(r, t, n, i) <=> HasBook(s, t, n, i)
  <1>1. \A j \in n + 1..i : j \in 1..i
    OBVIOUS
  <1>2. r[n] = s[n] /\ \A j \in n + 1..i : r[j] = s[j]
    BY <1>1
  <1>3. Begins(r, n, i) <=> Begins(s, n, i)
    BY <1>2 DEF Begins
  <1>4. \A t : HasBook(r, t, n, i) <=> HasBook(s, t, n, i)
    BY <1>2 DEF HasBook
  <1> QED BY <1>2, <1>3, <1>4

\* A record more that begins no epoch is in the one before it.
LEMMA EpochGoesOn ==
    ASSUME NEW s, NEW i \in Nat, NEW n \in 1..i, Begins(s, n, i), s[i + 1].event.kind # "start"
    PROVE  /\ Begins(s, n, i + 1)
           /\ \A t : HasBook(s, t, n, i + 1) <=>
                  \/ HasBook(s, t, n, i)
                  \/ s[i + 1].event.kind = "book" /\ s[i + 1].event.token = t
  <1>1. \A j : j \in n + 1..i + 1 <=> j \in n + 1..i \/ j = i + 1
    OBVIOUS
  <1>2. Begins(s, n, i + 1)
    BY <1>1 DEF Begins
  <1>3. \A t : HasBook(s, t, n, i + 1) <=>
                  \/ HasBook(s, t, n, i)
                  \/ s[i + 1].event.kind = "book" /\ s[i + 1].event.token = t
    BY <1>1 DEF HasBook
  <1> QED BY <1>2, <1>3

\* The record that begins an epoch is the first of it.
LEMMA EpochOpens ==
    ASSUME NEW s, NEW i \in Nat \ {0}, s[i].event.kind = "start"
    PROVE  Begins(s, i, i) /\ \A t : ~HasBook(s, t, i, i)
  BY DEF Begins, HasBook

\* One record began the epoch.
LEMMA EpochBeganOnce ==
    ASSUME NEW s, NEW i \in Nat, NEW n, NEW m, Begins(s, n, i), Begins(s, m, i)
    PROVE  n = m
  <1>1. n \in 1..i /\ m \in 1..i
    BY DEF Begins
  <1>2. CASE n < m
    <2>1. m \in n + 1..i
      BY <1>1, <1>2
    <2> QED BY <2>1 DEF Begins
  <1>3. CASE m < n
    <2>1. n \in m + 1..i
      BY <1>1, <1>3
    <2> QED BY <2>1 DEF Begins
  <1> QED BY <1>1, <1>2, <1>3

\* A part that stays is replayed as before.
LEMMA PartStands ==
    ASSUME NEW s, IsSequence(s), NEW t, IsSequence(t), NEW m \in Nat \ {0}, NEW n \in Nat,
           n <= Len(s), n <= Len(t), \A j \in 1..n : s[j] = t[j]
    PROVE  SubSeq(s, m, n) = SubSeq(t, m, n)
  <1> DEFINE a == SubSeq(s, m, n)
             b == SubSeq(t, m, n)
  <1>1. /\ IsSequence(a) /\ Len(a) = IF m <= n THEN n - m + 1 ELSE 0
        /\ \A i \in 1..n - m + 1 : a[i] = s[m + i - 1]
    BY PartElements
  <1>2. /\ IsSequence(b) /\ Len(b) = IF m <= n THEN n - m + 1 ELSE 0
        /\ \A i \in 1..n - m + 1 : b[i] = t[m + i - 1]
    BY PartElements
  <1> HIDE DEF a, b
  <1>3. \A i \in 1..Len(a) : i \in 1..n - m + 1 /\ m + i - 1 \in 1..n
    BY <1>1
  <1>4. Len(a) = Len(b) /\ \A i \in 1..Len(a) : a[i] = b[i]
    BY <1>1, <1>2, <1>3
  <1>5. a = b
    BY <1>1, <1>2, <1>4, SequencesSame
  <1> QED BY <1>5 DEF a, b

\* The types, as the steps use them.
LEMMA BaseTypes ==
    ASSUME CaptureBase
    PROVE  /\ IsSequence(journal) /\ IsSequence(channel) /\ IsSequence(batch)
           /\ Len(journal) \in Nat /\ Len(channel) \in Nat /\ Len(batch) \in Nat
           /\ origin \in Nat /\ origin <= Len(journal)
           /\ \A i \in 1..Len(journal) : IsEnvelope(journal[i])
           /\ IsCore(actor) /\ IsReplay(actor.replay) /\ Sound(actor.replay)
           /\ gateway # "capturing" => batch = <<>>
           /\ gateway = "down" => ~actor.running /\ channel = <<>>
  <1>1. IsSequence(journal) /\ IsSequence(channel) /\ IsSequence(batch) /\ origin \in 0..Len(journal)
    BY DEF CaptureBase, CaptureTypes
  <1>2. Len(journal) \in Nat /\ Len(channel) \in Nat /\ Len(batch) \in Nat
    BY <1>1, SequenceElements
  <1> QED BY <1>1, <1>2 DEF CaptureBase, CaptureTypes, SessionBound, IsCore

\* What a journaled event leaves behind.
LEMMA JournaledAppends ==
    ASSUME CaptureBase, NEW x, Journaled(x)
    PROVE  /\ Len(journal') = Len(journal) + 1 /\ journal'[Len(journal) + 1] = x
           /\ \A i \in 1..Len(journal) : journal'[i] = journal[i]
           /\ IsSequence(journal') /\ origin' = origin
  BY BaseTypes, AppendElements DEF Journaled

\* The new record is in the epoch of its session.
LEMMA JournaledKeepsEpochs ==
    ASSUME CaptureBase, RecordsInEpochs, SessionInEpoch, NEW x, Journaled(x)
    PROVE  RecordsInEpochs'
  <1>0. PICK N \in Nat : N = Len(journal)
    BY BaseTypes
  <1>1. /\ Len(journal') = N + 1 /\ journal'[N + 1] = x /\ origin \in Nat /\ origin <= N
        /\ \A i \in 1..N : journal'[i] = journal[i]
        /\ origin' = origin
    BY <1>0, BaseTypes, JournaledAppends
  <1>2. x.event = batch[1] /\ gateway = "capturing" /\ batch # <<>> /\ 1 \in 1..Len(batch)
    BY JournaledIsEnvelope, BaseTypes, TailElements DEF Journaled
  <1> SUFFICES ASSUME NEW i \in origin + 1..N + 1,
                      journal'[i].event.kind \in MarketKinds \cup {"synced"}
               PROVE  \E n \in origin + 1..i :
                        /\ Begins(journal', n, i)
                        /\ journal'[i].event.kind \in MarketKinds =>
                               EventTokens(journal'[i].event) \subseteq journal'[n].event.tokens
                        /\ journal'[i].event.kind = "synced" =>
                               \A t \in journal'[n].event.tokens : HasBook(journal', t, n, i)
    BY <1>1 DEF RecordsInEpochs
  <1>4. CASE i \in origin + 1..N
    <2>1. i \in Nat /\ i \in 1..N /\ \A j \in 1..i : journal'[j] = journal[j]
      BY <1>1, <1>4
    <2>2. journal'[i] = journal[i]
      BY <1>1, <2>1
    <2>3. PICK n \in origin + 1..i :
                /\ Begins(journal, n, i)
                /\ journal[i].event.kind \in MarketKinds =>
                       EventTokens(journal[i].event) \subseteq journal[n].event.tokens
                /\ journal[i].event.kind = "synced" =>
                       \A t \in journal[n].event.tokens : HasBook(journal, t, n, i)
      BY <1>0, <1>4, <2>2 DEF RecordsInEpochs
    <2>4. n \in 1..i
      BY <1>1, <1>4
    <2>5. /\ journal'[n] = journal[n] /\ Begins(journal', n, i)
          /\ \A t : HasBook(journal', t, n, i) <=> HasBook(journal, t, n, i)
      BY <2>1, <2>3, <2>4, EpochsStand
    <2> QED BY <2>2, <2>3, <2>5
  <1>5. CASE i = N + 1
    <2>1. journal'[i].event = batch[1] /\ batch[1].kind \in MarketKinds \cup {"synced"}
      BY <1>1, <1>2, <1>5
    <2>2. batch[1].kind # "start"
      BY <2>1 DEF MarketKinds
    <2>3. PICK n \in origin + 1..N :
                   /\ Begins(journal, n, N) /\ journal[n].event.tokens = subscribed
                   /\ \A t \in subscribed \ pending : HasBook(journal, t, n, N)
      BY <1>0, <1>2, <2>2 DEF SessionInEpoch
    <2>4. n \in 1..N
      BY <1>1
    <2>5. /\ journal'[n] = journal[n] /\ Begins(journal', n, N)
          /\ \A t : HasBook(journal', t, n, N) <=> HasBook(journal, t, n, N)
      BY <1>1, <2>3, <2>4, EpochsStand
    <2>6. journal'[N + 1].event.kind # "start"
      BY <1>1, <1>5, <2>1, <2>2
    <2>7. /\ Begins(journal', n, N + 1)
          /\ \A t : HasBook(journal', t, n, N) => HasBook(journal', t, n, N + 1)
      BY <2>4, <2>5, <2>6, EpochGoesOn
    <2>8. batch[1].kind \in MarketKinds => EventTokens(batch[1]) \subseteq subscribed
      BY <1>2 DEF SessionInEpoch
    <2>9. batch[1].kind = "synced" => pending = {}
      BY <1>2 DEF SessionInEpoch
    <2>10. n \in origin + 1..i
      BY <1>1, <1>5, <2>3
    <2> QED BY <1>5, <2>1, <2>3, <2>5, <2>7, <2>8, <2>9, <2>10
  <1> QED BY <1>1, <1>4, <1>5

\* The session goes on in the epoch it journaled the start of.
LEMMA JournaledKeepsSession ==
    ASSUME CaptureBase, SessionInEpoch, NEW x, Journaled(x)
    PROVE  SessionInEpoch'
  <1>0. PICK N \in Nat : N = Len(journal)
    BY BaseTypes
  <1>1. /\ Len(journal') = N + 1 /\ journal'[N + 1] = x /\ origin \in Nat /\ origin <= N
        /\ \A i \in 1..N : journal'[i] = journal[i]
        /\ origin' = origin
    BY <1>0, BaseTypes, JournaledAppends
  <1>2. /\ x.event = batch[1] /\ gateway = "capturing" /\ batch # <<>> /\ 1 \in 1..Len(batch)
        /\ Head(batch) = batch[1]
    BY JournaledIsEnvelope, BaseTypes, TailElements DEF Journaled
  <1> SUFFICES ASSUME gateway' = "capturing" PROVE SessionInEpoch'
    BY DEF SessionInEpoch
  <1>3. AfterEvent(batch[1])
    BY <1>2 DEF Journaled
  <1>4. pending \subseteq subscribed /\ subscribed' = subscribed /\ pending' = Without(batch[1])
    BY <1>2, <1>3 DEF SessionInEpoch, AfterEvent
  <1>5. pending' \subseteq pending
    BY <1>4 DEF Without
  <1>6. \A i \in 1..Len(batch) :
               /\ batch[i].kind = "start" => i = 1 /\ batch[i].tokens = subscribed
                                            /\ pending = subscribed
               /\ batch[i].kind = "synced" => i = 1 /\ pending = {}
               /\ batch[i].kind \in MarketKinds => EventTokens(batch[i]) \subseteq subscribed
    BY <1>2 DEF SessionInEpoch
  <1>7. \A i \in 1..Len(batch') :
               /\ batch'[i].kind # "start"
               /\ batch'[i].kind = "synced" => i = 1 /\ pending' = {}
               /\ batch'[i].kind \in MarketKinds => EventTokens(batch'[i]) \subseteq subscribed
    <2>1. CASE batch' = Tail(batch)
      <3>1. Len(batch) \in Nat
        BY BaseTypes
      <3>2. Len(batch') = Len(batch) - 1 /\ \A i \in 1..Len(batch) - 1 : batch'[i] = batch[i + 1]
        BY <1>2, <2>1, BaseTypes, TailElements
      <3>3. ASSUME NEW i \in 1..Len(batch')
            PROVE  i + 1 \in 1..Len(batch) /\ i + 1 # 1 /\ batch'[i] = batch[i + 1]
        BY <3>1, <3>2
      <3>4. ASSUME NEW i \in 1..Len(batch')
            PROVE  /\ batch'[i].kind \notin {"start", "synced"}
                   /\ batch'[i].kind \in MarketKinds => EventTokens(batch'[i]) \subseteq subscribed
        BY <1>6, <3>3
      <3> QED BY <3>4
    <2>2. CASE batch' # Tail(batch)
      <3>1. batch' = <<System("synced", subscribed)>> /\ pending' = {}
        BY <1>3, <2>2 DEF AfterEvent, SnapshotsComplete
      <3>2. System("synced", subscribed).kind = "synced"
        BY DEF System
      <3>3. Len(batch') = 1 /\ batch'[1].kind = "synced"
        BY <3>1, <3>2, ShortSequences
      <3>4. \A i \in 1..1 : i = 1
        OBVIOUS
      <3> QED BY <3>1, <3>3, <3>4 DEF MarketKinds
    <2> QED BY <2>1, <2>2
  <1>8. \E n \in origin + 1..N + 1 :
           /\ Begins(journal', n, N + 1) /\ journal'[n].event.tokens = subscribed
           /\ \A t \in subscribed \ pending' : HasBook(journal', t, n, N + 1)
    <2>1. CASE batch[1].kind = "start"
      <3>1. Begins(journal', N + 1, N + 1) /\ N + 1 \in origin + 1..N + 1
        BY <1>1, <1>2, <2>1, EpochOpens
      <3>2. pending' = subscribed /\ journal'[N + 1].event.tokens = subscribed
        BY <1>1, <1>2, <1>4, <1>6, <2>1 DEF Without
      <3> QED BY <3>1, <3>2
    <2>2. CASE batch[1].kind # "start"
      <3>1. PICK n \in origin + 1..N :
                   /\ Begins(journal, n, N) /\ journal[n].event.tokens = subscribed
                   /\ \A t \in subscribed \ pending : HasBook(journal, t, n, N)
        BY <1>0, <1>2, <2>2 DEF SessionInEpoch
      <3>2. n \in 1..N /\ n \in origin + 1..N + 1
        BY <1>1
      <3>3. /\ journal'[n] = journal[n] /\ Begins(journal', n, N)
            /\ \A t : HasBook(journal', t, n, N) <=> HasBook(journal, t, n, N)
        BY <1>1, <3>1, <3>2, EpochsStand
      <3>4. journal'[N + 1].event = batch[1]
        BY <1>1, <1>2
      <3>5. /\ Begins(journal', n, N + 1)
            /\ \A t : HasBook(journal', t, n, N + 1) <=>
                  \/ HasBook(journal', t, n, N)
                  \/ batch[1].kind = "book" /\ batch[1].token = t
        <4>1. journal'[N + 1].event.kind # "start"
          BY <2>2, <3>4
        <4>2. /\ Begins(journal', n, N + 1)
              /\ \A t : HasBook(journal', t, n, N + 1) <=>
                    \/ HasBook(journal', t, n, N)
                    \/ journal'[N + 1].event.kind = "book" /\ journal'[N + 1].event.token = t
          BY <3>2, <3>3, <4>1, EpochGoesOn
        <4> QED BY <3>4, <4>2
      <3>6. \A t \in subscribed \ pending' :
               t \in subscribed \ pending \/ (batch[1].kind = "book" /\ batch[1].token = t)
        BY <1>4 DEF Without
      <3>7. \A t \in subscribed \ pending' : HasBook(journal', t, n, N + 1)
        BY <3>1, <3>3, <3>5, <3>6
      <3> QED BY <3>1, <3>2, <3>3, <3>5, <3>7
    <2> QED BY <2>1, <2>2
  <1>9. pending' \subseteq subscribed
    BY <1>4, <1>5
  <1> QED BY <1>1, <1>4, <1>7, <1>8, <1>9 DEF SessionInEpoch

\* What is journaled goes to the end of the channel, or the process is closing.
LEMMA JournaledKeepsFlow ==
    ASSUME CaptureBase, NEW k, TookUpTo(k), BooksOfEpoch(k), NEW x, Journaled(x)
    PROVE  k \in (origin..Len(journal))' /\ TookUpTo(k)' /\ BooksOfEpoch(k)'
  <1>0. PICK N \in Nat : N = Len(journal)
    BY BaseTypes
  <1>1. /\ Len(journal') = N + 1 /\ journal'[N + 1] = x /\ origin \in Nat /\ origin <= N
        /\ \A i \in 1..N : journal'[i] = journal[i]
        /\ origin' = origin /\ IsSequence(journal')
    BY <1>0, BaseTypes, JournaledAppends
  <1>2. gateway = "capturing"
    BY JournaledIsEnvelope
  <1>3. /\ k \in origin..N /\ k \in Nat /\ k + Len(channel) = N /\ Len(channel) \in Nat
        /\ \A i \in 1..Len(channel) : channel[i] = journal[k + i]
    BY <1>0, <1>1, <1>2, BaseTypes DEF TookUpTo
  <1>4. actor' = actor /\ k \in origin..N + 1
    BY <1>1, <1>3 DEF Journaled
  <1>5. /\ \/ k + Len(channel') = N + 1
           \/ gateway' = "closing" /\ k + Len(channel') + 1 = N + 1
        /\ \A i \in 1..Len(channel') : channel'[i] = journal'[k + i]
    <2>1. \A i \in 1..Len(channel) : k + i \in 1..N
      BY <1>3
    <2>2. \A i \in 1..Len(channel) : channel[i] = journal'[k + i]
      BY <1>1, <1>3, <2>1
    <2>3. CASE channel' = Append(channel, x)
      <3>1. /\ Len(channel') = Len(channel) + 1 /\ channel'[Len(channel) + 1] = x
            /\ \A i \in 1..Len(channel) : channel'[i] = channel[i]
        BY <2>3, BaseTypes, AppendElements
      <3>2. k + (Len(channel) + 1) = N + 1
        BY <1>3
      <3>3. \A i \in 1..Len(channel) + 1 : i \in 1..Len(channel) \/ i = Len(channel) + 1
        BY <1>3
      <3> QED BY <1>1, <2>2, <3>1, <3>2, <3>3
    <2>4. CASE channel' = channel /\ gateway' = "closing"
      BY <1>3, <2>2, <2>4
    <2> QED BY <2>3, <2>4 DEF Journaled
  <1>6. SubSeq(journal', origin + 1, k) = SubSeq(journal, origin + 1, k)
    <2>1. \A j \in 1..k : journal'[j] = journal[j]
      BY <1>1, <1>3
    <2>2. origin + 1 \in Nat \ {0} /\ k <= Len(journal) /\ k <= Len(journal')
      BY <1>0, <1>1, <1>3
    <2> QED BY <1>1, <1>3, <2>1, <2>2, BaseTypes, PartStands
  <1>7. TookUpTo(k)'
    BY <1>1, <1>4, <1>5, <1>6 DEF TookUpTo
  <1>8. BooksOfEpoch(k)'
    <2> SUFFICES ASSUME Active(actor.replay) \/ actor.replay.books # <<>> PROVE BooksOfEpoch(k)'
      BY <1>4 DEF BooksOfEpoch
    <2>1. PICK n \in origin + 1..k :
            /\ Begins(journal, n, k)
            /\ \A t \in DOMAIN actor.replay.books : HasBook(journal, t, n, k)
            /\ Active(actor.replay) =>
                   /\ DOMAIN actor.replay.books \subseteq journal[n].event.tokens
                   /\ \A t \in journal[n].event.tokens :
                          HasBook(journal, t, n, k) => t \in DOMAIN actor.replay.books
            /\ actor.replay.status = "Synchronized" =>
                   DOMAIN actor.replay.books = journal[n].event.tokens
      BY DEF BooksOfEpoch
    <2>2. n \in 1..k /\ \A j \in 1..k : journal'[j] = journal[j]
      BY <1>1, <1>3
    <2>3. /\ journal'[n] = journal[n] /\ Begins(journal', n, k)
          /\ \A t : HasBook(journal', t, n, k) <=> HasBook(journal, t, n, k)
      BY <1>3, <2>1, <2>2, EpochsStand
    <2> QED BY <1>1, <1>4, <2>1, <2>3 DEF BooksOfEpoch
  <1> QED BY <1>1, <1>4, <1>7, <1>8

\* What a session reads or marks is of the epoch it is in.
LEMMA SessionTurnKeepsEpochs ==
    ASSUME CaptureBase, SessionInEpoch, SessionTurn
    PROVE  SessionInEpoch'
  <1> SUFFICES ASSUME gateway' = "capturing" PROVE SessionInEpoch'
    BY DEF SessionInEpoch
  <1>1. journal' = journal /\ origin' = origin
    BY DEF SessionTurn
  <1>2. CASE /\ subscribed' = pending'
             /\ batch' = <<System("start", subscribed'), System("identity", subscribed')>>
    <2>1. /\ System("start", subscribed').kind = "start"
          /\ System("start", subscribed').tokens = subscribed'
          /\ System("identity", subscribed').kind = "identity"
      BY DEF System
    <2>2. /\ batch' # <<>> /\ Len(batch') = 2 /\ batch'[1] = System("start", subscribed')
          /\ batch'[2] = System("identity", subscribed')
      BY <1>2, ShortSequences
    <2>3. \A i \in 1..2 : i = 1 \/ i = 2
      OBVIOUS
    <2> QED BY <1>2, <2>1, <2>2, <2>3 DEF SessionInEpoch, MarketKinds
  <1>3. CASE /\ gateway = "capturing" /\ batch = <<>> /\ UNCHANGED <<subscribed, pending>>
             /\ \/ batch' \in Messages /\ \A i \in DOMAIN batch' : EventTokens(batch'[i]) \subseteq subscribed
                \/ \E kind \in {"rediscover", "shutdown"} : batch' = <<System(kind, subscribed)>>
    <2>1. \A i \in 1..Len(batch') :
               /\ batch'[i].kind \notin {"start", "synced"}
               /\ batch'[i].kind \in MarketKinds => EventTokens(batch'[i]) \subseteq subscribed
      <3>1. CASE batch' \in Messages /\ \A i \in DOMAIN batch' : EventTokens(batch'[i]) \subseteq subscribed
        <4>1. IsSequence(batch') /\ \A i \in 1..Len(batch') : batch'[i].kind \in MarketKinds
          BY <3>1, MessagesAreEvents
        <4>2. DOMAIN batch' = 1..Len(batch')
          BY <4>1, SequenceElements
        <4> QED BY <3>1, <4>1, <4>2 DEF MarketKinds
      <3>2. ASSUME NEW kind \in {"rediscover", "shutdown"}, batch' = <<System(kind, subscribed)>>
            PROVE  \A i \in 1..Len(batch') : batch'[i].kind \notin {"start", "synced"} \cup MarketKinds
        <4>1. System(kind, subscribed).kind = kind
          BY DEF System
        <4>2. Len(batch') = 1 /\ batch'[1].kind = kind
          BY <3>2, <4>1, ShortSequences
        <4> QED BY <4>2 DEF MarketKinds
      <3> QED BY <1>3, <3>1, <3>2
    <2> QED BY <1>1, <1>3, <2>1 DEF SessionInEpoch
  <1> QED BY <1>2, <1>3 DEF SessionTurn

\* What the actor holds is of the epoch it is in, also after one record more.
LEMMA TakenIsOfEpoch ==
    ASSUME CaptureBase, RecordsInEpochs, NEW k \in Nat, origin <= k, k + 1 <= Len(journal),
           BooksOfEpoch(k), Follows(actor'.replay, actor.replay, journal[k + 1]),
           journal' = journal, origin' = origin
    PROVE  BooksOfEpoch(k + 1)'
  <1> DEFINE s == actor.replay
             r == actor'.replay
             v == journal[k + 1].event
  <1>0. origin \in Nat
    BY BaseTypes
  <1>1. v.kind \in SystemKinds \cup MarketKinds
    <2>1. k + 1 \in 1..Len(journal)
      OBVIOUS
    <2> QED BY <2>1, BaseTypes DEF IsEnvelope, IsEvent
  <1>2. Follows(r, s, journal[k + 1])
    OBVIOUS
  <1> SUFFICES ASSUME Active(r) \/ r.books # <<>>
               PROVE  \E n \in origin + 1..k + 1 :
                        /\ Begins(journal, n, k + 1)
                        /\ \A t \in DOMAIN r.books : HasBook(journal, t, n, k + 1)
                        /\ Active(r) =>
                               /\ DOMAIN r.books \subseteq journal[n].event.tokens
                               /\ \A t \in journal[n].event.tokens :
                                      HasBook(journal, t, n, k + 1) => t \in DOMAIN r.books
                        /\ r.status = "Synchronized" => DOMAIN r.books = journal[n].event.tokens
    BY DEF BooksOfEpoch
  <1> HIDE DEF s, r
  <1>3. CASE v.kind = "start"
    <2>1. r.status = "Collecting" /\ r.books = <<>>
      BY <1>2, <1>3 DEF Follows
    <2>2. Begins(journal, k + 1, k + 1) /\ \A t : ~HasBook(journal, t, k + 1, k + 1)
      BY <1>3, EpochOpens
    <2>3. k + 1 \in origin + 1..k + 1
      BY <1>0
    <2>4. DOMAIN r.books = {}
      BY <2>1, NoBooks
    <2> QED BY <2>1, <2>2, <2>3, <2>4
  <1>4. CASE v.kind # "start"
    <2>1. Active(s) \/ s.books # <<>>
      BY <1>1, <1>2, <1>4, NoBooks DEF Follows, SystemKinds, MarketKinds, Active
    <2>2. PICK n \in origin + 1..k :
            /\ Begins(journal, n, k)
            /\ \A t \in DOMAIN s.books : HasBook(journal, t, n, k)
            /\ Active(s) =>
                   /\ DOMAIN s.books \subseteq journal[n].event.tokens
                   /\ \A t \in journal[n].event.tokens :
                          HasBook(journal, t, n, k) => t \in DOMAIN s.books
            /\ s.status = "Synchronized" => DOMAIN s.books = journal[n].event.tokens
      BY <2>1 DEF BooksOfEpoch, s
    <2>3. n \in 1..k /\ n \in origin + 1..k + 1
      BY <1>0
    <2>4. /\ Begins(journal, n, k + 1)
          /\ \A t : HasBook(journal, t, n, k + 1) <=>
                \/ HasBook(journal, t, n, k)
                \/ v.kind = "book" /\ v.token = t
      BY <1>4, <2>2, <2>3, EpochGoesOn
    <2> DEFINE T == journal[n].event.tokens
    <2>5. /\ v.kind \in MarketKinds => EventTokens(v) \subseteq T
          /\ v.kind = "synced" => \A t \in T : HasBook(journal, t, n, k + 1)
      <3>1. SUFFICES ASSUME v.kind \in MarketKinds \cup {"synced"}
                     PROVE  /\ v.kind \in MarketKinds => EventTokens(v) \subseteq T
                            /\ v.kind = "synced" => \A t \in T : HasBook(journal, t, n, k + 1)
        OBVIOUS
      <3>2. k + 1 \in origin + 1..Len(journal)
        BY <1>0
      <3>3. PICK m \in origin + 1..k + 1 :
                /\ Begins(journal, m, k + 1)
                /\ v.kind \in MarketKinds => EventTokens(v) \subseteq journal[m].event.tokens
                /\ v.kind = "synced" =>
                       \A t \in journal[m].event.tokens : HasBook(journal, t, m, k + 1)
        BY <3>1, <3>2 DEF RecordsInEpochs
      <3>4. m = n
        BY <2>4, <3>3, EpochBeganOnce
      <3> QED BY <3>3, <3>4
    <2> HIDE DEF T, v
    <2>6. \A t \in DOMAIN r.books : HasBook(journal, t, n, k + 1)
      BY <1>1, <1>2, <1>4, <2>2, <2>4, NoBooks DEF Follows, SystemKinds, MarketKinds, v
    <2>7. Active(r) => DOMAIN r.books \subseteq T /\ \A t \in T :
                HasBook(journal, t, n, k + 1) => t \in DOMAIN r.books
      <3>1. CASE v.kind \in {"identity", "synced"}
        <4>1. r.books = s.books /\ v.kind # "book" /\ (Active(r) => Active(s))
          BY <1>2, <3>1 DEF Follows, Active, v
        <4> QED BY <2>2, <2>4, <4>1 DEF T
      <3>2. CASE v.kind \in {"rediscover", "shutdown"}
        BY <1>2, <3>2 DEF Follows, Active, v
      <3>3. CASE v.kind = "book"
        <4>1. DOMAIN r.books = DOMAIN s.books \cup {v.token} /\ Active(s) /\ EventTokens(v) = {v.token}
          BY <1>2, <3>3 DEF Follows, MarketKinds, EventTokens, v
        <4>2. v.token \in T
          BY <2>5, <3>3, <4>1 DEF MarketKinds
        <4> QED BY <2>2, <2>4, <4>1, <4>2 DEF T
      <3>4. CASE v.kind \in MarketKinds \ {"book"}
        <4>1. DOMAIN r.books = DOMAIN s.books /\ Active(s)
          BY <1>2, <3>4 DEF Follows, v
        <4> QED BY <2>2, <2>4, <3>4, <4>1 DEF T
      <3> QED BY <1>1, <1>4, <3>1, <3>2, <3>3, <3>4 DEF SystemKinds
    <2>8. r.status = "Synchronized" => DOMAIN r.books = T
      <3> SUFFICES ASSUME r.status = "Synchronized" PROVE DOMAIN r.books = T
        OBVIOUS
      <3>1. Active(r)
        BY DEF Active
      <3>2. CASE v.kind = "synced"
        BY <2>5, <2>7, <3>1, <3>2
      <3>3. CASE v.kind = "identity" \/ v.kind \in MarketKinds
        <4>1. s.status = "Synchronized" /\ DOMAIN s.books \subseteq DOMAIN r.books
          BY <1>2, <3>3 DEF Follows, MarketKinds, v
        <4> QED BY <2>2, <2>7, <3>1, <4>1 DEF T
      <3>4. CASE v.kind \in {"rediscover", "shutdown"}
        BY <1>2, <3>4 DEF Follows, v
      <3> QED BY <1>1, <1>4, <3>2, <3>3, <3>4 DEF SystemKinds
    <2> QED BY <2>3, <2>4, <2>6, <2>7, <2>8 DEF T
  <1> QED BY <1>3, <1>4

\* A turn that takes an event takes the next record.
LEMMA ActorTurnKeepsFlow ==
    ASSUME CaptureBase, RecordsInEpochs, NEW k, TookUpTo(k), BooksOfEpoch(k), ActorTurn,
           actor'.running
    PROVE  \E n \in (origin..Len(journal))' : TookUpTo(n)' /\ BooksOfEpoch(n)'
  <1>0. PICK N \in Nat : N = Len(journal)
    BY BaseTypes
  <1>1. /\ k \in origin..N /\ k \in Nat /\ origin \in Nat /\ origin <= N /\ Len(channel) \in Nat
        /\ journal' = journal /\ origin' = origin /\ gateway' = gateway
        /\ \A i \in 1..Len(channel) : channel[i] = journal[k + i]
        /\ \/ k + Len(channel) = N
           \/ gateway = "closing" /\ k + Len(channel) + 1 = N
    BY <1>0, BaseTypes DEF TookUpTo, ActorTurn
  <1>2. CASE /\ channel # <<>>
             /\ Turn(CoreApply(actor, Head(channel)))
             /\ channel' = IF actor'.running THEN Tail(channel) ELSE <<>>
    <2>1. /\ 1 \in 1..Len(channel) /\ Head(channel) = channel[1]
          /\ IsSequence(channel') /\ Len(channel') = Len(channel) - 1
          /\ \A i \in 1..Len(channel) - 1 : channel'[i] = channel[i + 1]
      BY <1>2, BaseTypes, TailElements
    <2>2. Head(channel) = journal[k + 1] /\ k + 1 \in 1..N /\ k + 1 \in origin..N
      BY <1>1, <2>1
    <2>3. IsEnvelope(Head(channel))
      BY <1>0, <2>2, BaseTypes
    <2>4. /\ CanApply(actor.replay, Head(channel))
          /\ actor'.replay = Applied(actor.replay, Head(channel))
      <3> DEFINE c == CoreApply(actor, Head(channel))
      <3>1. /\ IsCore(c)
            /\ c.mode # "Halted" => CanApply(actor.replay, Head(channel))
                                   /\ c.replay = Applied(actor.replay, Head(channel))
        BY <2>3, BaseTypes, EventTaken
      <3>2. Turn(c)
        BY <1>2
      <3> HIDE DEF c
      <3>3. actor'.replay = c.replay /\ c.mode # "Halted"
        BY <3>1, <3>2, TurnKeeps
      <3> QED BY <3>1, <3>3
    <2>5. Follows(actor'.replay, actor.replay, journal[k + 1])
      BY <2>2, <2>3, <2>4, BaseTypes, EventApplied
    <2>6. BooksOfEpoch(k + 1)'
      BY <1>0, <1>1, <2>2, <2>5, TakenIsOfEpoch
    <2>7. \A i \in 1..Len(channel') : channel'[i] = journal[(k + 1) + i]
      <3>1. ASSUME NEW i \in 1..Len(channel')
            PROVE  i + 1 \in 1..Len(channel) /\ channel'[i] = channel[i + 1] /\ k + (i + 1) = (k + 1) + i
        BY <1>1, <2>1
      <3>2. ASSUME NEW i \in 1..Len(channel')
            PROVE  channel'[i] = journal[k + (i + 1)]
        BY <1>1, <3>1
      <3> QED BY <3>1, <3>2
    <2>8. \/ (k + 1) + Len(channel') = N
          \/ gateway' = "closing" /\ (k + 1) + Len(channel') + 1 = N
      <3>1. CASE k + Len(channel) = N
        <4>1. (k + 1) + Len(channel') = N
          BY <1>1, <2>1, <3>1
        <4> QED BY <4>1
      <3>2. CASE gateway = "closing" /\ k + Len(channel) + 1 = N
        <4>1. (k + 1) + Len(channel') + 1 = N
          BY <1>1, <2>1, <3>2
        <4> QED BY <1>1, <3>2, <4>1
      <3> QED BY <1>1, <3>1, <3>2
    <2>9. ReplayOn(EmptyReplay, SubSeq(journal, origin + 1, k + 1)) =
            [state |-> actor'.replay, ok |-> TRUE]
      <3> DEFINE part == SubSeq(journal, origin + 1, k)
      <3>1. SubSeq(journal, origin + 1, k + 1) = Append(part, journal[k + 1])
        <4>1. /\ origin + 1 \in Nat \ {0} /\ k + 1 \in Nat /\ origin + 1 <= k + 1
              /\ k + 1 <= Len(journal) /\ (k + 1) - 1 = k
          <5>1. origin \in Nat /\ k \in Nat /\ origin <= k /\ k + 1 <= N
            BY <1>1, <2>2
          <5> QED BY <1>0, <5>1
        <4>2. SubSeq(journal, origin + 1, k + 1) =
                Append(SubSeq(journal, origin + 1, (k + 1) - 1), journal[k + 1])
          BY <4>1, BaseTypes, PartGrows
        <4> QED BY <4>1, <4>2
      <3>2. IsSequence(part)
        <4>1. origin + 1 \in Nat \ {0} /\ k \in Int /\ k <= Len(journal)
          BY <1>0, <1>1
        <4> QED BY <4>1, BaseTypes, PartElements
      <3>3. ReplayOn(EmptyReplay, part) = [state |-> actor.replay, ok |-> TRUE]
        BY DEF TookUpTo
      <3> HIDE DEF part
      <3>4. ReplayOn(EmptyReplay, Append(part, journal[k + 1])) =
              ReplayStep(ReplayOn(EmptyReplay, part), journal[k + 1])
        BY <3>2, ReplayOneMore
      <3>5. ReplayStep([state |-> actor.replay, ok |-> TRUE], journal[k + 1]) =
              [state |-> actor'.replay, ok |-> TRUE]
        BY <2>2, <2>4 DEF ReplayStep
      <3> QED BY <3>1, <3>3, <3>4, <3>5
    <2>10. TookUpTo(k + 1)'
      BY <1>0, <1>1, <2>2, <2>7, <2>8, <2>9 DEF TookUpTo
    <2> QED BY <1>0, <1>1, <2>2, <2>6, <2>10
  <1>3. CASE actor'.replay = actor.replay /\ channel' = channel
    <2>1. TookUpTo(k)'
      BY <1>1, <1>3 DEF TookUpTo
    <2>2. BooksOfEpoch(k)'
      BY <1>1, <1>3 DEF BooksOfEpoch
    <2> QED BY <1>0, <1>1, <2>1, <2>2
  <1> QED BY <1>2, <1>3 DEF ActorTurn

\* A process begins with nothing taken.
LEMMA ProcessStartsFlow ==
    ASSUME CaptureBase, ProcessStarts
    PROVE  \E k \in (origin..Len(journal))' : TookUpTo(k)' /\ BooksOfEpoch(k)'
  <1>0. PICK N \in Nat : N = Len(journal)
    BY BaseTypes
  <1>1. /\ journal' = journal /\ origin' = N /\ channel' = <<>> /\ actor'.replay = EmptyReplay
        /\ IsSequence(journal)
    BY <1>0, BaseTypes, NewActorIsEmpty DEF ProcessStarts
  <1>2. SubSeq(journal, N + 1, N) = <<>>
    <2>1. N + 1 \in Nat \ {0} /\ N \in Int /\ N <= Len(journal)
      BY <1>0
    <2>2. IsSequence(SubSeq(journal, N + 1, N)) /\ Len(SubSeq(journal, N + 1, N)) = 0
      BY <1>1, <2>1, PartElements
    <2> QED BY <2>2, SequenceElements
  <1>3. ReplayOn(EmptyReplay, <<>>) = [state |-> EmptyReplay, ok |-> TRUE]
    BY ReplayNone
  <1>4. Len(<<>>) = 0
    BY ShortSequences
  <1>5. TookUpTo(N)'
    <2>1. N \in origin'..Len(journal') /\ N + Len(channel') = Len(journal')
      BY <1>0, <1>1, <1>4
    <2>2. \A i \in 1..Len(channel') : channel'[i] = journal'[N + i]
      BY <1>1, <1>4
    <2>3. ReplayOn(EmptyReplay, SubSeq(journal', origin' + 1, N)) =
            [state |-> actor'.replay, ok |-> TRUE]
      BY <1>1, <1>2, <1>3
    <2> QED BY <2>1, <2>2, <2>3 DEF TookUpTo
  <1>6. EmptyReplay.status = "Inactive" /\ EmptyReplay.books = <<>>
    BY DEF EmptyReplay
  <1>7. BooksOfEpoch(N)'
    BY <1>1, <1>6 DEF BooksOfEpoch, Active
  <1>8. N \in (origin..Len(journal))'
    BY <1>0, <1>1
  <1> QED BY <1>5, <1>7, <1>8

-----------------------------------------------------------------------------
(***************************************************************************)
(* Proofs: the invariant.                                                  *)
(***************************************************************************)
\* The invariant holds in the beginning.
LEMMA CaptureInitially == ASSUME Init PROVE CaptureInv
  <1>1. CaptureBase
    BY BaseAtStart
  <1>2. ~actor.running
    BY NewActorIsEmpty DEF Init
  <1> QED BY <1>1, <1>2 DEF Init, CaptureInv, CaptureBase, SessionInEpoch

\* Every step keeps the invariant.
LEMMA CaptureStep ==
    ASSUME CaptureInv, [Next]_vars
    PROVE  CaptureInv'
  <1> DEFINE Flow == actor.running => \E k \in origin..Len(journal) : TookUpTo(k) /\ BooksOfEpoch(k)
  <1>1. CaptureBase /\ SessionInEpoch /\ (gateway # "down" => RecordsInEpochs)
        /\ (actor.running => gateway # "down")
    BY DEF CaptureInv, CaptureBase, SessionBound
  <1>2. CaptureBase'
    BY <1>1, BaseKept
  <1>3. CASE ActorTurn
    <2>1. SessionInEpoch' /\ (RecordsInEpochs => RecordsInEpochs') /\ (gateway' = gateway)
      BY <1>1, <1>3 DEF ActorTurn, SessionInEpoch, RecordsInEpochs
    <2>2. Flow'
      <3> SUFFICES ASSUME actor'.running
                   PROVE  \E k \in (origin..Len(journal))' : TookUpTo(k)' /\ BooksOfEpoch(k)'
        OBVIOUS
      <3>1. actor.running
        BY <1>3 DEF ActorTurn
      <3>2. PICK k \in origin..Len(journal) : TookUpTo(k) /\ BooksOfEpoch(k)
        BY <3>1 DEF CaptureInv
      <3> QED BY <1>1, <1>3, <3>1, <3>2, ActorTurnKeepsFlow
    <2> QED BY <1>1, <1>2, <2>1, <2>2 DEF CaptureInv, CaptureBase
  <1>4. CASE SessionTurn
    <2>1. SessionInEpoch'
      BY <1>1, <1>4, SessionTurnKeepsEpochs
    <2>2. RecordsInEpochs'
      BY <1>1, <1>4 DEF SessionTurn, RecordsInEpochs
    <2>3. Flow'
      <3> SUFFICES ASSUME actor'.running
                   PROVE  \E k \in (origin..Len(journal))' : TookUpTo(k)' /\ BooksOfEpoch(k)'
        OBVIOUS
      <3>1. actor.running
        BY <1>4 DEF SessionTurn
      <3>2. PICK k \in origin..Len(journal) : TookUpTo(k) /\ BooksOfEpoch(k)
        BY <3>1 DEF CaptureInv
      <3>3. TookUpTo(k)' /\ BooksOfEpoch(k)'
        BY <1>4, <3>2 DEF SessionTurn, TookUpTo, BooksOfEpoch
      <3> QED BY <1>4, <3>3 DEF SessionTurn
    <2> QED BY <1>2, <2>1, <2>2, <2>3 DEF CaptureInv, CaptureBase
  <1>5. ASSUME NEW x, Journaled(x) PROVE CaptureInv'
    <2>1. gateway = "capturing"
      BY <1>1, <1>5, JournaledIsEnvelope
    <2>2. RecordsInEpochs' /\ SessionInEpoch'
      BY <1>1, <1>5, <2>1, JournaledKeepsEpochs, JournaledKeepsSession
    <2>3. Flow'
      <3> SUFFICES ASSUME actor'.running
                   PROVE  \E k \in (origin..Len(journal))' : TookUpTo(k)' /\ BooksOfEpoch(k)'
        OBVIOUS
      <3>1. actor.running
        BY <1>5 DEF Journaled
      <3>2. PICK k \in origin..Len(journal) : TookUpTo(k) /\ BooksOfEpoch(k)
        BY <3>1 DEF CaptureInv
      <3> QED BY <1>1, <1>5, <3>2, JournaledKeepsFlow
    <2> QED BY <1>2, <2>2, <2>3 DEF CaptureInv, CaptureBase
  <1>6. CASE ProcessEnds
    <2>1. ~actor'.running /\ gateway' = "down"
      BY <1>1, <1>6, ProcessEndsKeepsBase
    <2> QED BY <1>2, <2>1 DEF CaptureInv, CaptureBase, SessionInEpoch
  <1>7. CASE ProcessStarts
    <2>1. SessionInEpoch'
      BY <1>7 DEF ProcessStarts, SessionInEpoch
    <2>2. RecordsInEpochs'
      <3>1. Len(journal) \in Nat /\ origin' = Len(journal) /\ journal' = journal
        BY <1>1, <1>7, BaseTypes DEF ProcessStarts
      <3>2. (origin + 1..Len(journal))' = {}
        BY <3>1
      <3> QED BY <3>2 DEF RecordsInEpochs
    <2>3. \E k \in (origin..Len(journal))' : TookUpTo(k)' /\ BooksOfEpoch(k)'
      BY <1>1, <1>7, ProcessStartsFlow
    <2> QED BY <1>2, <2>1, <2>2, <2>3 DEF CaptureInv, CaptureBase
  <1>8. CASE Unmoved
    <2>1. SessionInEpoch' /\ (RecordsInEpochs => RecordsInEpochs')
      BY <1>1, <1>8 DEF Unmoved, SessionInEpoch, RecordsInEpochs
    <2>2. \A k : (TookUpTo(k) => TookUpTo(k)') /\ (BooksOfEpoch(k) => BooksOfEpoch(k)')
      BY <1>8 DEF Unmoved, TookUpTo, BooksOfEpoch
    <2>3. Flow'
      BY <1>8, <2>2 DEF CaptureInv, Unmoved
    <2> QED BY <1>1, <1>2, <1>8, <2>1, <2>3 DEF CaptureInv, CaptureBase, Unmoved
  <1> QED BY <1>1, <1>3, <1>4, <1>5, <1>6, <1>7, <1>8, CaptureSteps

\* The records, the channel and the live actor belong together in every reachable state: the
\* inductive invariant of append_and_deliver and LiveStateCore::apply.
THEOREM CaptureIsInvariant == Spec => []CaptureInv
  <1>1. Init => CaptureInv
    BY CaptureInitially
  <1>2. CaptureInv /\ [Next]_vars => CaptureInv'
    BY CaptureStep
  <1> QED BY <1>1, <1>2, PTL DEF Spec

-----------------------------------------------------------------------------
(***************************************************************************)
(* Theorems.                                                               *)
(***************************************************************************)
\* OBR-005: no book the actor calls authoritative is crossed, whatever messages the venue sends
\* (apply_price_changes, apply_best_bid_ask, apply_book of crates/order-book-replay).
THEOREM AuthorityAlwaysSound == Spec => []AuthorityIsSound
  <1>1. CaptureInv => AuthorityIsSound
    BY DEF CaptureInv, Sound, AuthorityIsSound
  <1> QED BY <1>1, CaptureIsInvariant, PTL

\* The records of the process up to the k-th are those that were taken, or all but the last.
LEMMA TakenUpTo ==
    ASSUME CaptureInv, NEW k, TookUpTo(k)
    PROVE  LET part == SubSeq(journal, origin + 1, k)
           IN  /\ k \in Nat /\ origin <= k /\ k <= Len(journal) /\ IsSequence(part)
               /\ ReplayOn(EmptyReplay, part) = [state |-> actor.replay, ok |-> TRUE]
               /\ \/ Taken = part
                  \/ /\ gateway = "closing" /\ Taken # <<>> /\ Front(Taken) = part
                     /\ k + 1 \in 1..Len(journal) /\ Taken = Append(part, journal[k + 1])
  <1> DEFINE part == SubSeq(journal, origin + 1, k)
  <1>0. PICK N \in Nat : N = Len(journal)
    BY BaseTypes DEF CaptureInv, CaptureBase
  <1>1. /\ IsSequence(journal) /\ Len(channel) \in Nat /\ origin \in Nat /\ origin <= N
        /\ k \in Nat /\ origin <= k /\ k <= N
        /\ \/ k = N - Len(channel)
           \/ gateway = "closing" /\ k + 1 = N - Len(channel)
    <2>1. IsSequence(journal) /\ Len(channel) \in Nat /\ origin \in Nat /\ origin <= N
      BY <1>0, BaseTypes DEF CaptureInv, CaptureBase
    <2>2. k \in origin..N
      BY <1>0 DEF TookUpTo
    <2>3. k + Len(channel) = N \/ (gateway = "closing" /\ k + Len(channel) + 1 = N)
      BY <1>0 DEF TookUpTo
    <2> QED BY <2>1, <2>2, <2>3
  <1>2. IsSequence(part) /\ Len(part) = k - origin
        /\ \A i \in 1..k - origin : part[i] = journal[(origin + 1) + i - 1]
    <2>1. origin + 1 \in Nat \ {0} /\ k \in Int /\ k <= Len(journal) /\ k - (origin + 1) + 1 = k - origin
      BY <1>0, <1>1
    <2>2. /\ IsSequence(part)
          /\ Len(part) = IF origin + 1 <= k THEN k - (origin + 1) + 1 ELSE 0
          /\ \A i \in 1..k - (origin + 1) + 1 : part[i] = journal[(origin + 1) + i - 1]
      BY <1>1, <2>1, PartElements
    <2>3. Len(part) = k - origin
      BY <1>1, <2>2
    <2> QED BY <2>1, <2>2, <2>3
  <1>3. ReplayOn(EmptyReplay, part) = [state |-> actor.replay, ok |-> TRUE]
    BY DEF TookUpTo
  <1>4. CASE k = N - Len(channel)
    <2>1. Taken = part
      BY <1>0, <1>4 DEF Taken
    <2> QED BY <1>0, <1>1, <1>2, <1>3, <2>1
  <1>5. CASE gateway = "closing" /\ k + 1 = N - Len(channel)
    <2>1. Taken = SubSeq(journal, origin + 1, k + 1)
      BY <1>0, <1>5 DEF Taken
    <2>2. /\ origin + 1 \in Nat \ {0} /\ k + 1 \in Nat /\ origin + 1 <= k + 1 /\ k + 1 <= Len(journal)
          /\ (k + 1) - 1 = k /\ k + 1 \in 1..Len(journal)
      BY <1>0, <1>1, <1>5
    <2>3. Taken = Append(part, journal[k + 1])
      <3>1. SubSeq(journal, origin + 1, k + 1) =
              Append(SubSeq(journal, origin + 1, (k + 1) - 1), journal[k + 1])
        BY <1>1, <2>2, PartGrows
      <3> QED BY <2>1, <2>2, <3>1
    <2> HIDE DEF part
    <2>4. /\ IsSequence(Taken) /\ Len(Taken) = Len(part) + 1
          /\ \A i \in 1..Len(part) : Taken[i] = part[i]
      BY <1>2, <2>3, AppendElements
    <2>5. Taken # <<>>
      BY <1>1, <1>2, <2>4, ShortSequences
    <2>6. Front(Taken) = part
      <3> DEFINE f == SubSeq(Taken, 1, Len(part))
      <3>1. Front(Taken) = SubSeq(Taken, 1, Len(Taken) - 1)
        BY DEF Front
      <3>2. Len(part) \in Nat /\ Len(Taken) - 1 = Len(part)
        BY <1>1, <1>2, <2>4
      <3>3. Len(part) <= Len(Taken) /\ Len(part) \in Int
        BY <2>4, <3>2
      <3>4. /\ IsSequence(f) /\ Len(f) = IF 1 <= Len(part) THEN Len(part) - 1 + 1 ELSE 0
            /\ \A i \in 1..Len(part) - 1 + 1 : f[i] = Taken[1 + i - 1]
        BY <2>4, <3>3, PartElements
      <3> HIDE DEF f
      <3>5. Len(f) = Len(part) /\ \A i \in 1..Len(part) : i \in 1..Len(part) - 1 + 1 /\ 1 + i - 1 = i
        BY <3>2, <3>4
      <3>6. \A i \in 1..Len(f) : f[i] = part[i]
        BY <2>4, <3>4, <3>5
      <3>7. f = part
        BY <1>2, <3>4, <3>5, <3>6, SequencesSame
      <3> QED BY <3>1, <3>2, <3>7 DEF f
    <2> QED BY <1>0, <1>1, <1>2, <1>3, <1>5, <2>2, <2>3, <2>5, <2>6 DEF part
  <1> QED BY <1>1, <1>4, <1>5

\* LMS-001, LMS-007: the running actor holds exactly the offline replay of the records of its
\* process that left the channel, whatever the venue, the clock and the crashes do
\* (append_and_deliver of crates/public-market-data, LiveStateCore::apply).
THEOREM LiveAlwaysReplay == Spec => []LiveIsReplay
  <1>1. CaptureInv => LiveIsReplay
    <2> SUFFICES ASSUME CaptureInv, actor.running PROVE LiveIsReplay
      BY DEF LiveIsReplay
    <2>1. PICK k \in origin..Len(journal) : TookUpTo(k) /\ BooksOfEpoch(k)
      BY DEF CaptureInv
    <2> DEFINE part == SubSeq(journal, origin + 1, k)
    <2>2. /\ ReplayOn(EmptyReplay, part) = [state |-> actor.replay, ok |-> TRUE]
          /\ \/ Taken = part
             \/ gateway = "closing" /\ Taken # <<>> /\ Front(Taken) = part
      BY <2>1, TakenUpTo
    <2>3. Replayable(part) /\ Replay(part) = actor.replay
      BY <2>2 DEF Replayable, Replay
    <2> HIDE DEF part
    <2> QED BY <2>2, <2>3 DEF LiveIsReplay
  <1> QED BY <1>1, CaptureIsInvariant, PTL

\* The record whose sending was refused is not mistaken for one that was applied.
LEMMA ApplyingIsTaken ==
    ASSUME CaptureInv, NEW k, TookUpTo(k)
    PROVE  Applying = SubSeq(journal, origin + 1, k)
  <1> DEFINE part == SubSeq(journal, origin + 1, k)
  <1>1. /\ IsSequence(part)
        /\ ReplayOn(EmptyReplay, part) = [state |-> actor.replay, ok |-> TRUE]
        /\ \/ Taken = part
           \/ /\ Front(Taken) = part
              /\ k + 1 \in 1..Len(journal) /\ Taken = Append(part, journal[k + 1])
    BY TakenUpTo
  <1> HIDE DEF part
  <1>2. CASE Taken = part
    <2>1. Replayable(Taken) /\ actor.replay = Replay(Taken)
      BY <1>1, <1>2 DEF Replayable, Replay
    <2> QED BY <1>2, <2>1 DEF Applying, part
  <1>3. CASE /\ Front(Taken) = part
             /\ k + 1 \in 1..Len(journal) /\ Taken = Append(part, journal[k + 1])
    <2> DEFINE e == journal[k + 1]
    <2>1. IsEnvelope(e) /\ IsReplay(actor.replay) /\ Sound(actor.replay)
      BY <1>3, BaseTypes DEF CaptureInv, CaptureBase
    <2>2. ReplayOn(EmptyReplay, Taken) = ReplayStep([state |-> actor.replay, ok |-> TRUE], e)
      <3> HIDE DEF e
      <3>1. ReplayOn(EmptyReplay, Append(part, e)) = ReplayStep(ReplayOn(EmptyReplay, part), e)
        <4>1. IsSequence(part)
          BY <1>1
        <4> QED BY ONLY <4>1, ReplayOneMore
      <3>2. Taken = Append(part, e)
        BY <1>3 DEF e
      <3> QED BY <1>1, <3>1, <3>2
    <2> SUFFICES ASSUME Replayable(Taken) PROVE actor.replay # Replay(Taken)
      BY <1>3 DEF Applying, part
    <2>3. CanApply(actor.replay, e) /\ Replay(Taken) = Applied(actor.replay, e)
      BY <2>2 DEF Replayable, Replay, ReplayStep
    <2>4. Applied(actor.replay, e).last = e.sequence
      BY <2>1, <2>3, EventApplied DEF Follows
    <2>5. e.sequence \in Nat /\ (actor.replay.last # None => e.sequence = actor.replay.last + 1)
      BY <2>1, <2>3 DEF IsEnvelope, CanApply, SequenceFollows
    <2> HIDE DEF e
    <2>6. actor.replay.last # e.sequence
      BY <2>5 DEF None
    <2> QED BY <2>3, <2>4, <2>6
  <1> QED BY <1>1, <1>2, <1>3

\* PMC-005, OBR-004: the books of the running actor are from snapshots of its epoch, and once it
\* is synchronized they are the books of exactly the tokens of the epoch, in every rediscovery
\* and restart (run_session_until and its pending_snapshots, ReplayState::start_epoch).
THEOREM BooksAlwaysCurrent == Spec => []BooksAreCurrent
  <1>1. CaptureInv => BooksAreCurrent
    <2> SUFFICES ASSUME CaptureInv, actor.running, actor.replay.books # <<>>
                 PROVE  BooksAreCurrent
      BY DEF BooksAreCurrent
    <2>1. PICK k \in origin..Len(journal) : TookUpTo(k) /\ BooksOfEpoch(k)
      BY DEF CaptureInv
    <2> DEFINE part == SubSeq(journal, origin + 1, k)
    <2>2. k \in Nat /\ origin <= k /\ k <= Len(journal) /\ origin \in Nat /\ IsSequence(journal)
      BY <2>1, TakenUpTo, BaseTypes DEF CaptureInv, CaptureBase
    <2>3. Applying = part
      BY <2>1, ApplyingIsTaken
    <2>4. PICK n \in origin + 1..k :
            /\ Begins(journal, n, k)
            /\ \A t \in DOMAIN actor.replay.books : HasBook(journal, t, n, k)
            /\ actor.replay.status = "Synchronized" =>
                   DOMAIN actor.replay.books = journal[n].event.tokens
      BY <2>1 DEF BooksOfEpoch
    <2>5. /\ IsSequence(part) /\ Len(part) = k - origin
          /\ \A i \in 1..k - origin : part[i] = journal[origin + i]
      <3>1. origin + 1 \in Nat \ {0} /\ k \in Int /\ k <= Len(journal)
        BY <2>2
      <3>2. /\ IsSequence(part)
            /\ Len(part) = IF origin + 1 <= k THEN k - (origin + 1) + 1 ELSE 0
            /\ \A i \in 1..k - (origin + 1) + 1 : part[i] = journal[(origin + 1) + i - 1]
        BY <2>2, <3>1, PartElements
      <3>3. \A i \in 1..k - origin : i \in 1..k - (origin + 1) + 1 /\ (origin + 1) + i - 1 = origin + i
        BY <2>2
      <3>4. Len(part) = k - origin
        BY <2>2, <3>2
      <3> QED BY <3>2, <3>3, <3>4
    <2> HIDE DEF part
    <2>6. DOMAIN part = 1..Len(part) /\ Len(part) \in Nat
      BY <2>5, SequenceElements
    <2> DEFINE first == n - origin
               start == CHOOSE m \in DOMAIN Applying :
                            /\ Applying[m].event.kind = "start"
                            /\ \A j \in m+1..Len(Applying) : Applying[j].event.kind # "start"
    <2>7. Begins(part, first, Len(part))
      <3>1. first \in 1..Len(part) /\ part[first] = journal[n]
        BY <2>2, <2>5
      <3>2. \A j \in first + 1..Len(part) : part[j] = journal[origin + j] /\ origin + j \in n + 1..k
        BY <2>2, <2>5
      <3> QED BY <2>4, <3>1, <3>2 DEF Begins
    <2>8. start = first
      <3>1. first \in DOMAIN Applying /\ Applying[first].event.kind = "start"
            /\ \A j \in first+1..Len(Applying) : Applying[j].event.kind # "start"
        BY <2>3, <2>6, <2>7 DEF Begins
      <3>2. start \in DOMAIN Applying /\ Applying[start].event.kind = "start"
            /\ \A j \in start+1..Len(Applying) : Applying[j].event.kind # "start"
        BY <3>1, Zenon
      <3> HIDE DEF start, first
      <3>3. Begins(part, start, Len(part))
        BY <2>3, <2>6, <3>2 DEF Begins
      <3> QED BY <2>6, <2>7, <3>3, EpochBeganOnce
    <2>9. CurrentEpoch = SubSeq(part, first, Len(part))
      <3>1. CurrentEpoch = SubSeq(Applying, start, Len(Applying))
        BY DEF CurrentEpoch
      <3> HIDE DEF start, first
      <3> QED BY <2>3, <2>8, <3>1
    <2>10. /\ IsSequence(CurrentEpoch) /\ Len(CurrentEpoch) = k - n + 1
           /\ \A i \in 1..k - n + 1 : CurrentEpoch[i] = journal[n + i - 1]
      <3>1. /\ first \in Nat \ {0} /\ first <= Len(part) /\ Len(part) \in Int
            /\ Len(part) <= Len(part) /\ Len(part) - first + 1 = k - n + 1
        BY <2>2, <2>5
      <3> HIDE DEF first
      <3>2. /\ IsSequence(CurrentEpoch) /\ Len(CurrentEpoch) = Len(part) - first + 1
            /\ \A i \in 1..Len(part) - first + 1 : CurrentEpoch[i] = part[first + i - 1]
        BY <2>5, <2>9, <3>1, PartElements
      <3>3. ASSUME NEW i \in 1..k - n + 1
            PROVE  CurrentEpoch[i] = journal[n + i - 1]
        <4>1. first + i - 1 \in 1..k - origin /\ origin + (first + i - 1) = n + i - 1
          BY <2>2, <2>5, <3>1 DEF first
        <4> QED BY <2>5, <3>1, <3>2, <4>1
      <3> QED BY <3>1, <3>2, <3>3
    <2>11. DOMAIN CurrentEpoch = 1..k - n + 1
      BY <2>10, SequenceElements
    <2>12. \A t \in DOMAIN actor.replay.books : \E i \in DOMAIN CurrentEpoch :
               CurrentEpoch[i].event.kind = "book" /\ CurrentEpoch[i].event.token = t
      <3> SUFFICES ASSUME NEW t \in DOMAIN actor.replay.books
                   PROVE  \E i \in DOMAIN CurrentEpoch :
                            CurrentEpoch[i].event.kind = "book" /\ CurrentEpoch[i].event.token = t
        OBVIOUS
      <3>1. PICK j \in n + 1..k : journal[j].event.kind = "book" /\ journal[j].event.token = t
        BY <2>4 DEF HasBook
      <3>2. j - n + 1 \in 1..k - n + 1 /\ n + (j - n + 1) - 1 = j
        BY <2>2, <3>1
      <3>3. CurrentEpoch[j - n + 1] = journal[j]
        BY <2>10, <3>2
      <3> QED BY <2>11, <3>1, <3>2, <3>3
    <2>13. CurrentEpoch[1] = journal[n]
      <3>1. 1 \in 1..k - n + 1 /\ n + 1 - 1 = n
        BY <2>2
      <3> QED BY <2>10, <3>1
    <2> QED BY <2>4, <2>12, <2>13 DEF BooksAreCurrent
  <1> QED BY <1>1, CaptureIsInvariant, PTL

-----------------------------------------------------------------------------
(***************************************************************************)
(* Proofs: a replay from a checkpoint.                                     *)
(***************************************************************************)
Prefix(s, k) == SubSeq(s, 1, k)

\* A beginning of a sequence, and one element more.
LEMMA PrefixGrows ==
    ASSUME NEW s, IsSequence(s), NEW k \in Nat, k + 1 <= Len(s)
    PROVE  IsSequence(Prefix(s, k)) /\ Prefix(s, k + 1) = Append(Prefix(s, k), s[k + 1])
  <1>1. 1 \in Nat \ {0} /\ k + 1 \in Nat /\ 1 <= k + 1 /\ k <= Len(s) /\ k \in Int /\ (k + 1) - 1 = k
    BY SequenceElements
  <1>2. IsSequence(SubSeq(s, 1, k))
    BY <1>1, PartElements
  <1>3. SubSeq(s, 1, k + 1) = Append(SubSeq(s, 1, (k + 1) - 1), s[k + 1])
    BY <1>1, PartGrows
  <1> QED BY <1>1, <1>2, <1>3 DEF Prefix

\* The shortest and the longest beginning of a sequence.
LEMMA PrefixEmpty ==
    ASSUME NEW s, IsSequence(s)
    PROVE  Prefix(s, 0) = <<>> /\ Prefix(s, Len(s)) = s
  <1>1. Len(s) \in Nat
    BY SequenceElements
  <1>2. 0 <= Len(s) /\ 1 \in Nat \ {0} /\ 0 \in Int
    BY <1>1
  <1>3. IsSequence(SubSeq(s, 1, 0)) /\ Len(SubSeq(s, 1, 0)) = 0
    BY <1>2, PartElements
  <1>4. SubSeq(s, 1, 0) = <<>>
    BY <1>3, SequenceElements
  <1>5. s \in Seq(ToSet(s))
    BY DEF IsSequence
  <1>6. SubSeq(s, 1, Len(s)) = s
    BY <1>5, SubSeqFull
  <1> QED BY <1>4, <1>6 DEF Prefix

\* What a replay that reached the k-th record has seen: records numbered one after another.
Reached(s, k) ==
    LET course == ReplayOn(EmptyReplay, Prefix(s, k))
    IN  course.ok =>
            /\ course = [state |-> course.state, ok |-> TRUE]
            /\ IsReplay(course.state) /\ Sound(course.state)
            /\ k > 0 => course.state.last = s[k].sequence
            /\ \A i \in 1..k : s[i].sequence = s[1].sequence + i - 1
            /\ \A i \in 0..k : ReplayOn(EmptyReplay, Prefix(s, i)).ok

\* Before the first record.
LEMMA ReachedNone ==
    ASSUME NEW s, IsSequence(s)
    PROVE  Reached(s, 0)
  <1>1. ReplayOn(EmptyReplay, Prefix(s, 0)) = [state |-> EmptyReplay, ok |-> TRUE]
    BY PrefixEmpty, ReplayNone
  <1>2. IsReplay(EmptyReplay) /\ Sound(EmptyReplay)
    BY NoBooks DEF EmptyReplay, IsReplay, Statuses, Sound
  <1> QED BY <1>1, <1>2 DEF Reached

\* After one record more.
LEMMA ReachedOneMore ==
    ASSUME NEW s, IsSequence(s), \A i \in 1..Len(s) : IsEnvelope(s[i]),
           NEW k \in Nat, k + 1 <= Len(s), Reached(s, k)
    PROVE  Reached(s, k + 1)
  <1> DEFINE before == ReplayOn(EmptyReplay, Prefix(s, k))
             after == ReplayOn(EmptyReplay, Prefix(s, k + 1))
             e == s[k + 1]
  <1>0. Len(s) \in Nat /\ k + 1 \in 1..Len(s)
    <2>1. Len(s) \in Nat
      BY SequenceElements
    <2> QED BY <2>1
  <1>1. after = ReplayStep(before, e)
    <2>1. IsSequence(Prefix(s, k)) /\ Prefix(s, k + 1) = Append(Prefix(s, k), e)
      BY PrefixGrows
    <2> DEFINE p == Prefix(s, k)
    <2> HIDE DEF e, p
    <2>2. ReplayOn(EmptyReplay, Append(p, e)) = ReplayStep(ReplayOn(EmptyReplay, p), e)
      <3>1. IsSequence(p)
        BY <2>1 DEF p
      <3> QED BY ONLY <3>1, ReplayOneMore
    <2> QED BY <2>1, <2>2 DEF p
  <1> HIDE DEF after, before
  <1> SUFFICES ASSUME after.ok
               PROVE  /\ after = [state |-> after.state, ok |-> TRUE]
                      /\ IsReplay(after.state) /\ Sound(after.state)
                      /\ after.state.last = e.sequence
                      /\ \A i \in 1..k + 1 : s[i].sequence = s[1].sequence + i - 1
                      /\ \A i \in 0..k + 1 : ReplayOn(EmptyReplay, Prefix(s, i)).ok
    BY DEF Reached, after
  <1>2. /\ before.ok /\ CanApply(before.state, e)
        /\ after = [state |-> Applied(before.state, e), ok |-> TRUE]
    BY <1>1 DEF ReplayStep
  <1>3. /\ IsReplay(before.state) /\ Sound(before.state)
        /\ k > 0 => before.state.last = s[k].sequence
        /\ \A i \in 1..k : s[i].sequence = s[1].sequence + i - 1
        /\ \A i \in 0..k : ReplayOn(EmptyReplay, Prefix(s, i)).ok
    BY <1>2 DEF Reached, before
  <1>4. IsEnvelope(e)
    BY <1>0
  <1>5. Follows(Applied(before.state, e), before.state, e)
    BY <1>2, <1>3, <1>4, EventApplied
  <1>6. e.sequence = s[1].sequence + (k + 1) - 1
    <2>1. CASE k = 0
      BY <1>0, <1>4, <2>1 DEF IsEnvelope
    <2>2. CASE k # 0
      <3>1. k \in 1..k /\ k > 0 /\ 1 \in 1..Len(s) /\ k \in 1..Len(s)
        BY <1>0, <2>2
      <3>2. s[k].sequence \in Nat /\ s[1].sequence \in Nat /\ s[k].sequence = s[1].sequence + k - 1
        BY <1>3, <3>1 DEF IsEnvelope
      <3>3. e.sequence = s[k].sequence + 1
        BY <1>2, <1>3, <3>1, <3>2 DEF CanApply, SequenceFollows, None
      <3> QED BY <3>2, <3>3
    <2> QED BY <2>1, <2>2
  <1>7. \A i \in 1..k + 1 : s[i].sequence = s[1].sequence + i - 1
    <2>1. \A i \in 1..k + 1 : i \in 1..k \/ i = k + 1
      OBVIOUS
    <2> QED BY <1>3, <1>6, <2>1
  <1>8. \A i \in 0..k + 1 : ReplayOn(EmptyReplay, Prefix(s, i)).ok
    <2>1. \A i \in 0..k + 1 : i \in 0..k \/ i = k + 1
      OBVIOUS
    <2>2. ReplayOn(EmptyReplay, Prefix(s, k + 1)).ok
      BY DEF after
    <2> QED BY <1>3, <2>1, <2>2
  <1> QED BY <1>2, <1>5, <1>7, <1>8 DEF Follows

\* After any number of records.
LEMMA ReachedAll ==
    ASSUME NEW s, IsSequence(s), \A i \in 1..Len(s) : IsEnvelope(s[i]), NEW n \in 0..Len(s)
    PROVE  Reached(s, n)
  <1> DEFINE bad == {k \in 0..Len(s) : ~Reached(s, k)}
  <1>0. Len(s) \in Nat
    BY SequenceElements
  <1> SUFFICES ASSUME bad # {} PROVE FALSE
    OBVIOUS
  <1>1. bad \subseteq Nat
    BY <1>0
  <1> HIDE DEF bad
  <1>2. PICK k \in bad : \A j \in bad : k <= j
    BY <1>1, SmallestNumber
  <1> USE DEF bad
  <1>3. k \in 0..Len(s) /\ ~Reached(s, k)
    BY <1>2
  <1>4. k # 0
    BY <1>3, ReachedNone
  <1>5. k - 1 \in 0..Len(s) /\ k - 1 \notin bad /\ k - 1 \in Nat /\ (k - 1) + 1 = k /\ k <= Len(s)
    BY <1>0, <1>2, <1>3, <1>4
  <1>6. Reached(s, k - 1)
    BY <1>5
  <1> DEFINE j == k - 1
  <1>7. j \in Nat /\ j + 1 <= Len(s) /\ Reached(s, j) /\ j + 1 = k
    BY <1>5, <1>6
  <1> HIDE DEF j, bad
  <1>8. Reached(s, j + 1)
    BY <1>7, ReachedOneMore
  <1> QED BY <1>3, <1>7, <1>8

\* The rest of a sequence, replayed from where its beginning led, leads where the whole does.
LEMMA ReplayGoesOn ==
    ASSUME NEW s, IsSequence(s), NEW n \in 0..Len(s), NEW state,
           ReplayOn(EmptyReplay, Prefix(s, n)) = [state |-> state, ok |-> TRUE]
    PROVE  ReplayOn(state, SubSeq(s, n + 1, Len(s))) = ReplayOn(EmptyReplay, s)
  <1> DEFINE agree(k) == ReplayOn(state, SubSeq(s, n + 1, k)) = ReplayOn(EmptyReplay, Prefix(s, k))
             bad == {k \in n..Len(s) : ~agree(k)}
  <1>0. Len(s) \in Nat
    BY SequenceElements
  <1>1. CASE bad # {}
    <2>1. bad \subseteq Nat
      BY <1>0
    <2> HIDE DEF bad
    <2>2. PICK k \in bad : \A j \in bad : k <= j
      BY <1>1, <2>1, SmallestNumber
    <2> USE DEF bad
    <2>3. k \in n..Len(s) /\ ~agree(k)
      BY <2>2
    <2>4. k # n
      <3>1. SubSeq(s, n + 1, n) = <<>>
        <4>1. n + 1 \in Nat \ {0} /\ n \in Int /\ n <= Len(s)
          BY <1>0
        <4>2. IsSequence(SubSeq(s, n + 1, n)) /\ Len(SubSeq(s, n + 1, n)) = 0
          BY <4>1, PartElements
        <4> QED BY <4>2, SequenceElements
      <3>2. ReplayOn(state, <<>>) = [state |-> state, ok |-> TRUE]
        BY ReplayNone
      <3>3. agree(n)
        BY <3>1, <3>2
      <3> QED BY <2>3, <3>3
    <2> DEFINE j == k - 1
    <2>5. j \in Nat /\ j + 1 = k /\ j + 1 <= Len(s) /\ j \in n..Len(s) /\ j \notin bad /\ n <= j
      BY <1>0, <2>2, <2>3, <2>4
    <2>6. agree(j)
      BY <2>5
    <2>7. /\ n + 1 \in Nat \ {0} /\ j + 1 \in Nat /\ n + 1 <= j + 1 /\ (j + 1) - 1 = j
          /\ j \in Int /\ j <= Len(s)
      BY <1>0, <2>5
    <2> HIDE DEF j, bad
    <2> DEFINE part == SubSeq(s, n + 1, j)
               prefix == Prefix(s, j)
               e == s[j + 1]
    <2>8. IsSequence(part) /\ SubSeq(s, n + 1, j + 1) = Append(part, e)
      <3>1. SubSeq(s, n + 1, j + 1) = Append(SubSeq(s, n + 1, (j + 1) - 1), s[j + 1])
        BY <2>5, <2>7, PartGrows
      <3>2. IsSequence(SubSeq(s, n + 1, j))
        BY <2>7, PartElements
      <3> QED BY <2>7, <3>1, <3>2
    <2>9. IsSequence(prefix) /\ Prefix(s, j + 1) = Append(prefix, e)
      BY <2>5, PrefixGrows
    <2>10. ReplayOn(state, part) = ReplayOn(EmptyReplay, prefix)
      BY <2>6
    <2> HIDE DEF part, prefix, e
    <2>11. ReplayOn(state, Append(part, e)) = ReplayStep(ReplayOn(state, part), e)
      BY ONLY <2>8, ReplayOneMore
    <2>12. ReplayOn(EmptyReplay, Append(prefix, e)) = ReplayStep(ReplayOn(EmptyReplay, prefix), e)
      BY ONLY <2>9, ReplayOneMore
    <2>13. agree(j + 1)
      BY <2>8, <2>9, <2>10, <2>11, <2>12
    <2> QED BY <2>3, <2>5, <2>13
  <1>2. CASE bad = {}
    <2>1. Len(s) \in n..Len(s)
      BY <1>0
    <2>2. agree(Len(s))
      BY <1>2, <2>1
    <2> QED BY <2>2, PrefixEmpty
  <1> QED BY <1>1, <1>2

\* A checkpoint that meets the sequence it is of leads to the state of the whole.
LEMMA CheckpointLeadsOn ==
    ASSUME NEW s, IsSequence(s), \A i \in 1..Len(s) : IsEnvelope(s[i]), NEW checkpointed,
           Replayable(s), CheckpointMatches(s, checkpointed)
    PROVE  ReplayFromCheckpoint(s, checkpointed) = [state |-> Replay(s), ok |-> TRUE]
  <1>0. Len(s) \in Nat /\ Len(s) \in 0..Len(s) /\ Prefix(s, Len(s)) = s
    <2>1. Len(s) \in Nat
      BY SequenceElements
    <2> QED BY <2>1, PrefixEmpty
  <1>1. Reached(s, Len(s))
    BY <1>0, ReachedAll
  <1>2. /\ ReplayOn(EmptyReplay, s) = [state |-> Replay(s), ok |-> TRUE]
        /\ \A i \in 1..Len(s) : s[i].sequence = s[1].sequence + i - 1
    BY <1>0, <1>1 DEF Reached, Replayable, Replay
  <1>3. CASE checkpointed.last = None
    <2>1. checkpointed = EmptyReplay
      BY <1>3 DEF CheckpointMatches
    <2>2. ReplayFromCheckpoint(s, checkpointed) = ReplayOn(EmptyReplay, SubSeq(s, 0 + 1, Len(s)))
      BY <1>3, <2>1 DEF ReplayFromCheckpoint
    <2>3. SubSeq(s, 0 + 1, Len(s)) = s
      BY <1>0 DEF Prefix
    <2> QED BY <1>2, <2>2, <2>3
  <1>4. CASE checkpointed.last # None
    <2>1. PICK n \in 1..Len(s) :
            /\ s[n].sequence = checkpointed.last
            /\ Replayable(Prefix(s, n))
            /\ Replay(Prefix(s, n)) = checkpointed
      BY <1>4 DEF CheckpointMatches, Prefix
    <2> DEFINE met == CHOOSE m \in 1..Len(s) : s[m].sequence = checkpointed.last
    <2>2. met \in 1..Len(s) /\ s[met].sequence = checkpointed.last
      BY <2>1
    <2>3. ReplayFromCheckpoint(s, checkpointed) = ReplayOn(checkpointed, SubSeq(s, met + 1, Len(s)))
      BY <1>4 DEF ReplayFromCheckpoint
    <2> HIDE DEF met
    <2>4. met = n
      <3>1. s[1].sequence \in Nat
        BY <1>0, <2>1 DEF IsEnvelope
      <3>2. s[met].sequence = s[1].sequence + met - 1 /\ s[n].sequence = s[1].sequence + n - 1
        BY <1>2, <2>1, <2>2
      <3> QED BY <2>1, <2>2, <3>1, <3>2
    <2>5. ReplayOn(EmptyReplay, Prefix(s, n)) = [state |-> checkpointed, ok |-> TRUE]
      <3>1. n \in 0..Len(s)
        BY <2>1
      <3>2. Reached(s, n)
        BY <3>1, ReachedAll
      <3> QED BY <2>1, <3>2 DEF Reached, Replayable, Replay
    <2>6. ReplayOn(checkpointed, SubSeq(s, n + 1, Len(s))) = ReplayOn(EmptyReplay, s)
      <3>1. n \in 0..Len(s)
        BY <2>1
      <3> QED BY <2>5, <3>1, ReplayGoesOn
    <2> QED BY <1>2, <2>3, <2>4, <2>6
  <1> QED BY <1>3, <1>4

\* A checkpoint that replay_segmented_from_checkpoint accepts leads to the state of the whole
\* journal, whatever records a power loss took and whatever took their numbers since.
THEOREM CheckpointAlwaysAgrees == Spec => []CheckpointAgrees
  <1>1. CaptureInv => CheckpointAgrees
    <2> SUFFICES ASSUME CaptureInv, Replayable(journal), CheckpointMatches(journal, checkpoint.state)
                 PROVE  ReplayFromCheckpoint(journal, checkpoint.state) =
                          [state |-> Replay(journal), ok |-> TRUE]
      BY DEF CheckpointAgrees
    <2>1. IsSequence(journal) /\ \A i \in 1..Len(journal) : IsEnvelope(journal[i])
      BY BaseTypes DEF CaptureInv, CaptureBase
    <2> QED BY <2>1, CheckpointLeadsOn
  <1> QED BY <1>1, CaptureIsInvariant, PTL
=============================================================================
