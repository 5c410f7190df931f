---------------------------- MODULE HourlySessions ----------------------------
(***************************************************************************)
(* The session coordinator fed by the reference feed it settles by: the    *)
(* replay state of the feed (crates/reference-market-data/replay.rs), then *)
(* registrations and frames captured from it (capture_frame), while        *)
(* candles arrive late, the connection is lost and the hour changes.       *)
(***************************************************************************)
EXTENDS MarketSession, TLAPS

CONSTANTS
    MaxClock,        \* bound: the local clock
    ClockStepsBack,  \* whether the local clock may be set back
    MaxSourceId,     \* bound: ids of trades and book updates, 0 for none yet
    MaxEpochs        \* bound: connection epochs

ASSUME MaxClockAssumption == MaxClock \in Nat
ASSUME ClockStepsBackAssumption == ClockStepsBack \in BOOLEAN

-----------------------------------------------------------------------------
(***************************************************************************)
(* The replay state of the reference feed: connection epochs, the candle   *)
(* in progress and the finalized candles of every symbol, the newest trade *)
(* and book ticker.  An envelope the code refuses leaves the state as it   *)
(* was.  Sequence numbers of the journal and receive times are left out:   *)
(* the envelopes come from the journal in order.  Symbols and candles are  *)
(* the ones the sessions settle by.                                        *)
(***************************************************************************)
VARIABLES
    health,
    epoch,
    inProgress,     \* [Assets -> candle]
    lastFinalized,  \* [Assets -> candle], of this epoch
    trade,          \* [Assets -> id]
    ticker,         \* [Assets -> id]
    finalized       \* the finalized candles of all epochs, as <<symbol, candle>>

feedVars == <<health, epoch, inProgress, lastFinalized, trade, ticker, finalized>>

Cleared(v) == [s \in Assets |-> v]

ClearSymbols ==
    /\ inProgress' = Cleared(NoCandle) /\ lastFinalized' = Cleared(NoCandle)
    /\ trade' = Cleared(0) /\ ticker' = Cleared(0)

FeedInit ==
    /\ health = "Starting" /\ epoch = 0
    /\ inProgress = Cleared(NoCandle) /\ lastFinalized = Cleared(NoCandle)
    /\ trade = Cleared(0) /\ ticker = Cleared(0)
    /\ finalized = {}

Connected == health \in {"Collecting", "Ready"}

\* With the types: no symbol keeps anything past its epoch.
FeedTypeOK ==
    /\ health \in {"Starting", "Collecting", "Ready", "Disconnected", "Shutdown"}
    /\ epoch \in 0..MaxEpochs
    /\ inProgress \in [Assets -> Candle \cup {NoCandle}]
    /\ lastFinalized \in [Assets -> Candle \cup {NoCandle}]
    /\ trade \in [Assets -> 0..MaxSourceId]
    /\ ticker \in [Assets -> 0..MaxSourceId]
    /\ finalized \subseteq Assets \X Candle
    /\ ~Connected => \A s \in Assets : inProgress[s] = NoCandle /\ trade[s] + ticker[s] = 0

EpochStart ==
    /\ epoch < MaxEpochs
    /\ epoch' = epoch + 1 /\ health' = "Collecting"
    /\ ClearSymbols
    /\ UNCHANGED finalized

EpochSynced ==
    /\ health = "Collecting"
    /\ \A s \in Assets : inProgress[s] # NoCandle /\ trade[s] # 0 /\ ticker[s] # 0
    /\ health' = "Ready"
    /\ UNCHANGED <<epoch, inProgress, lastFinalized, trade, ticker, finalized>>

EpochEnds(state) ==
    /\ Connected
    /\ health' = state
    /\ ClearSymbols
    /\ UNCHANGED <<epoch, finalized>>

EpochRotateOrDisconnect == EpochEnds("Disconnected")
EpochShutdown == EpochEnds("Shutdown")

\* apply_in_progress
InProgressCandle(s, c) ==
    /\ Connected
    /\ lastFinalized[s] # NoCandle => c.hour > lastFinalized[s].hour
    /\ inProgress[s] # NoCandle => c.hour >= inProgress[s].hour
    /\ inProgress' = [inProgress EXCEPT ![s] = c]
    /\ UNCHANGED <<health, epoch, lastFinalized, trade, ticker, finalized>>

\* Wrong variant, for mutation only: what a later epoch says replaces a candle.
UnchangedEvidenceUnchecked(s, c) == TRUE

\* FinalizedCandleChanged: one candle per symbol and hour, over all epochs.
UnchangedEvidence(s, c) ==
    \A e \in finalized : e[1] = s /\ e[2].hour = c.hour => e[2] = c

\* apply_finalized, and the map of finalized candles
FinalizedCandle(s, c) ==
    /\ Connected
    /\ lastFinalized[s] # NoCandle => c.hour > lastFinalized[s].hour
    /\ inProgress[s] # NoCandle => inProgress[s].hour <= c.hour
    /\ UnchangedEvidence(s, c)
    /\ lastFinalized' = [lastFinalized EXCEPT ![s] = c]
    /\ inProgress' = [inProgress EXCEPT ![s] = IF @ # NoCandle /\ @.hour = c.hour
                                               THEN NoCandle ELSE @]
    /\ finalized' = {e \in finalized : e[1] # s \/ e[2].hour # c.hour} \cup {<<s, c>>}
    /\ UNCHANGED <<health, epoch, trade, ticker>>

AggregateTrade(s, id) ==
    /\ Connected /\ id > trade[s]
    /\ trade' = [trade EXCEPT ![s] = id]
    /\ UNCHANGED <<health, epoch, inProgress, lastFinalized, ticker, finalized>>

BookTicker(s, id) ==
    /\ Connected /\ id > ticker[s]
    /\ ticker' = [ticker EXCEPT ![s] = id]
    /\ UNCHANGED <<health, epoch, inProgress, lastFinalized, trade, finalized>>

\* finalized_candle
FinalizedAt(s, hour) ==
    LET found == {e \in finalized : e[1] = s /\ e[2].hour = hour}
    IN  IF found = {} THEN NoCandle ELSE (CHOOSE e \in found : TRUE)[2]

-----------------------------------------------------------------------------
(***************************************************************************)
(* The coordinator on this feed.  The exchange reports a candle in         *)
(* progress once its hour began and its final form once it ended; both may *)
(* arrive any time later.  The local clock may be set back.                *)
(***************************************************************************)
VARIABLE clock

vars == <<sessionVars, feedVars, clock>>

Init == SessionInit /\ FeedInit /\ clock = 0

TypeOK == SessionTypeOK /\ FeedTypeOK /\ clock \in 0..MaxClock

CurrentHour == clock \div HourTicks

\* capture_frame and capture_sources.  The supervisor is never ready without the
\* reference feed (CrossFeedSupervisor::evaluate_mode).
Capture(keys, provenance, ready, books) ==
    [now |-> clock, provenance |-> provenance, ready |-> ready /\ health = "Ready",
     sources |-> [k \in keys |->
                     [books |-> k \in books,
                      inProgress |-> inProgress[k[1]],
                      finalized |-> FinalizedAt(k[1], k[2])]]]

RegisterMarket(i) == Register(i) /\ UNCHANGED <<feedVars, clock>>

EvaluateFrame(ready, books) ==
    /\ Evaluate(Capture(DOMAIN sessions, TRUE, ready, books))
    /\ UNCHANGED <<feedVars, clock>>

\* A frame judged by another supervision, or captured before a registration.
EvaluateForeignFrame == 
    /\ Evaluate(Capture(DOMAIN sessions, FALSE, TRUE, DOMAIN sessions))
    /\ UNCHANGED <<feedVars, clock>>

EvaluateOldFrame(k) ==
    /\ Evaluate(Capture(DOMAIN sessions \ {k}, TRUE, TRUE, DOMAIN sessions))
    /\ UNCHANGED <<feedVars, clock>>

FeedStep ==
    /\ \/ EpochStart \/ EpochSynced \/ EpochRotateOrDisconnect \/ EpochShutdown
       \/ \E s \in Assets, c \in Candle :
             \/ c.hour <= CurrentHour /\ InProgressCandle(s, c)
             \/ c.hour < CurrentHour /\ FinalizedCandle(s, c)
       \/ \E s \in Assets, id \in 1..MaxSourceId : AggregateTrade(s, id) \/ BookTicker(s, id)
    /\ UNCHANGED <<sessionVars, clock>>

Tick == clock < MaxClock /\ clock' = clock + 1 /\ UNCHANGED <<sessionVars, feedVars>>

SetClockBack ==
    /\ ClockStepsBack /\ clock > 0
    /\ clock' = clock - 1
    /\ UNCHANGED <<sessionVars, feedVars>>

Next ==
    \/ \E i \in Identity : RegisterMarket(i)
    \/ \E ready \in BOOLEAN, books \in SUBSET DOMAIN sessions : EvaluateFrame(ready, books)
    \/ EvaluateForeignFrame
    \/ \E k \in DOMAIN sessions : EvaluateOldFrame(k)
    \/ FeedStep \/ Tick \/ SetClockBack

Spec == Init /\ [][Next]_vars

-----------------------------------------------------------------------------
(***************************************************************************)
(* Properties                                                              *)
(***************************************************************************)

\* A session only moves forward, from upcoming over active and awaiting its final
\* evidence to finalized, and the evidence once attached never changes, whatever
\* the feed, the clock and reconnections do.
LifecycleAdvances ==
    [][\A k \in DOMAIN sessions :
          /\ Rank(sessions'[k].reason) >= Rank(sessions[k].reason)
          /\ sessions[k].evidence # NoCandle => sessions'[k].evidence = sessions[k].evidence]_vars

\* The evidence of a session is the immutable finalized candle of its own hour, as
\* the feed has it, also after the feed reconnected.
EvidenceIsFinal ==
    \A k \in DOMAIN sessions :
        sessions[k].evidence # NoCandle =>
           <<k[1], sessions[k].evidence>> \in finalized /\ sessions[k].evidence.hour = k[2]

\* The halts of src/specs/009 are conflicting identities and a local clock that
\* goes back: with neither, rolling over from one hour to the next on the exact
\* state of the feed does not halt the coordinator.
RolloverDoesNotHalt == haltReason # "Resolution"

-----------------------------------------------------------------------------
(***************************************************************************)
(* Proofs                                                                  *)
(*                                                                         *)
(* The properties need to know more than they say: what a session shows    *)
(* follows from the time of the last frame, so that a frame that is not    *)
(* older can only move it forward, and a session has evidence exactly when *)
(* it says so.                                                             *)
(***************************************************************************)
FollowsClock(r, now) ==
    /\ Rank(r.reason) >= 1 => Started(r, now)
    /\ Rank(r.reason) >= 2 => Ended(r, now)
    /\ r.evidence # NoCandle <=> r.reason = "FinalEvidenceAvailable"

SessionsInv ==
    /\ SessionTypeOK
    /\ clock \in Nat
    /\ inProgress \in [Assets -> Candle \cup {NoCandle}]
    /\ finalized \subseteq Assets \X Candle
    /\ \A k \in DOMAIN sessions : FollowsClock(sessions[k], lastNow)
    /\ EvidenceIsFinal

\* The two ends of a session's window.
LEMMA Windows ==
    ASSUME NEW r \in SessionRecord, NEW now \in Int, NEW later \in Int, now <= later
    PROVE  /\ Ended(r, now) => Started(r, now)
           /\ Started(r, now) => Started(r, later)
           /\ Ended(r, now) => Ended(r, later)
           /\ ~Started(r, -1)
  <1> DEFINE h == r.identity.hour
  <1>1. h \in Nat
    BY HoursAssumption DEF SessionRecord, Identity
  <1>2. HourTicks \in Nat
    BY HourTicksAssumption
  <1>3. h * HourTicks \in Nat /\ (h + 1) * HourTicks = h * HourTicks + HourTicks
    BY <1>1, <1>2
  <1> HIDE DEF h
  <1>4. /\ \A n : Started(r, n) <=> h * HourTicks <= n
        /\ \A n : Ended(r, n) <=> (h + 1) * HourTicks <= n
    BY DEF Started, Ended, h
  <1> QED BY <1>2, <1>3, <1>4

\* No candle is not a candle.
LEMMA NoCandleIsNone == NoCandle \notin Candle /\ NoCandle.outcome = "None"
  BY DEF NoCandle, Candle, Outcomes

\* finalized_candle gives a finalized candle of that symbol and hour, or none.
LEMMA FinalizedFound ==
    ASSUME finalized \subseteq Assets \X Candle, NEW s, NEW hour
    PROVE  \/ FinalizedAt(s, hour) = NoCandle
           \/ /\ <<s, FinalizedAt(s, hour)>> \in finalized
              /\ FinalizedAt(s, hour) \in Candle /\ FinalizedAt(s, hour).hour = hour
  <1> DEFINE found == {e \in finalized : e[1] = s /\ e[2].hour = hour}
  <1>1. CASE found = {}
    BY <1>1 DEF FinalizedAt
  <1>2. CASE found # {}
    <2>1. PICK e \in found : FinalizedAt(s, hour) = e[2]
      BY <1>2 DEF FinalizedAt
    <2>2. e \in finalized /\ e[1] = s /\ e[2].hour = hour /\ e \in Assets \X Candle
      BY <2>1
    <2>3. e = <<s, e[2]>> /\ e[2] \in Candle
      BY <2>2
    <2> QED BY <2>1, <2>2, <2>3
  <1> QED BY <1>1, <1>2

\* What evaluate makes of one session: it keeps its identity, does not move back, keeps
\* its evidence or takes the finalized candle.
LEMMA SteppedAdvances ==
    ASSUME NEW r \in SessionRecord, NEW last \in Nat \cup {-1}, NEW now \in Nat, last <= now,
           FollowsClock(r, last), NEW source, NEW ready,
           source.inProgress \in Candle \cup {NoCandle},
           source.finalized \in Candle \cup {NoCandle}, CanStep(r, source, now)
    PROVE  LET q == Stepped(r, source, ready, now)
           IN  /\ q \in SessionRecord /\ q.identity = r.identity
               /\ FollowsClock(q, now)
               /\ Rank(q.reason) >= Rank(r.reason)
               /\ r.evidence # NoCandle => q.evidence = r.evidence
               /\ q.evidence \in {r.evidence, source.finalized}
  <1> DEFINE q == Stepped(r, source, ready, now)
  <1>0. /\ Ended(r, now) => Started(r, now)
        /\ Started(r, last) => Started(r, now)
        /\ Ended(r, last) => Ended(r, now)
    BY Windows
  <1>1. \A x : /\ x.identity = r.identity =>
                     (Started(x, now) <=> Started(r, now)) /\ (Ended(x, now) <=> Ended(r, now))
    BY DEF Started, Ended
  <1>2. CASE ~Started(r, now)
    <2>1. q = [r EXCEPT !.reason = "BeforeWindow", !.indicative = "None"]
      BY <1>0, <1>2 DEF Stepped, Active
    <2>2. q \in SessionRecord /\ q.identity = r.identity /\ q.reason = "BeforeWindow"
             /\ q.evidence = r.evidence
      BY <2>1 DEF SessionRecord, Reasons
    <2>3. r.reason \in Reasons /\ Rank(r.reason) < 1
      BY <1>0, <1>2 DEF FollowsClock, SessionRecord, Rank, Reasons
    <2>4. r.reason = "BeforeWindow"
      BY <2>3 DEF Rank, Reasons
    <2> QED BY <2>2, <2>4 DEF FollowsClock, Rank
  <1>3. CASE Active(r, now)
    <2>1. q = [r EXCEPT !.reason = ActiveReason(source, ready),
                        !.indicative = source.inProgress.outcome]
      BY <1>0, <1>3 DEF Stepped, Active
    <2>2. /\ ActiveReason(source, ready) \in Reasons /\ Rank(ActiveReason(source, ready)) = 1
          /\ ActiveReason(source, ready) # "FinalEvidenceAvailable"
      BY DEF ActiveReason, Reasons, Rank
    <2>3. source.inProgress.outcome \in Outcomes \cup {"None"}
      BY NoCandleIsNone DEF Candle
    <2>4. q \in SessionRecord /\ q.identity = r.identity /\ q.reason = ActiveReason(source, ready)
             /\ q.evidence = r.evidence
      BY <2>1, <2>2, <2>3 DEF SessionRecord
    <2>5. Rank(r.reason) \in {0, 1}
      BY <1>0, <1>3 DEF FollowsClock, Active, Rank
    <2>6. r.evidence = NoCandle
      BY <2>5 DEF FollowsClock, Rank
    <2> QED BY <1>1, <1>3, <2>2, <2>4, <2>5, <2>6 DEF FollowsClock, Active
  <1>4. CASE Ended(r, now)
    <2> DEFINE e == IF source.finalized = NoCandle THEN r.evidence ELSE source.finalized
               t == IF e = NoCandle THEN "WindowEnded" ELSE "FinalEvidenceAvailable"
    <2>1. q = [r EXCEPT !.reason = t, !.indicative = "None", !.evidence = e]
      BY <1>0, <1>4 DEF Stepped, Active
    <2>2. e \in Candle \cup {NoCandle} /\ e \in {r.evidence, source.finalized}
      BY DEF SessionRecord
    <2>3. r.evidence # NoCandle => e = r.evidence
      BY <1>4 DEF CanStep
    <2>4. t \in Reasons /\ Rank(t) \in {2, 3} /\ (e # NoCandle <=> t = "FinalEvidenceAvailable")
      BY DEF Reasons, Rank
    <2>5. Rank(r.reason) \in 0..3 /\ (Rank(r.reason) = 3 => r.evidence # NoCandle)
      BY DEF FollowsClock, Rank
    <2>6. e # NoCandle => Rank(t) = 3
      BY DEF Rank
    <2>7. Rank(t) >= Rank(r.reason)
      <3>1. CASE Rank(r.reason) = 3
        BY <3>1, <2>3, <2>5, <2>6
      <3>2. CASE Rank(r.reason) # 3
        BY <3>2, <2>4, <2>5
      <3> QED BY <3>1, <3>2
    <2> HIDE DEF e, t
    <2>8. q \in SessionRecord /\ q.identity = r.identity /\ q.reason = t /\ q.evidence = e
      BY <2>1, <2>2, <2>4 DEF SessionRecord
    <2> QED BY <1>0, <1>1, <1>4, <2>2, <2>3, <2>4, <2>7, <2>8 DEF FollowsClock
  <1> QED BY <1>2, <1>3, <1>4 DEF Active

\* A frame that evaluate accepts is not older than the last and steps every session by the
\* candles the feed has; another halts the coordinator and changes nothing else.
LEMMA EvaluateSteps ==
    ASSUME SessionsInv, NEW keys, NEW provenance, NEW ready, NEW books,
           Evaluate(Capture(keys, provenance, ready, books))
    PROVE  /\ haltReason' \in HaltReasons
           /\ \/ UNCHANGED <<sessions, lastNow>>
              \/ /\ lastNow <= clock /\ lastNow' = clock
                 /\ DOMAIN sessions' = DOMAIN sessions
                 /\ \A k \in DOMAIN sessions : \E source, able :
                        /\ source.inProgress = inProgress[k[1]]
                        /\ source.finalized = FinalizedAt(k[1], k[2])
                        /\ CanStep(sessions[k], source, clock)
                        /\ sessions'[k] = Stepped(sessions[k], source, able, clock)
  <1> DEFINE f == Capture(keys, provenance, ready, books)
  <1>1. f.now = clock /\ DOMAIN f.sources = keys
    BY DEF Capture
  <1>2. \A k \in keys : /\ f.sources[k].inProgress = inProgress[k[1]]
                        /\ f.sources[k].finalized = FinalizedAt(k[1], k[2])
    BY DEF Capture
  <1> HIDE DEF f
  <1>3. haltReason' = FrameVerdict(f) /\ FrameVerdict(f) \in HaltReasons
    BY DEF f, Evaluate, FrameVerdict, HaltReasons
  <1>4. CASE haltReason' # "None"
    BY <1>3, <1>4 DEF Evaluate, f
  <1>5. CASE haltReason' = "None"
    <2>1. FrameVerdict(f) = "None"
      BY <1>3, <1>5
    <2>2. ~ClockRegressed(f)
      BY <2>1 DEF FrameVerdict
    <2>3. f.provenance
      BY <2>1, <2>2 DEF FrameVerdict
    <2>4. DOMAIN f.sources = DOMAIN sessions
      BY <2>1, <2>2, <2>3 DEF FrameVerdict
    <2>5. \A k \in DOMAIN sessions : CanStep(sessions[k], f.sources[k], f.now)
      BY <2>1, <2>2, <2>3, <2>4 DEF FrameVerdict
    <2>6. /\ sessions' = [k \in DOMAIN sessions |->
                            Stepped(sessions[k], f.sources[k], f.ready, f.now)]
          /\ lastNow' = f.now
      BY <1>5 DEF Evaluate, f
    <2>7. lastNow <= clock
      BY <1>1, <2>2 DEF ClockRegressed, SessionsInv, SessionTypeOK
    <2>8. \A k \in DOMAIN sessions :
              /\ f.sources[k].inProgress = inProgress[k[1]]
              /\ f.sources[k].finalized = FinalizedAt(k[1], k[2])
              /\ CanStep(sessions[k], f.sources[k], clock)
              /\ sessions'[k] = Stepped(sessions[k], f.sources[k], f.ready, clock)
      BY <1>1, <1>2, <2>4, <2>5, <2>6
    <2> QED BY <1>1, <1>3, <2>6, <2>7, <2>8
  <1> QED BY <1>4, <1>5

\* What one step of evaluate does to each session of the invariant.
LEMMA EvaluateAdvances ==
    ASSUME SessionsInv, NEW keys, NEW provenance, NEW ready, NEW books,
           Evaluate(Capture(keys, provenance, ready, books)),
           UNCHANGED <<feedVars, clock>>
    PROVE  /\ SessionsInv'
           /\ \A k \in DOMAIN sessions :
                  /\ Rank(sessions'[k].reason) >= Rank(sessions[k].reason)
                  /\ sessions[k].evidence # NoCandle =>
                         sessions'[k].evidence = sessions[k].evidence
  <1>0. /\ UNCHANGED <<clock, inProgress, finalized>>
        /\ \A k \in DOMAIN sessions : sessions[k] \in SessionRecord /\ k \in Slots
                 /\ Slot(sessions[k].identity) = k /\ FollowsClock(sessions[k], lastNow)
    BY DEF feedVars, SessionsInv, SessionTypeOK
  <1>1. CASE UNCHANGED <<sessions, lastNow>>
    <2>1. SessionsInv'
      BY <1>0, <1>1, EvaluateSteps DEF SessionsInv, SessionTypeOK, EvidenceIsFinal
    <2>2. \A k \in DOMAIN sessions : Rank(sessions[k].reason) \in Nat
      BY DEF Rank
    <2> QED BY <1>1, <2>1, <2>2
  <1>2. CASE /\ lastNow <= clock /\ lastNow' = clock
             /\ DOMAIN sessions' = DOMAIN sessions
             /\ \A k \in DOMAIN sessions : \E source, able :
                    /\ source.inProgress = inProgress[k[1]]
                    /\ source.finalized = FinalizedAt(k[1], k[2])
                    /\ CanStep(sessions[k], source, clock)
                    /\ sessions'[k] = Stepped(sessions[k], source, able, clock)
    <2>1. ASSUME NEW k \in DOMAIN sessions
          PROVE  /\ sessions'[k] \in SessionRecord
                 /\ sessions'[k].identity = sessions[k].identity
                 /\ FollowsClock(sessions'[k], clock)
                 /\ Rank(sessions'[k].reason) >= Rank(sessions[k].reason)
                 /\ sessions[k].evidence # NoCandle =>
                        sessions'[k].evidence = sessions[k].evidence
                 /\ sessions'[k].evidence \in {sessions[k].evidence, FinalizedAt(k[1], k[2])}
      <3>1. PICK source, able :
                 /\ source.inProgress = inProgress[k[1]]
                 /\ source.finalized = FinalizedAt(k[1], k[2])
                 /\ CanStep(sessions[k], source, clock)
                 /\ sessions'[k] = Stepped(sessions[k], source, able, clock)
        BY <1>2
      <3>2. source.inProgress \in Candle \cup {NoCandle}
        BY <1>0, <3>1 DEF SessionsInv, Slots
      <3>3. source.finalized \in Candle \cup {NoCandle}
        <4>1. finalized \subseteq Assets \X Candle
          BY DEF SessionsInv
        <4>2. FinalizedAt(k[1], k[2]) = NoCandle \/ FinalizedAt(k[1], k[2]) \in Candle
          BY <4>1, FinalizedFound, Zenon
        <4> QED BY <3>1, <4>2
      <3>4. sessions[k] \in SessionRecord /\ lastNow \in Nat \cup {-1} /\ clock \in Nat
        BY <1>0 DEF SessionsInv, SessionTypeOK
      <3> QED BY <1>0, <1>2, <3>1, <3>2, <3>3, <3>4, SteppedAdvances
    <2>2. SessionTypeOK'
      BY <1>0, <1>2, <2>1, EvaluateSteps DEF SessionsInv, SessionTypeOK, Slot
    <2>3. EvidenceIsFinal'
      <3> SUFFICES ASSUME NEW k \in DOMAIN sessions, sessions'[k].evidence # NoCandle
                   PROVE  /\ <<k[1], sessions'[k].evidence>> \in finalized
                          /\ sessions'[k].evidence.hour = k[2]
        BY <1>0, <1>2 DEF EvidenceIsFinal
      <3>1. CASE sessions'[k].evidence = sessions[k].evidence
        BY <3>1 DEF SessionsInv, EvidenceIsFinal
      <3>2. CASE sessions'[k].evidence = FinalizedAt(k[1], k[2])
        BY <3>2, FinalizedFound DEF SessionsInv
      <3> QED BY <2>1, <3>1, <3>2
    <2> QED BY <1>0, <1>2, <2>1, <2>2, <2>3 DEF SessionsInv
  <1> QED BY <1>1, <1>2, EvaluateSteps

\* register adds a new session or changes none.
LEMMA RegisterAdvances ==
    ASSUME SessionsInv, NEW i \in Identity, RegisterMarket(i)
    PROVE  SessionsInv' /\ \A k \in DOMAIN sessions : sessions'[k] = sessions[k]
  <1>0. UNCHANGED <<clock, inProgress, finalized, lastNow>> /\ haltReason' \in HaltReasons
    BY DEF RegisterMarket, Register, RegisterVerdict, HaltReasons, feedVars
  <1>1. CASE UNCHANGED sessions
    BY <1>0, <1>1 DEF SessionsInv, SessionTypeOK, EvidenceIsFinal
  <1>2. CASE sessions' = [k \in DOMAIN sessions \cup {Slot(i)} |->
                             IF k \in DOMAIN sessions THEN sessions[k] ELSE Fresh(i)]
    <2>1. DOMAIN sessions' = DOMAIN sessions \cup {Slot(i)} /\ Slot(i) \in Slots
      BY <1>2 DEF Slot, Slots, Identity
    <2>2. \A k \in DOMAIN sessions' : \/ k \in DOMAIN sessions /\ sessions'[k] = sessions[k]
                                      \/ k \notin DOMAIN sessions /\ sessions'[k] = Fresh(i)
                                         /\ k = Slot(i)
      BY <1>2
    <2>3. /\ Fresh(i) \in SessionRecord /\ Fresh(i).identity = i
          /\ Fresh(i).evidence = NoCandle /\ Fresh(i).reason = "BeforeWindow"
      BY DEF Fresh, SessionRecord, Reasons
    <2>4. FollowsClock(Fresh(i), lastNow)
      BY <2>3 DEF FollowsClock, Rank
    <2>5. SessionTypeOK'
      BY <1>0, <2>1, <2>2, <2>3 DEF SessionsInv, SessionTypeOK
    <2>6. EvidenceIsFinal'
      BY <1>0, <2>2, <2>3 DEF SessionsInv, EvidenceIsFinal
    <2>7. /\ \A k \in DOMAIN sessions' : FollowsClock(sessions'[k], lastNow')
          /\ \A k \in DOMAIN sessions : sessions'[k] = sessions[k]
      BY <2>1, <1>0, <2>2, <2>4 DEF SessionsInv
    <2> QED BY <1>0, <2>5, <2>6, <2>7 DEF SessionsInv
  <1> QED BY <1>1, <1>2 DEF RegisterMarket, Register

\* The feed keeps the finalized candles it has: a candle said again in a later epoch is the
\* same.
LEMMA FeedKeepsEvidence ==
    ASSUME SessionsInv, FeedStep
    PROVE  SessionsInv' /\ UNCHANGED sessionVars
  <1>1. /\ inProgress' \in [Assets -> Candle \cup {NoCandle}]
        /\ finalized' \subseteq Assets \X Candle /\ finalized \subseteq finalized'
    <2>1. CASE EpochStart \/ EpochSynced \/ EpochRotateOrDisconnect \/ EpochShutdown
      BY <2>1 DEF SessionsInv, EpochStart, EpochSynced, EpochRotateOrDisconnect, EpochShutdown,
           EpochEnds, ClearSymbols, Cleared
    <2>2. ASSUME NEW s \in Assets, NEW c \in Candle, InProgressCandle(s, c)
          PROVE  /\ inProgress' \in [Assets -> Candle \cup {NoCandle}]
                 /\ finalized' \subseteq Assets \X Candle /\ finalized \subseteq finalized'
      BY <2>2 DEF SessionsInv, InProgressCandle
    <2>3. ASSUME NEW s \in Assets, NEW c \in Candle, FinalizedCandle(s, c)
          PROVE  /\ inProgress' \in [Assets -> Candle \cup {NoCandle}]
                 /\ finalized' \subseteq Assets \X Candle /\ finalized \subseteq finalized'
      <3>1. inProgress' \in [Assets -> Candle \cup {NoCandle}]
        BY <2>3 DEF SessionsInv, FinalizedCandle
      <3>2. finalized' = {e \in finalized : e[1] # s \/ e[2].hour # c.hour} \cup {<<s, c>>}
        BY <2>3 DEF FinalizedCandle
      <3>3. finalized \subseteq finalized'
        <4> SUFFICES ASSUME NEW e \in finalized, e[1] = s, e[2].hour = c.hour
                     PROVE  e = <<s, c>>
          BY <3>2
        <4>1. e[2] = c
          BY <2>3 DEF FinalizedCandle, UnchangedEvidence
        <4> QED BY <4>1 DEF SessionsInv
      <3> QED BY <3>1, <3>2, <3>3 DEF SessionsInv
    <2>4. ASSUME NEW s \in Assets, NEW id, AggregateTrade(s, id) \/ BookTicker(s, id)
          PROVE  UNCHANGED <<inProgress, finalized>>
      BY <2>4 DEF AggregateTrade, BookTicker
    <2> QED BY <2>1, <2>2, <2>3, <2>4 DEF FeedStep, SessionsInv
  <1>2. UNCHANGED <<sessions, lastNow, haltReason, clock>>
    BY DEF FeedStep, sessionVars
  <1> QED BY <1>1, <1>2 DEF SessionsInv, SessionTypeOK, EvidenceIsFinal, sessionVars

\* Every step preserves the invariant and moves no session back.
LEMMA SessionsAdvance ==
    ASSUME SessionsInv, [Next]_vars
    PROVE  /\ SessionsInv'
           /\ \A k \in DOMAIN sessions :
                  /\ Rank(sessions'[k].reason) >= Rank(sessions[k].reason)
                  /\ sessions[k].evidence # NoCandle =>
                         sessions'[k].evidence = sessions[k].evidence
  <1>0. \A k \in DOMAIN sessions : Rank(sessions[k].reason) \in Nat
    BY DEF Rank
  <1>1. ASSUME NEW i \in Identity, RegisterMarket(i)
        PROVE  SessionsInv' /\ \A k \in DOMAIN sessions : sessions'[k] = sessions[k]
    BY <1>1, RegisterAdvances
  <1>2. CASE \E keys, provenance, ready, books :
                Evaluate(Capture(keys, provenance, ready, books)) /\ UNCHANGED <<feedVars, clock>>
    <2>1. PICK keys, provenance, ready, books :
                Evaluate(Capture(keys, provenance, ready, books)) /\ UNCHANGED <<feedVars, clock>>
      BY <1>2
    <2> QED BY <2>1, EvaluateAdvances
  <1>3. CASE FeedStep
    BY <1>0, <1>3, FeedKeepsEvidence DEF sessionVars
  <1>4. CASE Tick \/ SetClockBack
    <2>1. UNCHANGED <<sessions, lastNow, haltReason, inProgress, finalized>> /\ clock' \in Nat
      BY <1>4 DEF Tick, SetClockBack, SessionsInv, sessionVars, feedVars
    <2> QED BY <1>0, <2>1 DEF SessionsInv, SessionTypeOK, EvidenceIsFinal
  <1>5. CASE UNCHANGED vars
    BY <1>0, <1>5 DEF vars, sessionVars, feedVars, SessionsInv, SessionTypeOK, EvidenceIsFinal
  <1>6. (\E ready \in BOOLEAN, books \in SUBSET DOMAIN sessions : EvaluateFrame(ready, books))
        \/ EvaluateForeignFrame \/ (\E k \in DOMAIN sessions : EvaluateOldFrame(k))
        => \E keys, provenance, ready, books :
              Evaluate(Capture(keys, provenance, ready, books)) /\ UNCHANGED <<feedVars, clock>>
    BY DEF EvaluateFrame, EvaluateForeignFrame, EvaluateOldFrame
  <1> QED BY <1>0, <1>1, <1>2, <1>3, <1>4, <1>5, <1>6 DEF Next

\* The initial states satisfy the invariant.
LEMMA SessionsInvInit == Init => SessionsInv
  BY DEF Init, SessionInit, FeedInit, Cleared, SessionsInv, SessionTypeOK, EvidenceIsFinal, HaltReasons

\* For every set of assets, hours and conditions, every registration and every feed: the
\* evidence of a session is the finalized candle of its own hour.
THEOREM EvidenceStaysFinal == Spec => []EvidenceIsFinal
  <1>1. SessionsInv => EvidenceIsFinal
    BY DEF SessionsInv
  <1>2. SessionsInv /\ [Next]_vars => SessionsInv'
    BY SessionsAdvance
  <1> QED BY <1>1, <1>2, SessionsInvInit, PTL DEF Spec

\* And no session ever moves back or changes its evidence.
THEOREM SessionsOnlyAdvance == Spec => LifecycleAdvances
  <1>1. SessionsInv /\ [Next]_vars => SessionsInv'
    BY SessionsAdvance
  <1>2. SessionsInv /\ [Next]_vars =>
          [\A k \in DOMAIN sessions :
              /\ Rank(sessions'[k].reason) >= Rank(sessions[k].reason)
              /\ sessions[k].evidence # NoCandle =>
                     sessions'[k].evidence = sessions[k].evidence]_vars
    BY SessionsAdvance
  <1> QED BY <1>1, <1>2, SessionsInvInit, PTL DEF Spec, LifecycleAdvances
=============================================================================
