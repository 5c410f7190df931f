# A verification project for Poly Trading

TLA+ models of the trading core in `src/crates/`, the TLC configurations that
check them on small instances, and TLAPS proofs about the ledger, the journal,
the owners, the trading path and the sessions. Paths of the form `src/...` are
relative to the repository root.

## 1. The system

The repository is a Rust workspace of some sixty crates. Its core is a family of
deterministic single-writer state machines, each owned by a journal-first
wrapper, that turn public market data into (paper) orders and their accounting,
and that record the evidence under which a later stage may be switched on.

```
 market data                     trading path                        settlement
 -----------                     ------------                        ----------
 public-market-data         strategy-proposal                settlement-reconciliation
   | journal, channel             | proposal                      ^  | ready / risk gate
 live-market-state          portfolio-risk                intents |  v
 order-book-replay                | approval                      |  accounting-ledger
                            order-intent-policy                   |
 reference-market-data            | permit                        |
   |                        paper-execution --- handoffs ---------+
 market-session             (all under paper-trading-runtime)
   |
 session-runtime            paired path: complete-set-arbitrage -> paired-opportunity
                            -> capital-staging -> placement-policy -> paper-execution
                            -> settlement -> ctf-transaction   (all under
                            unified-paired-trading-runtime)

 certification and rollout: transport, credential, gateway, shadow session, chain and
 venue observation, executor session, intents, canary, fleet, change control,
 orchestration.       Every owner journals to market-recorder.
```

### Components, their state and operations

| Component | State | Operations | What is hard about it |
|---|---|---|---|
| accounting-ledger | balances by account and asset, reservations, cost positions, pair locks, processed commands, halt | `apply` of ten commands: fund, reserve, release, confirm buy, sell, split, merge and redemption, lock a pair | one transaction per command over many accounts; rounding of partial disposals; duplicate and conflicting ids |
| every `durable.rs` | the engine, a journal writer, poison, a checkpoint file | `apply`, `sync`, `write_checkpoint`, `recover_segmented` | failures and crashes between append, sync and installation |
| market-recorder | a directory of segments of framed records; writer position | append, rotate, sync, open, read, `recover_truncated_tail` | torn records and headers, crashes inside a rotation |
| public-market-data, live-market-state, order-book-replay | connection, sequence number, pending events; bounded channel; books by epoch, mode, freshness; checkpoint file | connect, receive, append and deliver, markers, health tick, replay, checkpoint | three tasks around one journal; epochs; lost records whose numbers are used again; a wall clock that moves |
| reference-market-data, market-session, resolution-rules | connection epoch, candles; sessions by slot, last time, halt | apply an envelope, register, evaluate a captured frame | reconnections, the turn of the hour, clocks, changed history |
| session-runtime | bounded channel, task, watch snapshot, journal, checkpoint files | register, coordinate, checkpoint, shutdown, spawn with replay | concurrent senders, shutdown, failures inside the task |
| settlement-reconciliation | intents, venue trades, last frame, mode | register intent, observe trade, reconcile a frame | late, repeated, contradictory venue reports; ledger and chain seen at different times |
| order-intent-policy | venue mode, tracked orders, spent approvals | observe mode, authorize placement and cancel, lifecycle marks | reuse of approvals, expiry, delays and uncancellable intervals |
| paper-execution | orders with fills and handoffs, spent permits | submit, request cancel, observe an exchange event | lost reports, unknown outcomes, cancels racing fills, exact quantities |
| portfolio-risk | decisions | evaluate a request over every scenario of fills, resolutions and shocks | a partial fill stands for all partial fills, with rounding |
| paper-trading-runtime | the engines above under one writer, an injected fault | route a command, derive follow-ups, validate the boundary to the ledger | follow-ups between engines that must agree |
| strategy-proposal, complete-set-arbitrage, paired-opportunity | proposals, plans and decisions | evaluate | fresh inputs, levels and fees with both roundings |
| paired staging, placement, execution, settlement, CTF, unified runtime | stages, legs, permits, orders, handoffs, merges, splits and redemptions, a latched fault | stage, fund, reserve, authorize, submit, observe, register, post, finalize, convert | two legs that must end together or be unwound, across seven engines that each keep their own view |
| shadow-auth, executor session | lease, session, request | open, heartbeat, observe, lose, recover | a timeout racing a late answer |
| credential broker, execution intent, change control, canary, fleet, orchestration | approvals, permits, stages, health frames | register, approve, revoke, advance, pause, restart, recover, roll back | approvals that lapse, trouble while paused, a crash inside a rollback |
| gateway, transport, chain observer, read-only venue | evidence in a required order, a report file | record, fail, recover, finalize | unknown outcomes, reorganisations, older epochs |

Interactions are calls of one owner by another and values carried over: an
approval digest from risk to policy, a permit from policy to execution, a
handoff from execution to the reconciler, ledger snapshots in reconciliation
frames, feed snapshots in session frames. Concurrency is in the actors
(`session-runtime`, `live-market-state` with its WebSocket session), in the
processes that share files, and in crashes. `PROJECT.json` lists every component,
also those that are not modelled, and the hazards with their lines.

### What makes a component correct

- Ledger: every account is explained by the reservations, locks and cost
  positions; nothing is overdrawn; value is conserved; a command id has one
  content.
- Journal: what was synced stays, in order; the directory is one durable log.
- Owners: what a caller was told is durable; a restart rebuilds the state that
  was live or is refused for a named reason.
- Market data: live books are the replayed ones; a book belongs to the current
  epoch; a crossed book is not trusted; silence is noticed.
- Reconciler: readiness means that ledger, venue and chain agreed and nothing
  changed since; no posting before finality; a final trade stays final.
- Risk, policy, execution: an approval holds for every fill and is spent once;
  times are respected; fills are exact and handed off once; an order ends only
  when the exchange says so.
- Paired path: no engine ever takes half a pair for a whole one.
- Sessions: a session only moves forward and its evidence is final; an accepted
  shutdown ends the actor.
- Governance: leases and permits are exclusive and used once; trouble stops a
  rollout until someone answers for it; a report says what was recorded.

## 2. Modules

| Module | Models | Correspondence |
|---|---|---|
| `AccountingLedger` | accounting-ledger `lib.rs` | one variable per field of `AccountingLedger`; `Can...` is the handler's validation, the action of the same name its effect, `...Postings` its transaction, `Post` the `post` of every leg; `Apply` is `apply` with `validate_command` first, then duplicates, conflicts and the halt |
| `DurableLog` | trait `EventJournal` | abstract: append, sync, lose an unsynced tail |
| `SegmentedJournal` | market-recorder | segments as records with a synced prefix and a torn tail; rotation is several steps, a crash may fall between any two; with its proofs |
| `JournalFirst` | the journal side of every `durable.rs` | journal, phase of the owner, failing calls, crashes, replay |
| `DurableLedger` | accounting-ledger `durable.rs` | `AccountingLedger` with `JournalFirst`, the checkpoint and `recover_segmented` |
| `AccountingLedgerProofs` | | theorems about the ledger and its durable owner |
| `EngineOwner` | the text that the other engines and their `durable.rs` share | see below |
| `EngineOwnerProofs` | | theorems about the owner of any engine |
| `SettlementReconciliation`, `OrderIntentPolicy`, `PaperExecution`, `PortfolioRisk`, `PaperTradingRuntime`, `StrategyProposal`, `CompleteSetArbitrage`, `PairedOpportunity`, `PairedCapitalStaging`, `PairedPlacementPolicy`, `PairedPaperExecution`, `PairedSettlement`, `CtfTransaction`, `UnifiedPairedTrading` | the crate of the same name | extend `EngineOwner`; the engines of the paired path are composed by `INSTANCE`: a later one holds the state of the earlier ones as a field and calls their operators, as the crates do |
| `ShadowAuthSession`, `SubmissionGateway`, `CredentialBroker`, `TransportCertification`, `ExecutorSession`, `ExecutionIntent`, `CanaryRollout`, `FleetGovernance`, `ChangeControl`, `DeploymentOrchestrator`, `ChainObserver`, `ReadOnlyVenue`, `ControlledRelease` | the certification and governance crates | extend `EngineOwner` |
| `TradingEngines` | order-intent-policy, paper-execution, settlement-reconciliation, paper-trading-runtime side by side | each under its owner on any commands of its crate, as `MCEngines` extends it with the other engines |
| `TradingProofs` | | theorems about these four |
| `MarketCapture` | public-market-data `websocket.rs`, live-market-state, order-book-replay, the recorder's `main` | the replay state as a record, `CanApply` and `Applied` for one envelope, replay and checkpoint over a sequence; session, journal, channel, actor and wall clock as one system; replay is a recursive function over a step of the replay (`ReplayStep`), so that it can be proved about; with its proofs |
| `MarketSession` | market-session, resolution-rules, the candles they use | one variable per field of the coordinator |
| `HourlySessions` | reference-market-data `replay.rs`, `capture_frame` and the clock | extends `MarketSession`; one variable per field of `ReferenceReplayState`, the map of symbols split by field; with its proofs |
| `SessionRuntime` | session-runtime | `MarketSession` with `JournalFirst`, the channel and the task; with its proofs |

`MC...` modules give the constants of a run; `MCEngines` has the stories of all
engines, for the runs of `Trading.cfg`, `Governance.cfg`, `SettlementHalt.cfg` and
`PaperTradingRelease.cfg`. The `map` of `PROJECT.json` gives a guard `Can<Op>` and
the helpers of an operation the lines of the operation. Operators marked "Wrong variant, for
mutation only" or "As a bug would write it" are plausible errors; `PROJECT.json`
says which property each one breaks. No module uses them otherwise.

### An engine and its owner

Some forty crates consist of the same two files: `lib.rs`, an engine with an
`apply`, and `durable.rs`, its journal-first owner. `EngineOwner` has what they
share; a module that extends it adds

- `IsPolicy`, `IsCommand` and the predicates they use: the policy, the commands and
  the structs they carry, with the fields that the model keeps of each. The two
  suites assume them of every story (`StoriesAssumption`);
- `Initial`, the engine's own fields as one record in the variable `state`;
- for each command `Can<Command>(c)`, the checks of its handler in the code's
  terms, and `<Command>(c)`, the change of the fields and the status of the
  decision (`Decide`);
- `Possible(c)`, the disjunction of the checks: a command for which it fails is
  the integrity failure that halts the engine;
- `Apply(c)`, which is one of two texts. `ApplyIdFirst` recognises a repeated
  command by its id before it looks at the clock; `ApplyClockFirst` refuses a
  command older than the last one first, so the retry of an older accepted
  command halts the engine. Both are in use in the repository and the modules
  follow their crate.

The owner appends a command (`JournalCommand`), syncs it and applies it
(`InstallCommand`); appends and syncs fail and poison it; power is lost with any
suffix that was not synced; `recover_segmented` replays (`RecoverWith`), compares
the checkpoint's digest on the way, and refuses an entry after a halt; the
operator's files are created new and torn when their writer dies (`CreateNew`).
Three constants bound this. `Commands` is the story of the run: a set of commands
with times of record, of which any sequence that the clock allows is taken. A
command stands for one whose own digest verifies.
`FaultsAt` are the journal lengths at which storage, process and callers
misbehave, `Strays` the commands that then come late, twice or after a halt, and
`CheckpointAt` the length at which a checkpoint is written. The faults are the
same at every length because the owner's code never looks at it; the lengths of
the runs are chosen so that replay crosses the interesting states of each engine.

### Abstractions

- Digests, hashes and codecs are the values they identify. A command id with
  another digest is a command record with the same id that differs.
- Amounts are integers. The i128 and i64 bounds of the code are far above any
  amount of money and are left out. Divisions round exactly as in the code.
- The ledger recomputes `verify_invariants` on every candidate and refuses it
  when a check fails. The model installs the candidate without that backstop:
  the checks are its invariants, so a run or a proof shows that the backstop
  never fires.
- Reasons of denials and errors are kept where a later step depends on them.
- The clock of an engine is the `recorded_at` of its commands. `HourlySessions`
  and `MarketCapture` have a clock of their own, in ticks.
- A power loss keeps what was synced and any prefix of the rest; a process crash
  keeps everything that was written and syncs nothing.
- `SessionRuntime`, `EngineOwner` and `MarketCapture` take their journal as one
  sequence; that segments implement it is the run `journal`.
- Dossiers, receipts and reports that one crate hands to the next are records of
  the fields that the receiving checks read. A check that a digest recomputes is
  true of every record the stories contain, except where a story has a forged
  one.
- `PaperTradingRuntime` takes its components by the transitions their own modules
  let through, for one order. The paired modules compose the real ones.

## 3. Runs

The longest run takes two to three minutes on two cores.

| Run | Question | Instance and why it is enough |
|---|---|---|
| `ledger` | can any order of commands leave accounts unexplained? | one market with two tokens, three reservations, a lock, 15 commands over 13 ids with amounts that do not divide, a zero amount and a reused id: partial fills, a release after a partial fill, sells after a lock and a halt all occur. Every set of commands can be applied in every order, the bound is the set |
| `journal` | what survives crashes, rotations and recovery? | three events of two sizes, two records or three units a segment: a rotation for either reason |
| `durable_ledger` | does the owner keep its promises across crashes? | four journal entries that depend on each other, a conflicting id, both kinds of crash, any number of crashes and restarts |
| `hourly_sessions` | do sessions move forward on the right evidence? | two hours of one asset, the clock before, in and after both, two connections, both outcomes of every candle, foreign and outdated frames, a clock that is set back |
| `session_runtime` | is what the actor shows reproducible, does it stop? | a channel of two, three entries, one checkpoint path, foreign checkpoints, failing appends, syncs and checkpoints, process crashes and power losses |
| `market_capture` | are live books the replayed ones, and is silence noticed? | two tokens or one, three kinds of message, five records, a channel of two, one trouble (lost connection, failed append or sync, refused send, crash) of any kind at any point; a clock that goes on and is set back for the single-file journal. One tick is longer than the staleness budget |
| `trading` | is anything spent, filled, posted or paired wrongly on the way from proposal to settlement? | fourteen engines, each on its own story; the stories hold the legal path, the races of its reports and the commands that must be refused |
| `governance` | is a lease, permit, rollout or report ever unwarranted? | thirteen engines, as above |

The two suites choose the engine in the initial state: a behaviour is one of one
engine, and the suites are unions of independent state spaces that share the
owner. The engines of a composition (`UnifiedPairedTrading` holds staging,
placement, execution, settlement and CTF; `PaperTradingRuntime` holds risk,
policy, execution, reconciler and ledger) are checked together in the story of
the composing engine.

Properties, by run (each is stated in words above its definition):

- `ledger`: `CommandsCountOnce` (whatever is redelivered or in conflict, the totals of
  the books are sums over the accepted commands, one per id and each counted once),
  `Conservation`, `ReservationBacked`, `LockBacked`, `InventoryBacked`, `CostBacked`,
  `NoOverdraft`.
- `journal`: `AckedEventsSurvive` and the refinement `ImplementsDurableLog`.
- `durable_ledger`: `AcknowledgedSurvive`, `BooksMatchJournal` (a live owner stands
  where its last completed call or restart left it, with the commands of its journal
  and no others, and a replay that has come as far has rebuilt the same balances,
  reservations, costs, locks and halt flag), and the
  refinement `ImplementsLedger`: under the mapping of the last completed call,
  each completed call or restart is a step of `AccountingLedger`, except that a
  restart goes back when a power loss took an entry that a process crash had left
  unsynced.
- `hourly_sessions`: `EvidenceIsFinal`, `LifecycleAdvances`.
- `session_runtime`: `RestartReproduces` (what a snapshot or a checkpoint attests,
  every later restart passes through, with the same digest) and the liveness property
  `ShutdownEnds`.
- `market_capture`: `LiveIsReplay` (the running actor holds the offline replay of
  what left the channel), `BooksAreCurrent`, `AuthorityIsSound`,
  `CheckpointAgrees` (a checkpoint that replay accepts is a state of the whole
  journal, also after numbers were used again), and the liveness property
  `StaleIsNoticed`.
- `trading`: `ReadinessIsAgreed`, `TradesAreFinalOnce` (reconciler);
  `ApprovalsSpentOnce`, `OrdersFollowTheirPermits` (policy); `FillsExact`,
  `OrdersAreAsReported` (execution); `OpenOrdersAreBacked`, `ConfirmationsAreFills`,
  `PolicyFollowsExecution` (paper-trading-runtime); `ApprovalsHold` (risk: an
  approval computed from no fill, one partial fill and the full fill holds for
  every intermediate one, short by less than the divisions that round at that fill and
  by nothing where none does); `OpportunitiesAreReal`; `PairsAreWhole` (one part for
  each engine of the paired path); `OwnersKeepTheirJournals` (every owner).
- `governance`: `LeasesAreExclusive`, `PermitsAreWarranted`,
  `RolloutsAreWatched`, `ReportsAreEarned`, `ObservedHistoryStands`, and
  `OwnersKeepTheirJournals` again. Their parts are in the engines' modules.

Deadlock is checked where a call is always possible (the ledger and the
journal). The owners, the actors and the sessions may stop: a poisoned owner, a
journal that cannot be replayed, a story that ends and a bound that is reached end
a behaviour.

**Fairness.** `SessionRuntime` assumes `WF_vars(TaskStep)`: the task is spawned on
tokio, which polls a task whenever its `recv` can make progress, and no step of
the task waits for anything but the channel and the disk. `MarketCapture` assumes
`WF_vars(HealthTick)`: the health interval is a branch of the actor's `select!`
and tokio's timers always fire again while the actor runs. Nothing is assumed of
senders, connections, crashes or restarts.

**Crashes.** The suites consider power losses only; `durable_ledger`, `journal` and
`session_runtime` have process crashes too. A process that dies leaves entries
written and not synced, and the respawned task publishes and checkpoints them without
a sync. `RestartReproduces` therefore follows what each attestation stands on
(`standing`): one that is durable lies within the synced prefix for good; one that
a restarted task made of unsynced entries is provisional until the next sync, and
only a power loss before that may take it. A task that has synced since its start
attests durable entries only, and no attestation ever names another digest than the
one a restart computes.

**The capital floor.** Two stories of the risk authority are at the floor: a buy whose
worst enumerated fill has exactly the floor left and whose intermediate fills, by the
rounding of cost and fee, have one less; and a sale that is below it until it is
filled, which is refused. The bound on the shortfall is attained.

### Disagreements between the code and its documents

Four runs show, on the code as it is, that a sentence of the documents fails:

- `journal_recovery` (`RecoveredTailOpens`): a crash inside the header of a new
  segment; `recover_truncated_tail` empties the file, and no later open accepts
  an empty segment. `src/README.md:249` promises "Safe recovery from truncated
  journal tails".
- `settlement_halt` (`IntegrityHaltIsRecoverable`): a halted owner still
  journals the next command, and `recover_segmented` refuses an entry after the
  halt. The test
  `durable_integrity_halt_is_recoverable_and_rejects_later_events` stops before
  one is sent. Every other owner has the same text.
- `hourly_sessions_rollover` (`RolloverDoesNotHalt`): the first frame of an hour
  halts the coordinator for good if the reference feed still holds the candle of
  the hour before. `src/specs/009-market-session/spec.md:12-13` lists the halts;
  this is none of them.
- `paper_trading_release` (`UnpostedFillsStayReserved`): the reservation of a
  canceled order can be released although the order was partly filled and the
  fill was neither registered nor posted: only pending handoffs are looked at.
  `src/README.md:321`: "Active, unknown, matched, and unposted partial-fill
  reservations unreleasable".

Three more are stated in the modules, as the documents have them, and are
violated in the same way; no run is kept for them:

- `MarketCapture!ReadyIsFresh` (`src/specs/004-live-market-state/spec.md:33-34`):
  `apply` takes the receive time of an event for now, so an event that waited in
  the channel publishes READY however old it is. `StaleIsNoticed` is what holds.
- `DeploymentOrchestrator!SevereFailureLatches`
  (`src/specs/035-deployment-orchestration-simulator/spec.md`): a severe frame that
  arrives while the rollout is paused or recovering is stored and forgotten
  (`lib.rs:604-625`).
- `ExecutorSession!NoWorkBeforeReconciliation`
  (`src/specs/041-executor-session-simulator/spec.md:41-42`): a late observation
  during the required recovery resets the status.

Others were met while modelling. The models contain the behaviour:

*Ledger and owners*
- A conflicting command id is journaled and synced before the halt;
  accounting-ledger's `recover_segmented` propagates the same conflict as an
  error, so the journal never replays again
  (`src/docs/adr/0015-deterministic-double-entry-accounting.md:28-30`).
- A restart applies entries a dead process never synced and does not sync them,
  so a power loss takes back what was exposed. `ImplementsLedger` names this case.
- A crash inside `write_*_create_new` leaves a file that can neither be read nor
  replaced.
- Where `apply` looks at the clock first, a retry of an older accepted command
  halts the engine; where it looks at the id first, it gets its decision again.

*Market data*
- `take_sequence` precedes the append, so a failed append leaves a gap. The
  segmented writer then refuses every event until a restart; a single-file
  journal takes the gap and its replay halts there for ever.
- A delta before its token's snapshot is journaled, halts the live actor, and no
  replay gets past it.
- A health tick under a clock that was set back halts the actor instead of
  turning it stale. The actor's epoch count starts again with the process.
- session-runtime: `try_checkpoint` says it writes "at the current durable prefix"
  (`src/crates/session-runtime/src/lib.rs:366`); right after a restart over entries a
  dead process left unsynced it writes at a prefix that is not, and after a power loss
  that takes them a spawn against that file answers `CheckpointSequenceMissing`.
- What `try_send` accepted behind a queued
  shutdown of session-runtime, is dropped
  (`src/docs/adr/0012-journal-first-session-runtime.md:32`). Asking twice for a
  checkpoint at one path, or before the first command, ends the task. A frame
  captured before a registration and queued after it has one session too few and
  halts the runtime.

*Trading path*
- order-intent-policy: `mark_live` forgets the rest of an uncancellable interval
  that outlasts the release (`src/specs/016-order-intent-policy/spec.md:21-23`).
- paper-execution: an acknowledgement or an unknown during a delay replaces the
  state that holds the release time, and a live or match report before it is then
  accepted (`src/specs/017-paper-execution/spec.md:26-27`); each buy fill is bounded
  by its own rounded-up limit, so n fills may cost up to n - 1 micros more than
  the order at its limit (same, 28-30).
- paper-trading-runtime: a later mark or mode observation replaces
  `policy.last_decision`, and an earlier permit is then a boundary error that
  halts; live, unknown and live again is legal for execution and impossible for
  the policy, and halts; a confirmation before its trade was observed as
  confirmed makes the next reconciliation halt.
- portfolio-risk: only rounding makes an intermediate fill differ from the three
  that are enumerated (at most two micros of cash an order); strategy-proposal
  allows a partial fill equal to the quantity, portfolio-risk does not.

*Paired path*
- placement-policy: a hedge permit that expired after the first leg filled leaves
  neither hedge nor abort possible.
- paired-paper-execution: a rejected cancel of a delayed order maps to a mark the
  policy refuses and halts; partial, unknown, live, canceled likewise; the price
  limit is examined per fill.
- settlement and unified runtime: posting the full confirmation of the first leg
  consumes its reservation and a later hedge authorization halts; a finalized
  stage stays fully reserved, so a later funding halts.
- ctf-transaction: a failed merge keeps its pair lock and nothing unlocks it.

*Certification and governance*
- shadow-auth: once its attestation expired with a recovery outstanding, neither
  recovery nor rotation is possible. change-control: an unused rollback permission
  that expired cannot be withdrawn. credential-broker: an expired authorization
  cannot be renewed, an expired permit is only removed by a revocation.
  execution-intent: an intent that expires unconsumed is never cleared. gateway:
  an envelope that expires before staging cannot be skipped.
- executor-session: a lease lost before its session was opened leaves the engine
  paused without one; a late heartbeat halts.
- canary-rollout: clocks run on while paused; an advance through a closed gate
  halts. fleet-governance: readiness does not re-examine the campaign's expiry or
  the end of a freeze, and a sealed dossier outlives a revocation.
- chain-observer: a transaction that is finalized in one agreement may be pending
  in the next. read-only-venue: a recovery asks for a version
  above one, not above the last; the first observation of a channel may be of any
  epoch.
- btc-window-strategy `lock.rs:43`: the pid file is read, judged and then written;
  two processes that read it before either writes both go on as the single writer.

## 4. Proofs

Every theorem is checked by TLAPS to the last leaf and holds for every value of
the constants that meets the named assumptions, where the runs of section 3 take
one small instance. `PROJECT.json` lists the theorems with the properties they
state.

| Module | Theorem | States |
|---|---|---|
| `AccountingLedgerProofs` | `LedgerReservationsBacked`, `LedgerLocksBacked`, `LedgerCostsBacked`, `LedgerNeverOverdrawn`, `LedgerConserves`, `LedgerInventoryBacked` | `ReservationBacked`, `LockBacked`, `CostBacked`, `NoOverdraft` with `OneCommandPerId`, `Conservation`, `InventoryBacked` |
| | `AcknowledgedCommandsSurvive`, `BooksAreTheJournal` | `AcknowledgedSurvive`, `BooksMatchJournal` of `DurableLedger` |
| | `OwnerImplementsLedger` | the refinement `ImplementsLedger` of the ledger by its durable owner |
| `SegmentedJournal` | `JournalTypes`, `SyncedEventsSurvive` | `TypeOK`, `AckedEventsSurvive` |
| | `SegmentsImplementTheLog` | the refinement `ImplementsDurableLog` |
| `EngineOwnerProofs` | `OwnersKeepJournals`, `IdFirstOwnersKeepJournals`, `ClockFirstOwnersKeepJournals` | `OwnersKeepTheirJournals`, for any engine |
| `TradingProofs` | `ApprovalsAreSpentOnce`, `PermitsAreFollowed` | `ApprovalsSpentOnce`, `OrdersFollowTheirPermits` |
| | `ReadinessRestsOnAgreement`, `FinalTradesStand` | `ReadinessIsAgreed`, `TradesAreFinalOnce` |
| | `ReportsAreFollowed`, `FillsAreExact` | `OrdersAreAsReported`, `FillsExact` |
| | `OpenOrdersStayBacked`, `OnlyFillsAreConfirmed`, `PolicyKeepsUp` | `OpenOrdersAreBacked`, `ConfirmationsAreFills`, `PolicyFollowsExecution` |
| `MarketCapture` | `LiveAlwaysReplay`, `CheckpointAlwaysAgrees` | `LiveIsReplay`, `CheckpointAgrees` |
| | `BooksAlwaysCurrent`, `AuthorityAlwaysSound` | `BooksAreCurrent`, `AuthorityIsSound` |
| | `CaptureIsInvariant` | the inductive invariant the four rest on |
| `HourlySessions` | `EvidenceStaysFinal`, `SessionsOnlyAdvance` | `EvidenceIsFinal`, the action property `LifecycleAdvances` |
| `SessionRuntime` | `RestartsReproduce` | `RestartReproduces` |

### Ledger

Assumptions, in `AccountingLedger` and evaluated by TLC: the commands are
well-typed (`CommandsAssumption`); there is a token, and collateral is none
(`TokensAssumption`); tokens, reservations and locks are finitely many
(`FiniteAssumption`), without which a total means nothing.

The inductive invariant is `LedgerInv == TypeOK /\ BooksInv /\ OneCommandPerId`,
with `BooksInv` the types of the books and `ReservationBacked`, `LockBacked`,
`CostBacked`, `NoOverdraft` together. None is inductive alone: that a release
leaves an account at zero needs the account to hold the remainder; that
consuming a reservation does not overdraw its account needs the same; that the
cost of a disposal does not exceed the inventory account needs the account to be
the tracked cost, and that the last unit takes the last micro needs the
rounding of `allocate_cost` (`DisposalLeaves`).

The argument goes in layers: accounts of different kinds or owners are different
(`AccountIdentity`); each handler's transaction moves only the accounts its
lemma `...PostingsAt` names; a transaction that does not touch a kind of account
keeps what explains it (`UntouchedReservations`, `UntouchedLocks`,
`UntouchedCosts`), and one that does moves the account and its record alike
(`ConsumedReservation`, `MovedCosts`, `DisposedCost`). One lemma per handler
(`...KeepsBooks`) puts these together, `HandlerKeepsBooks` splits on the
command, `NextKeepsLedgerInv` on the outcome of `apply`.

`Conservation` and `InventoryBacked` are about sums over finite sets. The library
sums by a recursive function on the subsets, so the proofs first show what it
computes: there is one table of partial sums (`TableExists`, `TablesAgree`), a
sum is its first element and the rest (`SumRecursion`), sums add, and any element
may be taken out (`SumTakesOut`). The induction is over data and takes no
operator as a parameter: a claim about every subset is shown from a smallest
subset for which it fails, which `WFMin` gives of the strict-subset order. Then a
transaction adds zero to the total of every asset (`PostConserves`,
`HandlerPosts`), and `QuantityBacked`, the strengthening for the inventory, takes
the sum over the reserved accounts instead of over the active reservations: it is
inductive by itself (`HandlerKeepsQuantities`), and with `ReservationBacked` the
two sums are equal (`QuantitiesAreInventory`).

### Durable ledger

`DurableInv`: what the live ledger, or the one being rebuilt, has processed is
the set of the entries it has read, until a conflict halts it; what was
acknowledged is among the synced entries. The properties speak of a running owner
only; a restart is correct because the invariant also holds in the middle of one,
and in the moment between an append and its sync.

`BooksAreTheJournal` and `OwnerImplementsLedger` need more: not only which commands
the books stand for but the books themselves, since a replay must rebuild every balance
and a restart must show what a step of the ledger makes of the last completed call. The handlers are actions, so the proofs first give each of
them as a function of the books it finds (`HandledAt`, `HandledBooks`) and show that
equal books accept the same commands (`LiveAccepts`, `CommittedAccepts`; `At` is the
ledger over given books). `CommittedInv` then says that there is a course of digests,
one for each prefix of the journal, each made of the one before by the entry between
them, and that the live books, those being rebuilt and those of the last completed
call lie on it. The journal is never more than one entry ahead of that call, so a
restart that replays one entry more is a step of `apply`, and any other is none. An
append extends the course (`CourseExtends`), a power loss cuts it (`CourseShortens`);
it cuts below the last completed call only if a process crash had left entries
unsynced, which the refinement names `SetBack`. Process crashes and power losses are
both covered.

### Segmented journal

`JournalInv`: every segment but the last is synced as a whole; the last one is
too while a rotation waits for its new file; the acknowledged events begin the
synced part of the log. Without the first conjunct a sync, which touches the
active segment only, would acknowledge what an older segment may still lose. As
for the sums, the proof first shows what `FlattenSeq` computes (`FlattenInTable`,
`FlattenOneMore`), so that the contents of a directory are those of its older
segments followed by those of the last (`DirectoryContents`), and that a power
loss cuts the last one only (`PowerLossCutsTheLast`). One lemma per action says
which of four things it does to the flat log (`Becomes`): append one event,
nothing, sync all, lose an unsynced tail. `SegmentsImplementTheLog` and
`SyncedEventsSurvive` both follow from that. The only assumption is
`SegmentConfigAssumption`: the limits are positive.

### Owners of engines

`OwnersKeepJournals` is about any engine that is a function `After` of its digest
and a command, stays halted, and has the commands it did not halt on on record
(`EngineAssumption`); the other two theorems show that both forms of `apply` are
such functions whatever the handlers do, so the hypothesis left is a definition:
`After` is what the form computes. `OwnerInv` says that there is a course of
digests, one for each prefix of the journal, and that everything the owner holds
or held of the engine lies on it: the live state, the state being rebuilt, the
state of the last completed call and the checkpoint. The witness changes with the
journal: it grows with an append and is cut with a power loss, and no recursive
definition is needed. Process crashes and power losses are both covered.

### Trading path

`TradingEngines` has the policy, paper execution, the reconciler and the paper
runtime on any set of commands. The hypotheses `PolicyCommandsTyped`,
`ExecutionCommandsTyped`, `SettlementCommandsTyped` and `PipelineCommandsTyped` say
that times, sequences and amounts are integers and that orders, trades and faults
are those of the instance; TLC evaluates them for the stories (`StoriesAssumption`).
The properties compare histories, so each invariant ties the fields of the engine to
the history of its accepted commands:

- `PolicyInv`: the stage, release and interval of an order are those of the
  commands permitted for it, and a later permit is only found in a later stage
  (`PolicyHistory`); the approvals spent are those the orders hold;
- `SettlementInv`: what is known of a trade was accepted from the venue, and a
  final observation is the one the reconciler holds, so nothing came after it
  (`SettlementHistory`, `FinalOnce`);
- `ExecutionInv`: nothing is newer than the engine's clock, a cancel under way was
  asked for and an ended order was reported so (`EndReported`), the handoffs
  are the accepted matches, in the order of the source (`HandedOff`), and they add
  up to what the order holds (`FillsAddUp`);
- `PipelineInv`: what an active reservation still holds is the quantity of its order
  less what was confirmed of it (`AllHeld`); a handoff is registered after its fill
  and posted after its registration (`Registry`); the ledger's confirmations are the
  postings, one for one (`Booked`); the policy knows of every order that is at the
  exchange and of every one that ended there (`PolicyInStep`).

`FillsAreExact` has a second hypothesis, `PlacementsApproved`: an authentic placement
permit is for more than nothing, at a fee that is not negative. The execution engine
does not check it; the risk authority that approves every placement does
(portfolio-risk `lib.rs:876-883`). Without it an order for zero units would be
accepted and never be fully matched. For the same reason the quantities of the
runtime's orders are positive (`QuantitiesAssumption`), as is the unit
(`UnitAssumption`). Sums of fills are recursive functions on an index: a sum is an
integer, one fill more adds its amount and a confirmation more adds that of its
fill (`SumsOfSmaller`, `ConfirmedOneMore`). The bound on what a buy costs comes down
to one rounding: `DivCeil(a) + DivCeil(b) <= DivCeil(a + b) + 1`.

### Market capture

The live actor and the offline replay run the same code on the same records, but the
one takes them from a channel, message by message, while epochs end and processes
crash, and the other from a file whose sequence numbers start again at each of these.
`CaptureInv` says that there is a record up to which the actor took everything
(`TookUpTo`), that what it holds is the replay of the records of its process up to
there, and that the rest of them waits in the channel in the same order; and what
the books come from: an epoch begins with its start record, the records after it
name no token the epoch lacks, a book is there for a token if and only if a snapshot
of it was among them (`RecordsInEpochs`, `HasBook`, `BooksOfEpoch`),
and the session waits for exactly the snapshots its epoch still lacks (`SessionInEpoch`).
A message is applied change by change; that no partial result leaves a crossed book
authoritative (`Sound`) is shown for the loop over the changes, by a smallest
counterexample over its index. `CheckpointAlwaysAgrees` rests on the types only: the
records of a journal that can be replayed are numbered one by one, so a checkpoint
has at most one place in it, and from there the same records lead to the same state.
The assumptions are `CapacityAssumption` (the channel has room for a message) and
`MessagesAssumption` (messages are sequences of events of the five kinds the parser
makes).

### Sessions

`SessionsInv` adds to `EvidenceIsFinal` that the reason a session shows follows
from the time of the last frame (`FollowsClock`), so that a frame that is not
older can only move it forward, and that it has evidence exactly when it says so. `RuntimeInv` is a course of digests
like the one above, for the coordinator, the watch channel and the checkpoint
files. Each of these has a standing: a durable one lies on the course within the
synced prefix, a provisional one anywhere on it, and one that a power loss took is off
it (`Placed`). A sync makes all that stand durable, a power loss takes provisional ones
only, since it keeps what is synced. No kind of crash is excluded. The assumptions are
`CapacityAssumption` (the channel has room) and `PathsAssumption` (a file is not the
snapshot).

### Only model-checked

- Liveness (`ShutdownEnds`, `StaleIsNoticed`): TLAPS does not prove formulas with
  fairness here.
- `CommandsCountOnce`: sums over the accepted commands, an amount per handler. That the
  ids are single is proved (`LedgerNeverOverdrawn`), and that each entry is applied once
  over crashes (`OwnerImplementsLedger`).
- `ApprovalsHold`: the scenarios of the risk authority are enumerated, the worst of
  each set is a minimum over a set that depends on every open order, and the limits
  are sums over those minima.
- `OpportunitiesAreReal`, `PairsAreWhole`: compositions in which one engine holds the
  whole state of up to five others.
- The properties of the governance engines (`LeasesAreExclusive`,
  `PermitsAreWarranted`, `RolloutsAreWatched`, `ReportsAreEarned`,
  `ObservedHistoryStands`): each is a conjunction over two or three engines with
  their own histories, for which the method of `TradingProofs` would serve. That
  their owners lose nothing and invent nothing is proved for all of them
  (`EngineOwnerProofs`).

## 5. Not modelled

- Network and parsing: HTTP clients, payload parsers, the WebSocket capture of the
  reference feed. What they deliver is the input of the models.
- Byte layouts, checksums and encodings (event-schema, codecs): a record is whole,
  torn or missing.
- Floating-point signals and pricing (btc-window-strategy), offline data sets and
  model governance, the display (terminal-projection, terminal), the advisor,
  scripts and configuration.
- feed-supervisor: a small deterministic core (a marker per feed, the last time seen, a
  permanent halt on a regression of clock, sequence or digest) that combines two
  feeds into one verdict;
  `HourlySessions` takes the verdict as an input.
- integration-daemon and shadow-ops: a soak harness and a supervisor over
  session-runtime.
- Further certification crates (shadow and promotion certification, capital canary, preflight, infrastructure, signer and security
  boundaries): the same pair of files, evidence recorded in a fixed order and a
  report at the end. `EngineOwner` is their durable side as it stands; their
  commands are not written down.

## 6. Plan

Done: ledger, journal, owners, the trading path, the paired path with its
composition, the market-data actors, the hourly sessions and their runtime,
thirteen certification and governance engines; the proofs of section 4. Next, in
this order:

1. Proofs: the governance properties that speak of one engine
   (`LeasesAreExclusive`, `ObservedHistoryStands`), whose owners have their theorem
   already; then `ApprovalsHold`, for which the sums of `PaperExecution` are a start.
2. The remaining certification engines, on `EngineOwner`.
3. The writer lock and the settlement loop of btc-window-strategy.
