----------------------- MODULE DeploymentOrchestrator -----------------------
(***************************************************************************)
(* crates/deployment-orchestration-simulator: waves of regions, each       *)
(* activated on current health of the regions it touches; pauses and       *)
(* restarts; and the rollback that must take every activated region back   *)
(* in the reverse order.                                                   *)
(*                                                                         *)
(* Severe health latches the rollback only while the waves run: a breach   *)
(* of the capital floor seen while they are paused or recovering is        *)
(* forgotten with the next frame.  A tick is refused unless they run, so   *)
(* that no time limit is noticed during a pause.                           *)
(***************************************************************************)
EXTENDS EngineOwner, FiniteSets

CONSTANTS Commands, Policy

\* The policy, the commands and what they carry, by the fields that the engine reads.
IsPolicy ==
    DOMAIN Policy = {"waves", "regions", "preflightAge", "planAge", "healthAge",
                     "waveDuration"}

IsWave(v) == DOMAIN v = {"regions", "observe", "limit"}

IsPlan(v) ==
    /\ DOMAIN v = {"expires", "created", "waves", "preflight"}
    /\ \A i \in DOMAIN v.waves : IsWave(v.waves[i])

IsHealthFrame(v) == DOMAIN v = {"observed", "until", "sequence", "regions"}

IsCommand(c) ==
    \/ Variant(c, {"Register"}, {"plan"}) /\ IsPlan(c.plan)
    \/ Variant(c, {"ObserveHealth"}, {"frame"}) /\ IsHealthFrame(c.frame)
    \/ Variant(c, {"Start", "Advance", "OperatorPause", "OperatorResume", "OperatorAbort",
                   "Tick", "Restart", "Finalize"}, {})
    \/ Variant(c, {"Recover"}, {"epoch"})
    \/ Variant(c, {"ObserveRollback"}, {"observation", "region", "restored"})

ValidPolicy == \A f \in DOMAIN Policy : Policy[f] > 0

\* `wave' is 0 before the start; regions are in the order of activation.
Initial == [plan |-> {}, mode |-> "None", wave |-> 0, activated |-> <<>>, rolledBack |-> <<>>,
            observations |-> {}, health |-> {}, frames |-> 0, waveStarted |-> 0, trigger |-> {},
            pauses |-> 0, restarts |-> 0, epoch |-> 0, before |-> {}, report |-> {}]

ValidReport(r, at) ==
    /\ r.ready /\ r.inert /\ r.evaluated <= at /\ at - r.evaluated <= Policy.preflightAge
    /\ at <= r.expires /\ Cardinality(r.regions) \in 1..Policy.regions

\* Every region of the preflight report is in exactly one wave.
ValidWaves(plan) ==
    /\ Len(plan.waves) \in 1..Policy.waves
    /\ \A k \in DOMAIN plan.waves :
           /\ plan.waves[k].regions # <<>> /\ plan.waves[k].observe > 0
           /\ plan.waves[k].limit \in plan.waves[k].observe..Policy.waveDuration
           /\ \A j \in DOMAIN plan.waves : j # k =>
                  ToSet(plan.waves[j].regions) \cap ToSet(plan.waves[k].regions) = {}
    /\ UNION {ToSet(plan.waves[k].regions) : k \in DOMAIN plan.waves} = plan.preflight.regions

ValidPlan(plan, at) ==
    /\ plan.created = at /\ plan.expires > at /\ plan.expires - at <= Policy.planAge
    /\ plan.expires <= plan.preflight.expires
    /\ ValidReport(plan.preflight, at) /\ ValidWaves(plan)

CanRegister(c) == c.op = "Register" /\ state.plan = {} /\ ValidPlan(c.plan, c.at)

Register(c) ==
    /\ CanRegister(c)
    /\ state' = [state EXCEPT !.plan = {c.plan}, !.mode = "Registered"]
    /\ Decide(c, "Registered")

-----------------------------------------------------------------------------
(***************************************************************************)
(* Health and rollback                                                     *)
(***************************************************************************)
ThePlan == CHOOSE p \in state.plan : TRUE
PlanCurrent(at) == at <= ThePlan.expires /\ at <= ThePlan.preflight.expires
Activated == ToSet(state.activated)

\* What a frame says of a region: "Healthy", "Degraded" (package, service or risk),
\* "Unreconciled" or "FloorBreached".
RegionsHealthy(f, regions) == \A r \in regions : f.regions[r] = "Healthy"

\* severe_trigger: of the first activated region in severe trouble.
SevereTrigger(f, activated) ==
    LET severe == SelectSeq(activated, LAMBDA r : f.regions[r] \in {"FloorBreached", "Unreconciled"})
    IN  IF severe = <<>> THEN {}
        ELSE {IF f.regions[severe[1]] = "FloorBreached" THEN "CapitalFloorBreach"
              ELSE "ReconciliationFailure"}

HealthCurrent(at) ==
    \E f \in state.health : at \in f.observed..f.until /\ at - f.observed <= Policy.healthAge
RequireCurrentHealth(regions, at) ==
    HealthCurrent(at) /\ \A f \in state.health : RegionsHealthy(f, regions)

\* The first trigger stays.
Latched(s, trigger) ==
    [s EXCEPT !.trigger = IF @ = {} THEN trigger ELSE @, !.mode = "RollbackRequired"]
LatchRollback(c, trigger) == state' = Latched(state, trigger) /\ Decide(c, "RollbackRequired")

PausedState(s) == [s EXCEPT !.mode = "Paused", !.pauses = @ + 1]

CanObserveHealth(c) ==
    /\ c.op = "ObserveHealth" /\ state.plan # {}
    /\ c.frame.sequence = state.frames /\ c.frame.observed = c.at /\ c.frame.until >= c.at
    /\ DOMAIN c.frame.regions = ThePlan.preflight.regions

ObserveHealth(c) ==
    /\ CanObserveHealth(c)
    /\ LET seen == [state EXCEPT !.health = {c.frame}, !.frames = @ + 1]
           severe == SevereTrigger(c.frame, state.activated)
       IN  CASE state.mode = "Running" /\ severe # {} ->
                    state' = Latched(seen, severe) /\ Decide(c, "RollbackRequired")
             [] state.mode = "Running" /\ severe = {} /\ ~RegionsHealthy(c.frame, Activated) ->
                    state' = PausedState(seen) /\ Decide(c, "Paused")
             [] OTHER -> state' = seen /\ Decide(c, "HealthObserved")

-----------------------------------------------------------------------------
(***************************************************************************)
(* Waves                                                                   *)
(***************************************************************************)
WaveRegions(k) == ThePlan.waves[k].regions

CanStart(c) ==
    /\ c.op = "Start" /\ state.mode = "Registered" /\ PlanCurrent(c.at)
    /\ RequireCurrentHealth(ToSet(WaveRegions(1)), c.at)

Start(c) ==
    /\ CanStart(c)
    /\ state' = [state EXCEPT !.mode = "Running", !.wave = 1, !.waveStarted = c.at,
                              !.activated = WaveRegions(1)]
    /\ Decide(c, "Started")

Elapsed(at) == at - state.waveStarted
TimedOut(at) ==
    IF ~PlanCurrent(at) THEN {"PlanTimeout"}
    ELSE IF Elapsed(at) > ThePlan.waves[state.wave].limit THEN {"WaveTimeout"} ELSE {}
IsLastWave == state.wave = Len(ThePlan.waves)

CanAdvance(c) ==
    /\ c.op = "Advance" /\ state.mode = "Running"
    /\ \/ TimedOut(c.at) # {}
       \/ /\ Elapsed(c.at) >= ThePlan.waves[state.wave].observe
          /\ RequireCurrentHealth(Activated, c.at)
          /\ ~IsLastWave => RequireCurrentHealth(ToSet(WaveRegions(state.wave + 1)), c.at)

Advance(c) ==
    /\ CanAdvance(c)
    /\ CASE TimedOut(c.at) # {} -> LatchRollback(c, TimedOut(c.at))
         [] TimedOut(c.at) = {} /\ IsLastWave ->
                state' = [state EXCEPT !.mode = "Completed"] /\ Decide(c, "Advanced")
         [] OTHER ->
                /\ state' = [state EXCEPT !.activated = @ \o WaveRegions(state.wave + 1),
                                          !.wave = @ + 1, !.waveStarted = c.at]
                /\ Decide(c, "Advanced")

CanPause(c) == c.op = "OperatorPause" /\ state.mode = "Running"

OperatorPause(c) ==
    /\ CanPause(c)
    /\ state' = PausedState(state)
    /\ Decide(c, "Paused")

CanResume(c) ==
    /\ c.op = "OperatorResume" /\ state.mode = "Paused" /\ PlanCurrent(c.at)
    /\ RequireCurrentHealth(Activated, c.at)

OperatorResume(c) ==
    /\ CanResume(c)
    /\ state' = [state EXCEPT !.mode = "Running"]
    /\ Decide(c, "Resumed")

CanAbort(c) == c.op = "OperatorAbort" /\ state.mode \in {"Registered", "Running", "Paused"}

OperatorAbort(c) ==
    /\ CanAbort(c)
    /\ IF state.mode = "Registered"
       THEN state' = [state EXCEPT !.mode = "Aborted"] /\ Decide(c, "Aborted")
       ELSE LatchRollback(c, {"OperatorAbort"})

CanTick(c) == c.op = "Tick" /\ state.mode = "Running"

Tick(c) ==
    /\ CanTick(c)
    /\ CASE TimedOut(c.at) # {} -> LatchRollback(c, TimedOut(c.at))
         [] TimedOut(c.at) = {} /\ ~HealthCurrent(c.at) ->
                state' = PausedState(state) /\ Decide(c, "Paused")
         [] OTHER -> UNCHANGED state /\ Decide(c, "HealthObserved")

-----------------------------------------------------------------------------
(***************************************************************************)
(* Restart, rollback and report                                            *)
(***************************************************************************)
CanRestart(c) ==
    c.op = "Restart" /\ state.mode \in {"Running", "Paused", "RollbackRequired"}

Restart(c) ==
    /\ CanRestart(c)
    /\ state' = [state EXCEPT !.mode = "Recovering", !.before = {state.mode}, !.restarts = @ + 1]
    /\ Decide(c, "Restarted")

CanRecover(c) ==
    /\ c.op = "Recover" /\ state.mode = "Recovering" /\ c.epoch > state.epoch
    /\ "RollbackRequired" \in state.before \/ RequireCurrentHealth(Activated, c.at)

\* Wrong variant, for mutation only: every recovery leads to a pause.
RecoverPaused(c) ==
    /\ CanRecover(c)
    /\ state' = [PausedState(state) EXCEPT !.epoch = c.epoch, !.before = {}]
    /\ Decide(c, "Recovered")

Recover(c) ==
    /\ CanRecover(c)
    /\ LET next == IF "RollbackRequired" \in state.before
                   THEN [state EXCEPT !.mode = "RollbackRequired"] ELSE PausedState(state)
       IN  state' = [next EXCEPT !.epoch = c.epoch, !.before = {}]
    /\ Decide(c, "Recovered")

\* The last activated region that is not rolled back yet.
CanObserveRollback(c) ==
    /\ c.op = "ObserveRollback" /\ state.mode = "RollbackRequired"
    /\ c.observation \notin state.observations /\ c.restored
    /\ Len(state.rolledBack) < Len(state.activated)
    /\ c.region = state.activated[Len(state.activated) - Len(state.rolledBack)]

ObserveRollback(c) ==
    /\ CanObserveRollback(c)
    /\ state' = [state EXCEPT !.observations = @ \cup {c.observation},
                              !.rolledBack = Append(@, c.region),
                              !.mode = IF Len(state.rolledBack) + 1 = Len(state.activated)
                                       THEN "RolledBack" ELSE @]
    /\ Decide(c, "RollbackConverged")

CanFinalize(c) == c.op = "Finalize" /\ state.mode \in {"Completed", "RolledBack", "Aborted"}

Finalize(c) ==
    /\ CanFinalize(c)
    /\ state' = [state EXCEPT !.report =
            {[status |-> state.mode, waves |-> state.wave, activated |-> state.activated,
              rolledBack |-> state.rolledBack, trigger |-> state.trigger]}]
    /\ Decide(c, "Finalized")

Possible(c) ==
    /\ state.report = {}
    /\ \/ CanRegister(c) \/ CanObserveHealth(c) \/ CanStart(c) \/ CanAdvance(c) \/ CanPause(c)
       \/ CanResume(c) \/ CanAbort(c) \/ CanTick(c) \/ CanRestart(c) \/ CanRecover(c)
       \/ CanObserveRollback(c) \/ CanFinalize(c)

Handler(c) ==
    /\ state.report = {}
    /\ \/ Register(c) \/ ObserveHealth(c) \/ Start(c) \/ Advance(c) \/ OperatorPause(c)
       \/ OperatorResume(c) \/ OperatorAbort(c) \/ Tick(c) \/ Restart(c) \/ Recover(c)
       \/ ObserveRollback(c) \/ Finalize(c)

Apply(c) == ApplyClockFirst(c, Possible(c), Handler(c))

-----------------------------------------------------------------------------
(***************************************************************************)
(* durable.rs and report.rs                                                *)
(***************************************************************************)
Init == ValidPolicy /\ OwnerInit(Initial)

Journal(c) == JournalCommand(c, TRUE, Possible(c))
Install == InstallCommand(Apply(Last(log)))
Recovery == RecoverWith(Apply(log[cursor + 1]), Initial)
WriteCheckpoint == SaveCheckpoint
WriteReport == SaveReport(state.report)

Next ==
    \/ \E c \in Commands : Journal(c)
    \/ Install \/ SyncFails \/ Crash \/ Recovery \/ WriteCheckpoint \/ WriteReport

-----------------------------------------------------------------------------
\* Once the rollback is latched nothing runs again, whatever restarts in between, and
\* its only end is that every activated region was taken back in the reverse order: no
\* other report is written.
RollbackIsCompleted ==
    /\ state.trigger # {} =>
           /\ state.mode \in {"RollbackRequired", "Recovering", "RolledBack"}
           /\ state.mode = "Recovering" => state.before = {"RollbackRequired"}
    /\ \A r \in state.report \cup files.report.content :
           r.trigger # {} => r.status = "RolledBack" /\ r.rolledBack = Reverse(r.activated)

\* specs/035-deployment-orchestration-simulator/spec.md: "Reconciliation or
\* capital-floor failure and wave/plan timeout irreversibly latch rollback."  Waves
\* that run have seen no severe frame of their first regions since these are active.
SevereFailureLatches ==
    state.mode = "Running" =>
        \A s \in Decided("Start", "Started"), c \in Decided("ObserveHealth", "HealthObserved") :
            c.at > s.at => SevereTrigger(c.frame, WaveRegions(1)) = {}
=============================================================================
