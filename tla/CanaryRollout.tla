---------------------------- MODULE CanaryRollout ----------------------------
(***************************************************************************)
(* crates/canary-rollout-simulator: stages of growing exposure inside      *)
(* maintenance windows, advanced on fresh healthy frames only; pauses,     *)
(* restarts that need a recovery epoch, operator aborts, and the rollback  *)
(* that latches on a severe frame or a timeout.                            *)
(*                                                                         *)
(* The clocks of the stage and of the plan run on while the rollout is     *)
(* paused or recovering: paused time counts as observation time.           *)
(***************************************************************************)
EXTENDS EngineOwner, FiniteSets, Functions

CONSTANTS Commands, Policy

\* The policy, the commands and what they carry, by the fields that the engine reads.
IsPolicy == DOMAIN Policy = {"windows", "stages", "healthAge", "planAge", "target"}

IsWindow(v) == DOMAIN v = {"from", "to"}

IsStage(v) == DOMAIN v = {"target", "observe", "limit"}

IsPlan(v) ==
    /\ DOMAIN v = {"created", "windows", "stages", "start", "end", "eligibility",
                   "rollback"}
    /\ \A i \in DOMAIN v.windows : IsWindow(v.windows[i])
    /\ \A i \in DOMAIN v.stages : IsStage(v.stages[i])

IsHealthFrame(v) ==
    DOMAIN v = {"observed", "until", "sequence", "stack", "floor", "unreconciled",
                "unknown", "loss", "faults"}

IsCommand(c) ==
    \/ Variant(c, {"RegisterPlan"}, {"plan"}) /\ IsPlan(c.plan)
    \/ Variant(c, {"ObserveHealth"}, {"frame"}) /\ IsHealthFrame(c.frame)
    \/ Variant(c, {"Start", "Advance", "Tick", "OperatorPause", "OperatorResume",
                   "Restart", "Finalize"}, {})
    \/ Variant(c, {"OperatorAbort"}, {"operator"})
    \/ Variant(c, {"Recover"}, {"epoch"})

Terminal == {"Completed", "Aborted", "RollbackRequired"}

ValidPolicy == \A f \in DOMAIN Policy : Policy[f] > 0

Initial == [plan |-> {}, mode |-> "None", reason |-> "None", stage |-> 0, started |-> {},
            stageStarted |-> {}, health |-> {}, frames |-> 0, pauses |-> 0, restarts |-> 0,
            restartAt |-> {}, epoch |-> 0, trigger |-> {}, aborter |-> {}, report |-> {}]

ValidEligibility(e, at) == e.eligible /\ e.inert /\ e.evaluated <= at /\ at <= e.until

\* Windows follow one another inside the schedule.
ValidWindows(plan) ==
    /\ \A k \in DOMAIN plan.windows : /\ plan.windows[k].from >= plan.start
                                      /\ plan.windows[k].to <= plan.end
                                      /\ plan.windows[k].to > plan.windows[k].from
    /\ \A k \in 1..(Len(plan.windows) - 1) : plan.windows[k].to <= plan.windows[k + 1].from

\* Stages expose more and more, and their minimal observations fit the schedule.
ValidStages(plan) ==
    /\ \A k \in DOMAIN plan.stages :
           /\ plan.stages[k].target \in 1..Policy.target /\ plan.stages[k].observe > 0
           /\ plan.stages[k].limit \in plan.stages[k].observe..plan.rollback.duration
    /\ \A k \in 1..(Len(plan.stages) - 1) : plan.stages[k].target < plan.stages[k + 1].target
    /\ FoldFunction(LAMBDA s, total : s.observe + total, 0, plan.stages) <= plan.end - plan.start

ValidPlan(plan, at) ==
    /\ plan.created = at /\ plan.start >= plan.created /\ plan.end > plan.start
    /\ plan.end - plan.created <= Policy.planAge
    /\ Len(plan.windows) \in 1..Policy.windows /\ Len(plan.stages) \in 1..Policy.stages
    /\ ValidEligibility(plan.eligibility, plan.created)
    /\ plan.rollback.duration > 0 /\ plan.rollback.unreconciled > 0 /\ plan.rollback.unknown > 0
    /\ plan.rollback.loss >= 0 /\ plan.rollback.faults > 0
    /\ plan.end - plan.start <= plan.rollback.duration /\ plan.end <= plan.eligibility.until
    /\ ValidWindows(plan) /\ ValidStages(plan)

CanRegister(c) == c.op = "RegisterPlan" /\ state.plan = {} /\ ValidPlan(c.plan, c.at)

RegisterPlan(c) ==
    /\ CanRegister(c)
    /\ state' = [state EXCEPT !.plan = {c.plan}, !.mode = "Registered"]
    /\ Decide(c, "PlanRegistered")

-----------------------------------------------------------------------------
ThePlan == CHOOSE p \in state.plan : TRUE
RequirePlan == state.plan # {}
NotTerminal == RequirePlan /\ state.mode \notin Terminal

\* stack_healthy and severe_trigger.
Healthy(f) == f.stack /\ f.floor
Severe(f, rollback) ==
    CASE ~f.floor -> {"CapitalFloorBreach"}
      [] f.unreconciled > rollback.unreconciled -> {"ReconciliationTimeout"}
      [] f.unknown > rollback.unknown -> {"UnknownStateTimeout"}
      [] f.loss > rollback.loss -> {"SessionLossLimit"}
      [] f.faults >= rollback.faults -> {"ConsecutiveFaultLimit"}
      [] OTHER -> {}

TimeoutTrigger(at) ==
    IF at > ThePlan.end \/ \E s \in state.started : at - s > ThePlan.rollback.duration
    THEN {"PlanTimeout"}
    ELSE IF \E s \in state.stageStarted : at - s > ThePlan.stages[state.stage].limit
    THEN {"StageTimeout"} ELSE {}

WithinWindow(at) == \E k \in DOMAIN ThePlan.windows :
                        at >= ThePlan.windows[k].from /\ at < ThePlan.windows[k].to
HealthGate(at) == \E f \in state.health : /\ f.observed <= at /\ at <= f.until
                                          /\ Healthy(f) /\ Severe(f, ThePlan.rollback) = {}
Gate(at) ==
    /\ state.trigger = {} /\ at \in ThePlan.start..ThePlan.end
    /\ at <= ThePlan.eligibility.until /\ WithinWindow(at) /\ HealthGate(at)

Paused(s, reason) == [s EXCEPT !.mode = "Paused", !.reason = reason, !.pauses = @ + 1]
RolledBack(s, trigger) ==
    [s EXCEPT !.trigger = IF @ = {} THEN trigger ELSE @, !.mode = "RollbackRequired",
              !.reason = "None"]

\* An operation that a timeout turns into the rollback.
Latch(c) ==
    /\ TimeoutTrigger(c.at) # {}
    /\ state' = RolledBack(state, TimeoutTrigger(c.at))
    /\ Decide(c, "RollbackLatched")

CanObserveHealth(c) ==
    /\ c.op = "ObserveHealth" /\ NotTerminal
    /\ c.frame.sequence = state.frames + 1
    /\ c.frame.observed = c.at /\ c.frame.until \in c.at..(c.at + Policy.healthAge)

ObserveHealth(c) ==
    /\ CanObserveHealth(c)
    /\ LET seen == [state EXCEPT !.frames = @ + 1, !.health = {c.frame}]
           severe == Severe(c.frame, ThePlan.rollback)
       IN  state' = CASE severe # {} -> RolledBack(seen, severe)
                      [] ~Healthy(c.frame) /\ state.mode = "Running" -> Paused(seen, "StackUnhealthy")
                      [] OTHER -> seen
    /\ Decide(c, "HealthObserved")

CanStart(c) == c.op = "Start" /\ state.mode = "Registered" /\ Gate(c.at)

Start(c) ==
    /\ CanStart(c)
    /\ state' = [state EXCEPT !.mode = "Running", !.stage = 1, !.started = {c.at},
                              !.stageStarted = {c.at}]
    /\ Decide(c, "Started")

CanAdvance(c) ==
    /\ c.op = "Advance" /\ state.mode = "Running"
    /\ \/ TimeoutTrigger(c.at) # {}
       \/ /\ Gate(c.at)
          /\ \E s \in state.stageStarted : c.at - s >= ThePlan.stages[state.stage].observe

Advance(c) ==
    /\ CanAdvance(c)
    /\ \/ Latch(c)
       \/ /\ TimeoutTrigger(c.at) = {}
          /\ IF state.stage = Len(ThePlan.stages)
             THEN /\ state' = [state EXCEPT !.mode = "Completed"]
                  /\ Decide(c, "Completed")
             ELSE /\ state' = [state EXCEPT !.stage = @ + 1, !.stageStarted = {c.at}]
                  /\ Decide(c, "Advanced")

CanTick(c) == c.op = "Tick" /\ NotTerminal

Tick(c) ==
    /\ CanTick(c)
    /\ \/ Latch(c)
       \/ /\ TimeoutTrigger(c.at) = {}
          /\ LET fresh == \E f \in state.health : f.observed <= c.at /\ c.at <= f.until
             IN  CASE state.mode = "Running" /\ ~fresh ->
                          state' = Paused(state, "HealthStale") /\ Decide(c, "Paused")
                   [] state.mode = "Running" /\ fresh /\ ~WithinWindow(c.at) ->
                          state' = Paused(state, "OutsideMaintenanceWindow") /\ Decide(c, "Paused")
                   [] OTHER -> UNCHANGED state /\ Decide(c, "TickApplied")

CanPause(c) == c.op = "OperatorPause" /\ state.mode = "Running"

OperatorPause(c) ==
    /\ CanPause(c)
    /\ state' = Paused(state, "Operator")
    /\ Decide(c, "Paused")

CanResume(c) ==
    /\ c.op = "OperatorResume" /\ state.mode = "Paused"
    /\ TimeoutTrigger(c.at) # {} \/ Gate(c.at)

OperatorResume(c) ==
    /\ CanResume(c)
    /\ \/ Latch(c)
       \/ /\ TimeoutTrigger(c.at) = {}
          /\ state' = [state EXCEPT !.mode = "Running", !.reason = "None"]
          /\ Decide(c, "Resumed")

CanAbort(c) == c.op = "OperatorAbort" /\ NotTerminal

OperatorAbort(c) ==
    /\ CanAbort(c)
    /\ state' = [state EXCEPT !.mode = "Aborted", !.reason = "None", !.aborter = {c.operator}]
    /\ Decide(c, "Aborted")

CanRestart(c) ==
    c.op = "Restart" /\ NotTerminal /\ state.mode # "Recovering" /\ state.stage > 0

Restart(c) ==
    /\ CanRestart(c)
    /\ state' = [state EXCEPT !.restarts = @ + 1, !.restartAt = {c.at}, !.mode = "Recovering",
                              !.reason = "None"]
    /\ Decide(c, "Restarted")

\* Health observed after the restart, and the next epoch.
CanRecover(c) ==
    /\ c.op = "Recover" /\ state.mode = "Recovering" /\ c.epoch = state.epoch + 1
    /\ \E f \in state.health, r \in state.restartAt : f.observed >= r
    /\ HealthGate(c.at)

Recover(c) ==
    /\ CanRecover(c)
    /\ \/ Latch(c)
       \/ /\ TimeoutTrigger(c.at) = {}
          /\ state' = [Paused(state, "RestartRecovery") EXCEPT !.epoch = c.epoch, !.restartAt = {}]
          /\ Decide(c, "Recovered")

CanFinalize(c) == c.op = "Finalize" /\ state.mode \in Terminal

Finalize(c) ==
    /\ CanFinalize(c)
    /\ state' = [state EXCEPT !.report =
           {[status |-> state.mode, stage |-> state.stage, pauses |-> state.pauses,
             completed |-> IF state.mode = "Completed" THEN Len(ThePlan.stages)
                           ELSE IF state.stage = 0 THEN 0 ELSE state.stage - 1,
             restarts |-> state.restarts, epoch |-> state.epoch, trigger |-> state.trigger]}]
    /\ Decide(c, "Finalized")

Possible(c) ==
    /\ state.report = {}
    /\ \/ CanRegister(c) \/ CanObserveHealth(c) \/ CanStart(c) \/ CanAdvance(c) \/ CanTick(c)
       \/ CanPause(c) \/ CanResume(c) \/ CanAbort(c) \/ CanRestart(c) \/ CanRecover(c)
       \/ CanFinalize(c)

Handler(c) ==
    /\ state.report = {}
    /\ \/ RegisterPlan(c) \/ ObserveHealth(c) \/ Start(c) \/ Advance(c) \/ Tick(c)
       \/ OperatorPause(c) \/ OperatorResume(c) \/ OperatorAbort(c) \/ Restart(c) \/ Recover(c)
       \/ Finalize(c)

Apply(c) == ApplyClockFirst(c, Possible(c), Handler(c))

-----------------------------------------------------------------------------
(***************************************************************************)
(* durable.rs and report.rs                                                *)
(***************************************************************************)
Init == ValidPolicy /\ OwnerInit(Initial)

Journal(c) == JournalCommand(c, TRUE, Possible(c))
Install == InstallCommand(Apply(Last(log)))
Recovery == RecoverWith(Apply(log[cursor + 1]), Initial)
WriteCheckpoint == SaveCheckpoint
WriteReport == SaveReport(state.report)

Next ==
    \/ \E c \in Commands : Journal(c)
    \/ Install \/ SyncFails \/ Crash \/ Recovery \/ WriteCheckpoint \/ WriteReport

-----------------------------------------------------------------------------
\* Exposure never grows on its own after trouble: between an unhealthy frame or a
\* restart and the next advance there is an operator's resume, and nothing advances
\* after a severe frame or once the rollback latched.
ExposureIsWatched ==
    LET advances == Decided("Advance", "Advanced") \cup Decided("Advance", "Completed")
        resumes == Decided("OperatorResume", "Resumed")
        frames == Decided("ObserveHealth", "HealthObserved")
        starts == Decided("Start", "Started")
        trouble == Decided("Restart", "Restarted")
                       \cup {c \in frames : ~Healthy(c.frame) /\ \E s \in starts : s.at <= c.at}
    IN  /\ \A a \in advances, t \in trouble :
               t.at < a.at => \E r \in resumes : t.at <= r.at /\ r.at <= a.at
        /\ \A a \in advances, f \in frames :
               f.at < a.at => Severe(f.frame, ThePlan.rollback) = {}
        /\ state.trigger # {} <=> state.mode = "RollbackRequired"
        /\ state.stage = Cardinality(starts) + Cardinality(Decided("Advance", "Advanced"))
=============================================================================
