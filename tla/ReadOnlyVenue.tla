---------------------------- MODULE ReadOnlyVenue ----------------------------
(***************************************************************************)
(* crates/read-only-venue: the supervisor of four observation channels,    *)
(* the market's parameters and the exchange's mode.  A restart of the      *)
(* exchange or the failure of a channel clears what was observed and leaves *)
(* a recovery debt; only a complete set of fresh snapshots of the next     *)
(* epoch pays it.                                                          *)
(*                                                                         *)
(* The first observation of a channel may be of any epoch, so that         *)
(* channels of different epochs can only be brought together by a failure. *)
(* A recovery asks for a parameter version above one and for any mode      *)
(* sequence: neither is compared with what was known before the failure.   *)
(***************************************************************************)
EXTENDS EngineOwner, FiniteSetsExt

CONSTANTS Commands, Policy

\* The policy, the commands and what they carry, by the fields that the engine reads.
IsPolicy ==
    DOMAIN Policy = {"reportAge", "planAge", "channelAge", "parameterAge", "modeAge",
                     "backoff"}

IsObservation(v) ==
    DOMAIN v = {"id", "epoch", "observed", "sequence", "channel", "health"}

IsParameters(v) == DOMAIN v = {"observed", "version", "valid"}

IsModeObservation(v) == DOMAIN v = {"id", "observed", "sequence", "mode"}

IsRequirement(v) == DOMAIN v = {"epoch", "reason", "trigger"}

IsEvidence(v) ==
    /\ DOMAIN v = {"id", "inert", "observed", "requirement", "mode", "channels",
                   "parameters"}
    /\ IsRequirement(v.requirement)
    /\ IsModeObservation(v.mode)
    /\ IsParameters(v.parameters)

IsPlan(v) == DOMAIN v = {"inert", "expires", "created", "scenarios", "security"}

IsCommand(c) ==
    \/ Variant(c, {"Register"}, {"plan"}) /\ IsPlan(c.plan)
    \/ Variant(c, {"ObserveChannel"}, {"observation"}) /\ IsObservation(c.observation)
    \/ Variant(c, {"ObserveParameters"}, {"parameters"}) /\ IsParameters(c.parameters)
    \/ Variant(c, {"ObserveMode"}, {"mode"}) /\ IsModeObservation(c.mode)
    \/ Variant(c, {"ObserveRateLimit"}, {"when", "backoff", "observation", "retried"})
    \/ Variant(c, {"FailChannel"}, {"when", "channel", "failure"})
    \/ /\ Variant(c, {"Recover"}, {"evidence", "requirement"})
       /\ IsEvidence(c.evidence)
       /\ IsRequirement(c.requirement)
    \/ Variant(c, {"Finalize"}, {"when"})

Channels == {"PublicMarket", "AuthenticatedUser", "RestMetadata", "ReferencePrice"}
Scenarios == {"PublicSync", "UserSync", "DynamicParameters", "NormalMode", "RestartRecovery",
              "PostOnly", "CancelOnly", "RateLimitBackoff", "IndependentChannelFailure",
              "ReconnectRecovery"}
ObservationModes == {"Normal", "PostOnly", "CancelOnly", "TradingDisabled"}

ValidPolicy == \A f \in DOMAIN Policy : Policy[f] > 0

\* `channels': the last observation of each; `used': ids of observations.
Initial == [plan |-> {}, channels |-> {}, parameters |-> {}, mode |-> {}, recovery |-> {},
            covered |-> {}, used |-> {}, recoveries |-> {}, report |-> {}]

ValidUpstream(r, at) == r.certified /\ r.inert /\ at - r.finalized <= Policy.reportAge

\* `inert': the contract only subscribes, to every event class, without a credential.
ValidPlan(plan, at) ==
    /\ plan.inert /\ plan.scenarios = Scenarios
    /\ plan.created <= at /\ at < plan.expires
    /\ plan.expires - plan.created <= Policy.planAge

CanRegister(c) ==
    /\ c.op = "Register" /\ state.plan = {}
    /\ ValidUpstream(c.plan.security, c.at) /\ ValidPlan(c.plan, c.at)

Register(c) ==
    /\ CanRegister(c)
    /\ state' = [state EXCEPT !.plan = {c.plan}]
    /\ Decide(c, "Registered")

-----------------------------------------------------------------------------
(***************************************************************************)
(* Channels, parameters and mode                                           *)
(***************************************************************************)
Recent(observed, age, at) == observed <= at /\ at - observed <= age

ValidChannel(o, at) ==
    /\ o.epoch > 0 /\ o.sequence > 0 /\ Recent(o.observed, Policy.channelAge, at)
    /\ \E plan \in state.plan : o.observed >= plan.created

Follows(o, prior) ==
    o.epoch = prior.epoch /\ o.sequence = prior.sequence + 1 /\ o.observed >= prior.observed

Latest(channel) == {o \in state.channels : o.channel = channel}

CanObserveChannel(c) ==
    /\ c.op = "ObserveChannel" /\ state.recovery = {} /\ c.observation.id \notin state.used
    /\ ValidChannel(c.observation, c.at)
    /\ \A prior \in Latest(c.observation.channel) : Follows(c.observation, prior)
    /\ Latest(c.observation.channel) = {} => c.observation.sequence = 1

SyncShown(o) ==
    IF o.health # "Ready" THEN {}
    ELSE CASE o.channel = "PublicMarket" -> {"PublicSync"}
           [] o.channel = "AuthenticatedUser" -> {"UserSync"}
           [] OTHER -> {}

ObserveChannel(c) ==
    /\ CanObserveChannel(c)
    /\ state' = [state EXCEPT !.used = @ \cup {c.observation.id},
                              !.channels = (@ \ Latest(c.observation.channel)) \cup {c.observation},
                              !.covered = @ \cup SyncShown(c.observation)]
    /\ Decide(c, "ChannelAccepted")

\* `valid': of the plan's market, with tick, sizes, fees and delays in their ranges.
ValidParameters(p, at) ==
    /\ p.valid /\ p.version > 0 /\ Recent(p.observed, Policy.parameterAge, at)
    /\ \E plan \in state.plan : p.observed >= plan.created

CanObserveParameters(c) ==
    /\ c.op = "ObserveParameters" /\ state.recovery = {} /\ ValidParameters(c.parameters, c.at)
    /\ \A prior \in state.parameters : /\ c.parameters.version = prior.version + 1
                                       /\ c.parameters.observed >= prior.observed

ObserveParameters(c) ==
    /\ CanObserveParameters(c)
    /\ state' = [state EXCEPT !.parameters = {c.parameters}, !.covered = @ \cup {"DynamicParameters"}]
    /\ Decide(c, "ParametersAccepted")

ValidMode(m, at) == m.sequence > 0 /\ Recent(m.observed, Policy.modeAge, at)

CurrentEpoch == Max({0} \cup {o.epoch : o \in state.channels})

\* invalidate: nothing observed before crosses the recovery, but the mode.
Invalidated(s, reason, trigger) ==
    [s EXCEPT !.channels = {}, !.parameters = {},
              !.recovery = {[reason |-> reason, trigger |-> trigger, epoch |-> CurrentEpoch]}]

CanObserveMode(c) ==
    /\ c.op = "ObserveMode" /\ state.recovery = {} /\ ValidMode(c.mode, c.at)
    /\ \A prior \in state.mode : /\ c.mode.sequence = prior.sequence + 1
                                 /\ c.mode.observed >= prior.observed

ObserveMode(c) ==
    /\ CanObserveMode(c)
    /\ LET seen == [state EXCEPT !.used = @ \cup {c.mode.id}, !.mode = {c.mode}]
           shown == CASE c.mode.mode = "Normal" -> {"NormalMode"}
                      [] c.mode.mode \in {"PostOnly", "CancelOnly"} -> {c.mode.mode}
                      [] OTHER -> {}
       IN  IF c.mode.mode = "Restarting"
           THEN state' = Invalidated(seen, "Restart", c.mode.id) /\ Decide(c, "RecoveryRequired")
           ELSE state' = [seen EXCEPT !.covered = @ \cup shown] /\ Decide(c, "ModeAccepted")

CanObserveRateLimit(c) ==
    /\ c.op = "ObserveRateLimit" /\ c.observation \notin state.used
    /\ c.backoff \in 1..Policy.backoff /\ ~c.retried /\ c.when <= c.at

ObserveRateLimit(c) ==
    /\ CanObserveRateLimit(c)
    /\ state' = [state EXCEPT !.used = @ \cup {c.observation},
                              !.covered = @ \cup {"RateLimitBackoff"}]
    /\ Decide(c, "RateLimitAccepted")

CanFailChannel(c) ==
    /\ c.op = "FailChannel" /\ state.recovery = {}
    /\ \E prior \in Latest(c.channel) : c.when \in prior.observed..c.at

FailChannel(c) ==
    /\ CanFailChannel(c)
    /\ state' = [Invalidated(state, "ChannelFailure", c.failure) EXCEPT
                    !.covered = @ \cup {"IndependentChannelFailure"}]
    /\ Decide(c, "RecoveryRequired")

-----------------------------------------------------------------------------
(***************************************************************************)
(* Recovery and report                                                     *)
(***************************************************************************)
ValidRecovery(e, r, at) ==
    /\ e.requirement = r /\ e.inert /\ e.observed <= at
    /\ {o.channel : o \in e.channels} = Channels /\ Cardinality(e.channels) = Cardinality(Channels)
    /\ \A o \in e.channels : /\ o.epoch = r.epoch + 1 /\ o.sequence = 1 /\ o.health = "Ready"
                             /\ ValidChannel(o, at)
    /\ e.parameters.version > 1 /\ ValidParameters(e.parameters, at)
    /\ e.mode.mode = "Normal" /\ ValidMode(e.mode, at)

CanRecover(c) ==
    /\ c.op = "Recover" /\ c.evidence.id \notin state.recoveries
    /\ \E r \in state.recovery : c.requirement = r /\ ValidRecovery(c.evidence, r, c.at)

Recover(c) ==
    /\ CanRecover(c)
    /\ state' = [state EXCEPT
            !.channels = c.evidence.channels, !.parameters = {c.evidence.parameters},
            !.mode = {c.evidence.mode}, !.recoveries = @ \cup {c.evidence.id}, !.recovery = {},
            !.covered = @ \cup {"ReconnectRecovery"}
                          \cup IF c.requirement.reason = "Restart" THEN {"RestartRecovery"} ELSE {}]
    /\ Decide(c, "Recovered")

\* Only the age is bounded: the date may be before the observations.
ObservationReady(at) ==
    /\ state.recovery = {}
    /\ {o.channel : o \in state.channels} = Channels
    /\ \A o \in state.channels : o.health = "Ready" /\ at - o.observed <= Policy.channelAge
    /\ Cardinality({o.epoch : o \in state.channels}) = 1
    /\ \E p \in state.parameters : at - p.observed <= Policy.parameterAge
    /\ \E m \in state.mode : m.mode \in ObservationModes /\ at - m.observed <= Policy.modeAge

CanFinalize(c) ==
    /\ c.op = "Finalize" /\ ObservationReady(c.when) /\ c.when <= c.at
    /\ \E plan \in state.plan : plan.scenarios \subseteq state.covered

Finalize(c) ==
    /\ CanFinalize(c)
    /\ state' = [state EXCEPT !.report = {[epoch |-> CurrentEpoch, covered |-> state.covered,
                                           version |-> p.version, when |-> c.when]
                                              : p \in state.parameters}]
    /\ Decide(c, "Finalized")

Possible(c) ==
    /\ state.report = {}
    /\ \/ CanRegister(c) \/ CanObserveChannel(c) \/ CanObserveParameters(c) \/ CanObserveMode(c)
       \/ CanObserveRateLimit(c) \/ CanFailChannel(c) \/ CanRecover(c) \/ CanFinalize(c)

Handler(c) ==
    /\ state.report = {}
    /\ \/ Register(c) \/ ObserveChannel(c) \/ ObserveParameters(c) \/ ObserveMode(c)
       \/ ObserveRateLimit(c) \/ FailChannel(c) \/ Recover(c) \/ Finalize(c)

Apply(c) == ApplyClockFirst(c, Possible(c), Handler(c))

-----------------------------------------------------------------------------
(***************************************************************************)
(* durable.rs and report.rs                                                *)
(***************************************************************************)
Init == ValidPolicy /\ OwnerInit(Initial)

Journal(c) == JournalCommand(c, TRUE, Possible(c))
Install == InstallCommand(Apply(Last(log)))
Recovery == RecoverWith(Apply(log[cursor + 1]), Initial)
WriteCheckpoint == SaveCheckpoint
WriteReport == SaveReport(state.report)

Next ==
    \/ \E c \in Commands : Journal(c)
    \/ Install \/ SyncFails \/ Crash \/ Recovery \/ WriteCheckpoint \/ WriteReport

-----------------------------------------------------------------------------
\* Nothing observed of an epoch that failed is ever used again: after every failure
\* and restart the channels belong to one later epoch until the next failure, and a
\* report's epoch is later than every epoch that failed.
EpochsDoNotReturn ==
    LET failed == {c.requirement.epoch : c \in Decided("Recover", "Recovered")}
                      \cup {r.epoch : r \in state.recovery}
    IN  /\ \A o \in state.channels, e \in failed : o.epoch > e
        /\ failed # {} => Cardinality({o.epoch : o \in state.channels}) <= 1
        /\ \A r \in state.report, e \in failed : r.epoch > e
=============================================================================
