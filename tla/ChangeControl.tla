---------------------------- MODULE ChangeControl ----------------------------
(***************************************************************************)
(* crates/deployment-change-control: an approved plan is handed over step  *)
(* by step; every step needs one manual permission, issued inside a        *)
(* maintenance window and used before it ends.  Trouble withdraws the      *)
(* permission; once a step was handed over it also latches the rollback,   *)
(* which undoes the steps from the last to the first.                      *)
(***************************************************************************)
EXTENDS EngineOwner, FiniteSets

CONSTANTS Commands, Policy

\* The policy, the commands and what they carry, by the fields that the engine reads.
IsPolicy ==
    DOMAIN Policy = {"windows", "steps", "certificateAge", "planAge", "approvalAge",
                     "permissionLife"}

IsWindow(v) == DOMAIN v = {"from", "to"}

IsEmergencyPolicy(v) == DOMAIN v = {"triggers", "permissionLife", "package"}

IsPlan(v) ==
    /\ DOMAIN v = {"expires", "created", "certificate", "steps", "windows", "emergency"}
    /\ \A i \in DOMAIN v.windows : IsWindow(v.windows[i])
    /\ IsEmergencyPolicy(v.emergency)

IsApproval(v) ==
    DOMAIN v = {"id", "until", "role", "operator", "approve", "decided"}

IsCommand(c) ==
    \/ Variant(c, {"Register"}, {"plan"}) /\ IsPlan(c.plan)
    \/ Variant(c, {"RecordApproval"}, {"approval"}) /\ IsApproval(c.approval)
    \/ Variant(c, {"IssuePermission"}, {"until", "permission"})
    \/ Variant(c, {"ConsumePermission"}, {"permission"})
    \/ Variant(c, {"Pause", "Resume", "Abort", "Finalize"}, {})
    \/ Variant(c, {"SignalEmergency"}, {"trigger"})

Roles == {"Release", "Risk"}
Triggers == {"CapitalFloorBreach", "ReconciliationFailure", "RegionalHealthFailure",
             "ControlPlaneUnknown", "OperatorAbort", "DeadlineExceeded"}

ValidPolicy == \A f \in DOMAIN Policy : Policy[f] > 0

Initial == [plan |-> {}, mode |-> "None", approvals |-> {}, permissions |-> {}, active |-> {},
            consumed |-> {}, invalidated |-> {}, changed |-> <<>>, undone |-> <<>>,
            trigger |-> {}, report |-> {}]

-----------------------------------------------------------------------------
ValidCertificate(k, at) ==
    /\ k.certified /\ k.inert /\ k.finalized <= at /\ at - k.finalized <= Policy.certificateAge
    /\ Cardinality(k.regions) >= 2

ValidWindows(windows, created, expires) ==
    /\ Len(windows) \in 1..Policy.windows
    /\ \A w \in ToSet(windows) : w.from >= created /\ w.to > w.from /\ w.to <= expires
    /\ \A k \in 1..(Len(windows) - 1) : windows[k].to <= windows[k + 1].from

ValidSteps(steps, regions) ==
    /\ Len(steps) \in 1..Policy.steps
    /\ \A k \in DOMAIN steps : steps[k] \in regions

ValidEmergencyPolicy(e, k) ==
    /\ e.package = k.package /\ e.triggers = Triggers
    /\ e.permissionLife > 0 /\ e.permissionLife <= Policy.permissionLife

ValidPlan(p, at) ==
    /\ p.created = at /\ p.expires > at /\ p.expires - at <= Policy.planAge
    /\ ValidCertificate(p.certificate, at)
    /\ ValidWindows(p.windows, at, p.expires)
    /\ ValidSteps(p.steps, p.certificate.regions)
    /\ ValidEmergencyPolicy(p.emergency, p.certificate)

PlanCurrent(p, at) == at \in p.created..p.expires

\* The end of the window that is open; none when no window is.
ActiveWindowEnd(p, at) == {w.to : w \in {v \in ToSet(p.windows) : at >= v.from /\ at < v.to}}

CurrentDualApproval(at) ==
    /\ {a.role : a \in state.approvals} = Roles
    /\ \A a \in state.approvals : /\ a.approve /\ at \in a.decided..a.until
                                  /\ at - a.decided <= Policy.approvalAge
    /\ Cardinality({a.operator : a \in state.approvals}) = Cardinality(Roles)

-----------------------------------------------------------------------------
CanRegister(c) == c.op = "Register" /\ state.plan = {} /\ ValidPlan(c.plan, c.at)

Register(c) ==
    /\ CanRegister(c)
    /\ state' = [state EXCEPT !.plan = {c.plan}, !.mode = "Registered"]
    /\ Decide(c, "Registered")

\* The second approval must be of another operator; a rejection aborts.
CanRecordApproval(c) ==
    /\ c.op = "RecordApproval" /\ state.mode = "Registered"
    /\ \A a \in state.approvals : a.role # c.approval.role /\ a.id # c.approval.id
    /\ c.approval.decided = c.at /\ c.approval.until > c.at
    /\ c.approval.until - c.at <= Policy.approvalAge
    /\ \A p \in state.plan : c.approval.until <= p.expires
    /\ c.approval.approve => \A a \in state.approvals : a.operator # c.approval.operator

RecordApproval(c) ==
    /\ CanRecordApproval(c)
    /\ LET approvals == state.approvals \cup {c.approval}
       IN  state' = [state EXCEPT !.approvals = approvals,
                         !.mode = IF ~c.approval.approve THEN "Aborted"
                                  ELSE IF Cardinality(approvals) = Cardinality(Roles)
                                  THEN "Approved" ELSE @]
    /\ Decide(c, "ApprovalRecorded")

\* The step to undo next: none when all are undone.
NextUndo == {k \in {Len(state.changed) - Len(state.undone)} : k > 0}

MayRollBack(c, p) ==
    /\ state.mode = "RollbackRequired" /\ NextUndo # {}
    /\ c.until > c.at /\ c.until - c.at <= p.emergency.permissionLife

MayChange(c, p) ==
    /\ state.mode \in {"Approved", "Active"} /\ PlanCurrent(p, c.at)
    /\ CurrentDualApproval(c.at)
    /\ Len(state.changed) < Len(p.steps)
    /\ \E end \in ActiveWindowEnd(p, c.at) : c.until <= end
    /\ c.until > c.at /\ c.until <= p.expires /\ c.until - c.at <= Policy.permissionLife

CanIssuePermission(c) ==
    /\ c.op = "IssuePermission" /\ state.active = {}
    /\ \A q \in state.permissions : q.id # c.permission
    /\ \E p \in state.plan : MayRollBack(c, p) \/ MayChange(c, p)

Permission(c) ==
    [id |-> c.permission, issued |-> c.at, until |-> c.until,
     kind |-> IF state.mode = "RollbackRequired" THEN "Rollback" ELSE "Change",
     step |-> IF state.mode = "RollbackRequired" THEN Len(state.changed) - Len(state.undone)
              ELSE Len(state.changed) + 1]

IssuePermission(c) ==
    /\ CanIssuePermission(c)
    /\ state' = [state EXCEPT !.permissions = @ \cup {Permission(c)}, !.active = {Permission(c)}]
    /\ Decide(c, "PermissionIssued")

CanConsumePermission(c) ==
    /\ c.op = "ConsumePermission"
    /\ \E q \in state.active :
           /\ q.id = c.permission /\ c.at <= q.until
           /\ q.id \notin state.consumed \cup state.invalidated
           /\ q.step = IF q.kind = "Change" THEN Len(state.changed) + 1
                       ELSE Len(state.changed) - Len(state.undone)

ConsumeChange(c) ==
    \E p \in state.plan :
        state' = [state EXCEPT !.consumed = @ \cup {c.permission}, !.active = {},
                      !.changed = Append(@, Len(@) + 1),
                      !.mode = IF Len(state.changed) + 1 = Len(p.steps) THEN "Completed" ELSE "Active"]

ConsumeRollback(c) ==
    state' = [state EXCEPT !.consumed = @ \cup {c.permission}, !.active = {},
                  !.undone = Append(@, Len(state.changed) - Len(@)),
                  !.mode = IF Len(state.undone) + 1 = Len(state.changed) THEN "RolledBack" ELSE @]

ConsumePermission(c) ==
    /\ CanConsumePermission(c)
    /\ \E q \in state.active : \/ q.kind = "Change" /\ ConsumeChange(c)
                               \/ q.kind = "Rollback" /\ ConsumeRollback(c)
    /\ Decide(c, "PermissionConsumed")

\* invalidate_active, in the mode that follows.
Withdraw(mode) ==
    [state EXCEPT !.invalidated = @ \cup {q.id : q \in state.active}, !.active = {}, !.mode = mode]

CanPause(c) == c.op = "Pause" /\ state.mode \in {"Approved", "Active"}

Pause(c) == CanPause(c) /\ state' = Withdraw("Paused") /\ Decide(c, "Paused")

CanResume(c) ==
    /\ c.op = "Resume" /\ state.mode = "Paused" /\ CurrentDualApproval(c.at)
    /\ \E p \in state.plan : PlanCurrent(p, c.at) /\ ActiveWindowEnd(p, c.at) # {}

Resume(c) ==
    /\ CanResume(c)
    /\ state' = [state EXCEPT !.mode = IF state.changed = <<>> THEN "Approved" ELSE "Active"]
    /\ Decide(c, "Resumed")

\* latch_rollback, or the end when nothing was handed over yet.
Latch(c, trigger) ==
    \/ state.changed = <<>> /\ state' = Withdraw("Aborted") /\ Decide(c, "Aborted")
    \/ /\ state.changed # <<>>
       /\ state' = [Withdraw("RollbackRequired") EXCEPT
                        !.trigger = IF @ = {} THEN {trigger} ELSE @]
       /\ Decide(c, "RollbackRequired")

CanAbort(c) ==
    c.op = "Abort" /\ state.mode \in {"Registered", "Approved", "Active", "Paused"}

Abort(c) == CanAbort(c) /\ Latch(c, "OperatorAbort")

CanSignalEmergency(c) ==
    /\ c.op = "SignalEmergency" /\ state.mode \in {"Approved", "Active", "Paused"}
    /\ \E p \in state.plan : c.trigger \in p.emergency.triggers

SignalEmergency(c) == CanSignalEmergency(c) /\ Latch(c, c.trigger)

CanFinalize(c) ==
    /\ c.op = "Finalize" /\ state.active = {}
    /\ state.mode \in {"Completed", "Aborted", "RolledBack"}

Finalize(c) ==
    /\ CanFinalize(c)
    /\ state' = [state EXCEPT !.report =
           {[status |-> state.mode, finalized |-> c.at, changed |-> state.changed,
             undone |-> state.undone, trigger |-> state.trigger,
             invalidated |-> Cardinality(state.invalidated)]}]
    /\ Decide(c, "Finalized")

Possible(c) ==
    /\ state.report = {}
    /\ \/ CanRegister(c) \/ CanRecordApproval(c) \/ CanIssuePermission(c) \/ CanConsumePermission(c)
       \/ CanPause(c) \/ CanResume(c) \/ CanAbort(c) \/ CanSignalEmergency(c) \/ CanFinalize(c)

Handler(c) ==
    /\ state.report = {}
    /\ \/ Register(c) \/ RecordApproval(c) \/ IssuePermission(c) \/ ConsumePermission(c)
       \/ Pause(c) \/ Resume(c) \/ Abort(c) \/ SignalEmergency(c) \/ Finalize(c)

Apply(c) == ApplyClockFirst(c, Possible(c), Handler(c))

-----------------------------------------------------------------------------
(***************************************************************************)
(* durable.rs and report.rs                                                *)
(***************************************************************************)
Init == ValidPolicy /\ OwnerInit(Initial)

Journal(c) == JournalCommand(c, TRUE, Possible(c))
Install == InstallCommand(Apply(Last(log)))
Recovery == RecoverWith(Apply(log[cursor + 1]), Initial)
WriteCheckpoint == SaveCheckpoint
WriteReport == SaveReport(state.report)

Next ==
    \/ \E c \in Commands : Journal(c)
    \/ Install \/ SyncFails \/ Crash \/ Recovery \/ WriteCheckpoint \/ WriteReport

-----------------------------------------------------------------------------
\* No handover outlives the trouble that should stop it: once a rollback was latched
\* every permission that can still be used is one to undo the last step not yet undone,
\* nothing more is handed over, and the change ends with everything undone, never
\* completed.  A withdrawn permission is never used.
TroubleEndsTheChange ==
    /\ state.consumed \cap state.invalidated = {}
    /\ state.trigger # {} =>
           /\ state.mode \in {"RollbackRequired", "RolledBack"}
           /\ \A q \in state.active : q.kind = "Rollback" /\ q.step \in NextUndo
    /\ \A r \in state.report : r.status = "RolledBack" => r.undone = Reverse(r.changed)
=============================================================================
