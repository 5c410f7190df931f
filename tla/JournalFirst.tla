---------------------------- MODULE JournalFirst ----------------------------
(***************************************************************************)
(* The journal-first discipline every owner crate follows in its           *)
(* durable.rs: apply tries a command on a copy of the state, appends it to *)
(* the journal, device-syncs, and only then installs the copy; a failed    *)
(* append or sync poisons the owner; a restart replays the journal from    *)
(* the first entry.                                                        *)
(*                                                                         *)
(* The module has the journal and the phase of the owner.  An owner's      *)
(* module extends it with its state and conjoins, to each of these         *)
(* actions, what it does to that state.                                    *)
(***************************************************************************)
EXTENDS Naturals, Sequences, SequencesExt

CONSTANTS
    MaxLog,      \* bound: journal entries
    CrashKinds   \* the failures considered: "process" and "power"

ASSUME MaxLogAssumption == MaxLog \in Nat
ASSUME CrashKindsAssumption == CrashKinds \subseteq {"process", "power"}

VARIABLES
    log,      \* the commands in the journal, oldest first
    synced,   \* how many of them are on the device for sure
    phase,    \* of the owner
    cursor    \* the entries replayed by the restart

journalVars == <<log, synced, phase, cursor>>

JournalInit ==
    /\ log = <<>> /\ synced = 0
    /\ phase = "running"
    /\ cursor = 0

AppendEntry(c) ==
    /\ phase = "running" /\ Len(log) < MaxLog
    /\ log' = Append(log, c)
    /\ phase' = "appended"
    /\ UNCHANGED <<synced, cursor>>

\* The append reports an error; what reached the file is not known.
FailAppend(c) ==
    /\ phase = "running" /\ Len(log) < MaxLog
    /\ log' \in {log, Append(log, c)}
    /\ phase' = "poisoned"
    /\ UNCHANGED <<synced, cursor>>

\* Wrong variant, for mutation only: acknowledged without a sync.
SyncEntryLazily ==
    /\ phase = "appended"
    /\ phase' = "running"
    /\ UNCHANGED <<log, synced, cursor>>

\* The sync after an append succeeds; the owner installs the candidate.
SyncEntry ==
    /\ phase = "appended"
    /\ synced' = Len(log)
    /\ phase' = "running"
    /\ UNCHANGED <<log, cursor>>

\* Wrong variant, for mutation only: a failed sync does not poison.
FailSyncUnpoisoned ==
    /\ phase \in {"running", "appended"}
    /\ phase' = "running"
    /\ UNCHANGED <<log, synced, cursor>>

\* The sync of apply, or the separate sync call, fails.
FailSync ==
    /\ phase \in {"running", "appended"}
    /\ phase' = "poisoned"
    /\ UNCHANGED <<log, synced, cursor>>

\* The process dies: what it wrote stays, synced or not.
ProcessCrash ==
    /\ "process" \in CrashKinds
    /\ phase \notin {"crashed", "unrecoverable"}
    /\ phase' = "crashed"
    /\ UNCHANGED <<log, synced, cursor>>

\* The machine goes down: any part of what was not synced is lost, also when it
\* was written by an earlier incarnation of the owner.
PowerLoss ==
    /\ "power" \in CrashKinds
    /\ phase # "unrecoverable"
    /\ \E n \in synced..Len(log) : log' = SubSeq(log, 1, n) /\ synced' = n
    /\ phase' = "crashed"
    /\ UNCHANGED cursor

\* A restart: the owner starts from its initial state.
BeginReplay ==
    /\ phase = "crashed"
    /\ phase' = "recovering"
    /\ cursor' = 0
    /\ UNCHANGED <<log, synced>>

\* One entry is read and applied.
ReplayEntry ==
    /\ phase = "recovering" /\ cursor < Len(log)
    /\ cursor' = cursor + 1
    /\ UNCHANGED <<log, synced, phase>>

\* One entry is read and refused: the restart fails.
RefuseEntry ==
    /\ phase = "recovering" /\ cursor < Len(log)
    /\ phase' = "unrecoverable"
    /\ UNCHANGED <<log, synced, cursor>>

\* The end of the journal, the checkpoint, if any, was met: the owner goes live.
\* The writer agrees on the last sequence, both were read from the same files.
EndReplay ==
    /\ phase = "recovering" /\ cursor = Len(log)
    /\ phase' = "running"
    /\ UNCHANGED <<log, synced, cursor>>

\* The end of the journal came before the checkpoint's entry.
MissCheckpoint ==
    /\ phase = "recovering" /\ cursor = Len(log)
    /\ phase' = "unrecoverable"
    /\ UNCHANGED <<log, synced, cursor>>
=============================================================================
