----------------------------- MODULE EngineOwner -----------------------------
(***************************************************************************)
(* A deterministic engine under its journal-first owner, and the files an  *)
(* operator has it write.  About forty crates have this pair of lib.rs and *)
(* durable.rs with nearly the same text; each of them is a module that     *)
(* extends this one with what its commands do to `state', the engine's own *)
(* fields.  The actions here take the crate's apply as a parameter.        *)
(*                                                                         *)
(* Two texts of apply are in use.  One recognises a command by its id      *)
(* before it looks at the clock (ApplyIdFirst); the other refuses a        *)
(* command older than the last one before it recognises it                 *)
(* (ApplyClockFirst).                                                      *)
(***************************************************************************)
EXTENDS Integers, JournalFirst

CONSTANTS
    CheckpointAt,  \* bound: the journal length at which the operator checkpoints
    FaultsAt,      \* bound: the journal lengths at which storage or process may fail,
                   \* and a command come late, again, out of place or after a halt
    Strays         \* bound: the commands that may come so

VARIABLES
    lastRecorded,   \* last_recorded_at_ns, -1 before the first command
    processed,      \* the accepted commands with the status of their decisions
    halted,
    outcome,        \* the result of the last apply
    state,      \* the engine's own fields
    files,      \* what write_*_create_new left: status and content of each file
    installed   \* history: the entries and the digest of the last completed call

engineVars == <<lastRecorded, processed, halted, outcome>>
ownerVars == <<engineVars, journalVars, state, files, installed>>

-----------------------------------------------------------------------------
(***************************************************************************)
(* The command discipline of apply: a command is recognised by its id,     *)
(* held against the recorded clock and then decided on a copy that is      *)
(* installed only when every step of the decision succeeds.  An error that *)
(* is not a malformed command halts the engine for good.  A command c has  *)
(* an id and a time of record, c.id and c.at.                              *)
(***************************************************************************)
EngineInit ==
    /\ lastRecorded = -1
    /\ processed = {}
    /\ halted = FALSE
    /\ outcome = "None"

\* c is a command of one of these kinds: its id, its time of record and what it carries.
Variant(c, ops, fields) == c.op \in ops /\ DOMAIN c = {"op", "id", "at"} \cup fields

Known(c) == \E p \in processed : p.command.id = c.id
Recorded(c) == \E p \in processed : p.command = c
Timely(c) == c.at >= lastRecorded

\* The command reaches apply_fresh.
Eligible(c) == ~halted /\ ~Known(c) /\ Timely(c)

\* The copy is installed and the decision returned.
Decide(c, status) ==
    /\ processed' = processed \cup {[command |-> c, status |-> status]}
    /\ lastRecorded' = c.at
    /\ outcome' = status
    /\ UNCHANGED halted

\* The exact command again: its decision is returned again.
RepeatDecision(c) ==
    /\ ~halted /\ Recorded(c)
    /\ outcome' = "Duplicate"
    /\ UNCHANGED <<lastRecorded, processed, halted>>

\* install_halt: a reused id, a clock regression or an impossible step.
HaltOn(c, possible) ==
    /\ ~halted /\ ~Recorded(c)
    /\ Known(c) \/ ~Timely(c) \/ ~possible
    /\ halted' = TRUE
    /\ outcome' = "IntegrityFailure"
    /\ UNCHANGED <<lastRecorded, processed>>

AnswerHalted ==
    /\ halted
    /\ outcome' = "Halted"
    /\ UNCHANGED <<lastRecorded, processed, halted>>

\* The accepted commands of one kind that were decided with the given status.
Decided(op, status) ==
    {p.command : p \in {q \in processed : q.status = status /\ q.command.op = op}}

-----------------------------------------------------------------------------
\* state_digest: everything but the answer to the last call.
Digest == <<state, processed, lastRecorded, halted>>
Installed(n) == [entries |-> n, digest |-> Digest]

Absent == [status |-> "absent", content |-> {}]
Torn == [status |-> "torn", content |-> {}]
Sealed(v) == [status |-> "sealed", content |-> {v}]

OwnerInit(initial) ==
    /\ EngineInit /\ JournalInit
    /\ state = initial
    /\ files = [checkpoint |-> Absent, report |-> Absent]
    /\ installed = Installed(0)

-----------------------------------------------------------------------------
(***************************************************************************)
(* apply of the engine.  A failed transition leaves the engine's fields as *)
(* they were: it ran on a copy.  handled is the transition on c, with its  *)
(* guards and the decision it returns.                                     *)
(***************************************************************************)
ApplyIdFirst(c, possible, handled) ==
    \/ Eligible(c) /\ handled
    \/ (RepeatDecision(c) \/ HaltOn(c, possible) \/ AnswerHalted) /\ UNCHANGED state

\* An exact repetition is only recognised when no later command was accepted.
ApplyClockFirst(c, possible, handled) ==
    \/ Eligible(c) /\ handled
    \/ Timely(c) /\ RepeatDecision(c) /\ UNCHANGED state
    \/ /\ ~halted
       /\ ~Timely(c) \/ (~Recorded(c) /\ (Known(c) \/ ~possible))
       /\ halted' = TRUE
       /\ outcome' = "IntegrityFailure"
       /\ UNCHANGED <<lastRecorded, processed, state>>
    \/ AnswerHalted /\ UNCHANGED state

-----------------------------------------------------------------------------
(***************************************************************************)
(* apply of the owner                                                      *)
(***************************************************************************)

\* The command is encoded and appended.  Commands are journaled whatever apply will
\* answer; the ones that apply does not decide are bounded.
JournalCommand(c, wellFormed, possible) ==
    /\ wellFormed
    /\ \/ ~halted /\ Timely(c) /\ possible /\ c \notin ToSet(log)
       \/ Len(log) \in FaultsAt /\ c \in Strays
    /\ AppendEntry(c) \/ (Len(log) \in FaultsAt /\ FailAppend(c))
    /\ UNCHANGED <<engineVars, state, files, installed>>

InstallCommand(applied) ==
    /\ SyncEntry
    /\ applied
    /\ installed' = Installed(Len(log))'
    /\ UNCHANGED files

SyncFails == Len(log) \in FaultsAt /\ FailSync /\ UNCHANGED <<engineVars, state, files, installed>>

Crash ==
    /\ Len(log) \in FaultsAt \/ phase = "poisoned"
    /\ ProcessCrash \/ PowerLoss
    /\ UNCHANGED <<engineVars, state, files, installed>>

-----------------------------------------------------------------------------
(***************************************************************************)
(* recover_segmented, with the checkpoint when its file can be read        *)
(***************************************************************************)
\* Wrong variant, for mutation only: the idempotency keys outlive the restart.
StartFromKeeping(initial) ==
    /\ BeginReplay
    /\ lastRecorded' = -1 /\ halted' = FALSE /\ outcome' = "None"
    /\ state' = initial
    /\ UNCHANGED <<processed, files, installed>>

StartFrom(initial) ==
    /\ BeginReplay
    /\ lastRecorded' = -1 /\ processed' = {} /\ halted' = FALSE /\ outcome' = "None"
    /\ state' = initial
    /\ UNCHANGED <<files, installed>>

\* An entry after the one that halted the engine ends the recovery, as does a
\* digest that differs from the checkpoint's.
ReplayCommand(applied) ==
    /\ phase = "recovering" /\ cursor < Len(log) /\ ~halted
    /\ applied
    /\ cursor' = cursor + 1
    /\ phase' = IF \E k \in files.checkpoint.content :
                       k.sequence = cursor' /\ k.digest # Digest'
                THEN "unrecoverable" ELSE phase
    /\ UNCHANGED <<log, synced, files, installed>>

PostHaltEvent ==
    /\ halted /\ RefuseEntry
    /\ UNCHANGED <<engineVars, state, files, installed>>

\* The end of the journal; a checkpoint past it is CheckpointSequenceMissing.
EndOfJournal ==
    /\ phase = "recovering" /\ cursor = Len(log)
    /\ phase' = IF \E k \in files.checkpoint.content : k.sequence > cursor
                THEN "unrecoverable" ELSE "running"
    /\ UNCHANGED <<log, synced, cursor, engineVars, state, files, installed>>

RecoverWith(applied, initial) ==
    \/ StartFrom(initial) \/ ReplayCommand(applied) \/ PostHaltEvent \/ EndOfJournal

-----------------------------------------------------------------------------
(***************************************************************************)
(* Files: create_new, write, sync.  An existing target is an error; a      *)
(* process that dies on the way leaves a file no reader accepts.           *)
(***************************************************************************)
CreateNew(name, content) ==
    /\ phase = "running" /\ files[name].status = "absent"
    /\ \/ files' = [files EXCEPT ![name] = Sealed(content)] /\ UNCHANGED phase
       \/ files' = [files EXCEPT ![name] = Torn] /\ phase' = "crashed"
    /\ UNCHANGED <<log, synced, cursor, engineVars, state, installed>>

\* Wrong variant, for mutation only: the sequence is that of the entry before.
SaveCheckpointBehind ==
    /\ Len(log) = CheckpointAt
    /\ CreateNew("checkpoint", [sequence |-> Len(log) - 1, digest |-> Digest])

SaveCheckpoint ==
    /\ Len(log) = CheckpointAt
    /\ CreateNew("checkpoint", [sequence |-> Len(log), digest |-> Digest])

SaveReport(reports) == \E r \in reports : CreateNew("report", r)

-----------------------------------------------------------------------------
(***************************************************************************)
(* Properties of every owner                                               *)
(***************************************************************************)

\* Replaying the journal up to the last completed call rebuilds that call's very
\* state, an integrity halt included: what recover_segmented returns and what apply
\* installed are the same function of the journal.
ReplayReproducesLive ==
    phase = "recovering" /\ cursor = installed.entries => Digest = installed.digest

\* A live engine has applied its whole journal and nothing else: one that is not
\* halted knows every command in it.
LiveMatchesJournal ==
    phase = "running" /\ ~halted => ToSet(log) = {p.command : p \in processed}

\* A journal that cannot be recovered holds a command that followed an integrity
\* halt, or lost entries its checkpoint stands for: no digest ever disagrees.
RecoveryFailuresExplained ==
    phase = "unrecoverable" =>
        \/ halted
        \/ \E k \in files.checkpoint.content : k.sequence > Len(log)

\* The three together: a journal-first owner shows what its journal holds, and a restart
\* gives back what it showed.
OwnersKeepTheirJournals == ReplayReproducesLive /\ LiveMatchesJournal /\ RecoveryFailuresExplained
=============================================================================
