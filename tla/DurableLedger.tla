---------------------------- MODULE DurableLedger ----------------------------
(***************************************************************************)
(* The journal-first owner of the ledger, crates/accounting-ledger/        *)
(* durable.rs.  The ledger variables are the live ledger, or the ledger    *)
(* being rebuilt while recover_segmented runs.  `installed' is history:    *)
(* the state the last completed call or restart left, and how many journal *)
(* entries it stands for.                                                  *)
(***************************************************************************)
EXTENDS AccountingLedger, JournalFirst

VARIABLES
    checkpoint,   \* the LedgerCheckpoint on file, or NoCheckpoint
    acked,        \* history: the commands whose caller got Ok
    installed     \* history: see above

durableVars == <<vars, journalVars, checkpoint, acked, installed>>

NoCheckpoint == [sequence |-> 0, digest |-> <<>>]

\* What the digest of a snapshot binds.
Digest == <<balances, reservations, costs, locks, processed, halted>>

Installed(n) ==
    [entries |-> n, balances |-> balances, reservations |-> reservations, costs |-> costs,
     locks |-> locks, processed |-> processed, halted |-> halted, outcome |-> outcome]

DurableInit ==
    /\ Init /\ JournalInit
    /\ checkpoint = NoCheckpoint
    /\ acked = {}
    /\ installed = Installed(0)

-----------------------------------------------------------------------------
(***************************************************************************)
(* The live owner                                                          *)
(***************************************************************************)

\* preflight: what apply would return is journaled unless it is a refusal.
Journaled(c) == ~halted /\ Valid(c) /\ (Known(c) \/ Accepts(c))

\* A refused command is not journaled.
ApplyRefused(c) ==
    /\ phase = "running"
    /\ Refuse(c) \/ RefuseHalted(c)
    /\ installed' = [installed EXCEPT !.outcome = outcome']
    /\ UNCHANGED <<journalVars, checkpoint, acked>>

AppendCommand(c) ==
    /\ Journaled(c)
    /\ AppendEntry(c)
    /\ UNCHANGED <<vars, checkpoint, acked, installed>>

AppendFails(c) ==
    /\ Journaled(c)
    /\ FailAppend(c)
    /\ UNCHANGED <<vars, checkpoint, acked, installed>>

\* Wrong variant, for mutation only: a conflict is reported before the candidate,
\* and with it the halt, is installed.
SyncAndInstallUnhalted ==
    /\ SyncEntry
    /\ LET c == Last(log)
       IN  \/ (ApplyFresh(c) \/ Duplicate(c)) /\ acked' = acked \cup {c}
           \/ /\ Known(c) /\ c \notin processed
              /\ outcome' = "IdempotencyConflict"
              /\ UNCHANGED <<books, processed, halted, acked>>
    /\ UNCHANGED checkpoint
    /\ installed' = Installed(Len(log))'

\* The sync returns and the candidate is installed.
SyncAndInstall ==
    /\ SyncEntry
    /\ LET c == Last(log) IN ApplyFresh(c) \/ Duplicate(c) \/ Conflict(c)
    /\ acked' = acked \cup (IF halted' THEN {} ELSE {Last(log)})
    /\ UNCHANGED checkpoint
    /\ installed' = Installed(Len(log))'

SyncFails == FailSync /\ UNCHANGED <<vars, checkpoint, acked, installed>>

\* write_checkpoint_create_new of last_sequence and the snapshot's digest; the
\* file must not exist.
WriteCheckpoint ==
    /\ phase = "running" /\ log # <<>>
    /\ checkpoint = NoCheckpoint
    /\ checkpoint' = [sequence |-> Len(log), digest |-> Digest]
    /\ UNCHANGED <<vars, journalVars, acked, installed>>

-----------------------------------------------------------------------------
(***************************************************************************)
(* Crash and restart                                                       *)
(***************************************************************************)
Crash == (ProcessCrash \/ PowerLoss) /\ UNCHANGED <<vars, checkpoint, acked, installed>>

\* recover_segmented begins with AccountingLedger::default().
StartRecovery ==
    /\ BeginReplay
    /\ balances' = ZeroBalances /\ reservations' = NoReservations
    /\ costs' = NoCosts /\ locks' = NoLocks
    /\ processed' = {} /\ halted' = FALSE /\ outcome' = "None"
    /\ UNCHANGED <<checkpoint, acked, installed>>

CheckpointHolds(n) == n = checkpoint.sequence => Digest' = checkpoint.digest

\* One entry; any error of apply ends the recovery.
Replay ==
    /\ ReplayEntry
    /\ LET c == log[cursor + 1] IN ApplyFresh(c) \/ Duplicate(c)
    /\ CheckpointHolds(cursor + 1)
    /\ UNCHANGED <<checkpoint, acked, installed>>

\* apply fails on the entry, or the checkpoint disagrees with it.
ReplayErrs(c) == IF Known(c) THEN c \notin processed ELSE ~Accepts(c)

ReplayFails ==
    /\ RefuseEntry
    /\ LET c == log[cursor + 1]
       IN  \/ ReplayErrs(c) /\ UNCHANGED vars
           \/ (ApplyFresh(c) \/ Duplicate(c)) /\ ~CheckpointHolds(cursor + 1)
    /\ UNCHANGED <<checkpoint, acked, installed>>

FinishRecovery ==
    /\ checkpoint.sequence <= Len(log)
    /\ EndReplay
    /\ installed' = IF cursor = installed.entries THEN installed ELSE Installed(cursor)
    /\ UNCHANGED <<vars, checkpoint, acked>>

CheckpointMissing ==
    /\ checkpoint.sequence > Len(log)
    /\ MissCheckpoint
    /\ UNCHANGED <<vars, checkpoint, acked, installed>>

DurableNext ==
    \/ \E c \in Commands : ApplyRefused(c) \/ AppendCommand(c) \/ AppendFails(c)
    \/ SyncAndInstall \/ SyncFails \/ WriteCheckpoint
    \/ Crash \/ StartRecovery \/ Replay \/ ReplayFails \/ FinishRecovery
    \/ CheckpointMissing

DurableSpec == DurableInit /\ [][DurableNext]_durableVars

-----------------------------------------------------------------------------
(***************************************************************************)
(* Properties                                                              *)
(***************************************************************************)

\* A command whose caller was told Ok is in the books of every later incarnation,
\* and in the journal while there is none.
AcknowledgedSurvive ==
    \A c \in acked :
        /\ \E i \in 1..synced : log[i] = c
        /\ phase = "running" => c \in processed

\* A live owner and its journal agree, whatever calls failed and whatever crashes came
\* before.  The owner stands where its last completed call or restart left it, at the end
\* of the journal, with the commands of the journal accepted and no others; and a replay
\* that has come as far has rebuilt the very same books: every balance, reservation, cost
\* position, lock and accepted command, and the halt flag.
InstalledDigest ==
    <<installed.balances, installed.reservations, installed.costs, installed.locks,
      installed.processed, installed.halted>>
BooksMatchJournal ==
    /\ phase = "running" =>
           /\ Digest = InstalledDigest /\ installed.entries = Len(log)
           /\ processed \subseteq ToSet(log)
           /\ ~halted => ToSet(log) \subseteq processed
    /\ phase = "recovering" /\ cursor = installed.entries => Digest = InstalledDigest

\* The owner with its failures, crashes and restarts implements a ledger that never
\* crashes: each completed call or restart is one step of apply on it.  Only a power
\* loss that takes entries a process crash had left unsynced sets it back.
Committed == INSTANCE AccountingLedger WITH
    balances <- installed.balances, reservations <- installed.reservations,
    costs <- installed.costs, locks <- installed.locks,
    processed <- installed.processed, halted <- installed.halted,
    outcome <- installed.outcome
SetBack == Len(log) < installed.entries
ImplementsLedger ==
    /\ Committed!Init
    /\ [][Committed!Next \/ SetBack]_installed
=============================================================================
