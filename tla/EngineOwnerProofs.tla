-------------------------- MODULE EngineOwnerProofs --------------------------
(***************************************************************************)
(* Every owner keeps its journal.  The engine is any function After of its *)
(* digest and a command that stays halted once it is halted and, while it  *)
(* is not, has every command it was given on record.  An engine module     *)
(* instantiates this one with its own apply and gets the theorem by        *)
(* showing those two facts.                                                *)
(***************************************************************************)
EXTENDS EngineOwner, SequenceTheorems, TLAPS

CONSTANTS
    Commands,     \* the commands the callers may submit
    Initial,      \* the engine's fields at the start
    After(_, _),  \* the digest after apply of a command
    WellFormed(_),\* of an engine in one of the two forms of apply: the commands that
                  \* are journaled,
    Possible(_, _),  \* those that no integrity check refuses, given the digest,
    Effect(_, _),    \* the fields after apply_fresh
    Verdict(_, _)    \* and the status of the decision

Applied(c) == Digest' = After(Digest, c)

\* The owner around such an engine: what an engine's own Init and Next are made of.
Init == OwnerInit(Initial)
Journal(c) == \E wellFormed, possible : JournalCommand(c, wellFormed, possible)
Install == InstallCommand(Applied(Last(log)))
Recovery == RecoverWith(Applied(log[cursor + 1]), Initial)
WriteReport == \E r : CreateNew("report", r)

Next ==
    \/ \E c \in Commands : Journal(c)
    \/ Install \/ SyncFails \/ Crash \/ Recovery \/ SaveCheckpoint \/ WriteReport

Spec == Init /\ [][Next]_ownerVars

\* The commands a digest has on record, and the digest of a new engine.
OnRecord(d) == {p.command : p \in d[2]}
NewDigest == <<Initial, {}, -1, FALSE>>

\* What the theorem asks of an engine.
HaltIsFinal ==
    \A d, c : d[4] \in BOOLEAN => After(d, c)[4] \in BOOLEAN /\ (d[4] => After(d, c)[4])
CommandsAreRecorded ==
    \A d, c : ~After(d, c)[4] => OnRecord(After(d, c)) = OnRecord(d) \cup {c}
EngineAssumption == HaltIsFinal /\ CommandsAreRecorded

-----------------------------------------------------------------------------
(***************************************************************************)
(* The inductive invariant.  h is the digests that the journal leads       *)
(* through, entry by entry; everything the owner holds or ever held of the *)
(* engine is one of them.                                                  *)
(***************************************************************************)
JournalTypeOK ==
    /\ log \in Seq(Commands)
    /\ synced \in 0..Len(log) /\ cursor \in Nat
    /\ phase \in {"running", "appended", "poisoned", "crashed", "recovering", "unrecoverable"}
    /\ halted \in BOOLEAN

Trajectory(h) ==
    /\ h[0] = NewDigest
    /\ \A i \in 1..Len(log) : h[i] = After(h[i - 1], log[i])

\* Until the engine halts, its records are the entries read so far.
RecordsAreEntries(h) ==
    \A i \in 0..Len(log) : /\ h[i][4] \in BOOLEAN
                           /\ ~h[i][4] => OnRecord(h[i]) = {log[j] : j \in 1..i}

EngineFollows(h) ==
    /\ phase = "running" => Digest = h[Len(log)]
    /\ phase = "appended" => Len(log) > 0 /\ Digest = h[Len(log) - 1]
    /\ phase = "recovering" => cursor <= Len(log) /\ Digest = h[cursor]

InstalledFollows(h) ==
    installed.entries \in 0..synced /\ installed.digest = h[installed.entries]

\* A checkpoint is ahead of the journal only between a power loss and the restart
\* that then fails: no entry is added to a journal that lost the checkpoint's.
CheckpointFollows(h) ==
    \A k \in files.checkpoint.content :
        /\ k.sequence \in Nat
        /\ k.sequence <= Len(log) => k.digest = h[k.sequence]
        /\ phase \in {"running", "appended", "poisoned"} => k.sequence <= Len(log)

Explains(h) ==
    /\ Trajectory(h) /\ RecordsAreEntries(h)
    /\ EngineFollows(h) /\ InstalledFollows(h) /\ CheckpointFollows(h)

OwnerInv ==
    /\ JournalTypeOK
    /\ RecoveryFailuresExplained
    /\ DOMAIN files = {"checkpoint", "report"}
    /\ \E h : Explains(h)

-----------------------------------------------------------------------------
(***************************************************************************)
(* Lemmas                                                                  *)
(***************************************************************************)
\* What an append and a truncation do to a journal.
LEMMA AppendedLog ==
    ASSUME NEW S, NEW s \in Seq(S), NEW c \in S
    PROVE  /\ Append(s, c) \in Seq(S)
           /\ Len(Append(s, c)) = Len(s) + 1
           /\ Append(s, c)[Len(s) + 1] = c
           /\ \A i \in 1..Len(s) : Append(s, c)[i] = s[i]
  OBVIOUS

\* A prefix of a journal is a journal.
LEMMA TruncatedLog ==
    ASSUME NEW S, NEW s \in Seq(S), NEW n \in 0..Len(s)
    PROVE  /\ SubSeq(s, 1, n) \in Seq(S)
           /\ Len(SubSeq(s, 1, n)) = n
           /\ \A i \in 1..n : SubSeq(s, 1, n)[i] = s[i]
  BY SubSeqProperties, ElementOfSeq

\* The invariant implies what the owner promises.
LEMMA OwnerInvSuffices == OwnerInv => OwnersKeepTheirJournals
  <1> SUFFICES ASSUME OwnerInv PROVE ReplayReproducesLive /\ LiveMatchesJournal
    BY DEF OwnerInv, OwnersKeepTheirJournals
  <1>1. PICK h : RecordsAreEntries(h) /\ EngineFollows(h) /\ InstalledFollows(h)
    BY DEF OwnerInv, Explains
  <1>2. ReplayReproducesLive
    BY <1>1 DEF ReplayReproducesLive, EngineFollows, InstalledFollows
  <1>3. ASSUME phase = "running", ~halted PROVE ToSet(log) = {p.command : p \in processed}
    <2>1. Len(log) \in Nat /\ DOMAIN log = 1..Len(log)
      BY LenProperties DEF OwnerInv, JournalTypeOK
    <2>2. h[Len(log)] = <<state, processed, lastRecorded, halted>>
      BY <1>1, <1>3 DEF EngineFollows, Digest
    <2>3. OnRecord(h[Len(log)]) = {log[j] : j \in 1..Len(log)}
      BY <1>1, <1>3, <2>1, <2>2 DEF RecordsAreEntries
    <2>4. OnRecord(h[Len(log)]) = {p.command : p \in processed}
      BY <2>2 DEF OnRecord
    <2>5. ToSet(log) = {log[j] : j \in 1..Len(log)}
      BY <2>1 DEF ToSet
    <2> QED BY <2>3, <2>4, <2>5
  <1> QED BY <1>2, <1>3 DEF LiveMatchesJournal

\* The initial states satisfy the invariant.
LEMMA OwnerInvInit == Init => OwnerInv
  <1> SUFFICES ASSUME Init PROVE OwnerInv
    OBVIOUS
  <1> DEFINE h == [i \in {0} |-> NewDigest]
  <1> USE DEF Init, OwnerInit, EngineInit, JournalInit
  <1>1. JournalTypeOK /\ Len(log) = 0
    <2>1. log \in Seq(Commands) /\ Len(log) = 0
      BY EmptySeq
    <2>2. synced \in 0..Len(log) /\ cursor \in Nat /\ phase = "running"
      BY <2>1
    <2>3. halted \in BOOLEAN
      BY Zenon
    <2> QED BY <2>1, <2>2, <2>3 DEF JournalTypeOK
  <1>2. Digest = NewDigest
    BY DEF Digest, NewDigest
  <1>3. Trajectory(h)
    BY <1>1 DEF Trajectory
  <1>4. RecordsAreEntries(h)
    <2>1. h[0][4] = FALSE /\ h[0][2] = {}
      BY DEF NewDigest
    <2>2. OnRecord(h[0]) = {}
      BY <2>1 DEF OnRecord
    <2>3. {log[j] : j \in 1..0} = {}
      OBVIOUS
    <2>4. h[0][4] \in BOOLEAN
      BY <2>1
    <2> HIDE DEF h
    <2>5. \A i \in 0..Len(log) : i = 0
      BY <1>1
    <2> QED BY <2>2, <2>3, <2>4, <2>5 DEF RecordsAreEntries
  <1>5. EngineFollows(h) /\ InstalledFollows(h)
    BY <1>1, <1>2 DEF EngineFollows, InstalledFollows, Installed
  <1>6. CheckpointFollows(h)
    BY DEF CheckpointFollows, Absent
  <1>7. RecoveryFailuresExplained /\ DOMAIN files = {"checkpoint", "report"}
    BY DEF RecoveryFailuresExplained
  <1> HIDE DEF h
  <1> QED BY <1>1, <1>3, <1>4, <1>5, <1>6, <1>7 DEF OwnerInv, Explains

\* A longer journal leads through the same digests and one more.
LEMMA ExtendedTrajectory ==
    ASSUME EngineAssumption, log \in Seq(Commands), NEW c \in Commands, log' = Append(log, c),
           NEW h, Trajectory(h), RecordsAreEntries(h)
    PROVE  \E g : /\ Trajectory(g)' /\ RecordsAreEntries(g)'
                  /\ \A i \in 0..Len(log) : g[i] = h[i]
                  /\ g[Len(log)'] = After(h[Len(log)], c)
  <1>0. PICK n : n = Len(log)
    OBVIOUS
  <1>1. /\ n \in Nat /\ Len(log') = n + 1 /\ log'[n + 1] = c
        /\ \A i \in 1..n : log'[i] = log[i]
    BY <1>0, AppendedLog, LenProperties
  <1>2. PICK g : (\A i \in 0..n : g[i] = h[i]) /\ g[n + 1] = After(h[n], c)
    <2> DEFINE f == [i \in 0..n + 1 |-> IF i = n + 1 THEN After(h[n], c) ELSE h[i]]
    <2>1. (\A i \in 0..n : f[i] = h[i]) /\ f[n + 1] = After(h[n], c)
      BY <1>1
    <2> QED BY <2>1
  <1>3. Trajectory(g)'
    <2>1. g[0] = NewDigest
      BY <1>1, <1>2 DEF Trajectory
    <2>2. ASSUME NEW i \in 1..n + 1 PROVE g[i] = After(g[i - 1], log'[i])
      <3>1. CASE i = n + 1
        BY <1>1, <1>2, <3>1
      <3>2. CASE i # n + 1
        <4>1. i \in 1..n /\ i \in 0..n /\ i - 1 \in 0..n
          BY <1>1, <3>2
        <4> QED BY <1>0, <1>1, <1>2, <4>1 DEF Trajectory
      <3> QED BY <3>1, <3>2
    <2> QED BY <1>1, <2>1, <2>2 DEF Trajectory
  <1>4. RecordsAreEntries(g)'
    <2>1. ASSUME NEW i \in 0..n
          PROVE  /\ g[i][4] \in BOOLEAN
                 /\ ~g[i][4] => OnRecord(g[i]) = {log'[j] : j \in 1..i}
      <3>1. {log'[j] : j \in 1..i} = {log[j] : j \in 1..i}
        <4>1. \A j \in 1..i : log'[j] = log[j]
          BY <1>1
        <4> QED BY <4>1
      <3> QED BY <1>0, <1>2, <3>1 DEF RecordsAreEntries
    <2>2. g[n + 1][4] \in BOOLEAN
      <3>1. h[n][4] \in BOOLEAN
        BY <1>0, <1>1 DEF RecordsAreEntries
      <3> QED BY <1>2, <3>1 DEF EngineAssumption, HaltIsFinal
    <2>3. ASSUME ~g[n + 1][4] PROVE OnRecord(g[n + 1]) = {log'[j] : j \in 1..n + 1}
      <3>1. h[n][4] \in BOOLEAN /\ (~h[n][4] => OnRecord(h[n]) = {log[j] : j \in 1..n})
        BY <1>0, <1>1 DEF RecordsAreEntries
      <3>2. OnRecord(h[n]) = {log[j] : j \in 1..n}
        BY <1>2, <2>3, <3>1 DEF EngineAssumption, HaltIsFinal
      <3>3. OnRecord(g[n + 1]) = OnRecord(h[n]) \cup {c}
        BY <1>2, <2>3 DEF EngineAssumption, CommandsAreRecorded
      <3>4. {log'[j] : j \in 1..n + 1} = {log[j] : j \in 1..n} \cup {c}
        <4>1. \A j : j \in 1..n + 1 <=> j \in 1..n \/ j = n + 1
          BY <1>1
        <4> QED BY <1>1, <4>1
      <3> QED BY <3>2, <3>3, <3>4
    <2> QED
      <3>1. \A i \in 0..Len(log') : i \in 0..n \/ i = n + 1
        BY <1>1
      <3> QED BY <2>1, <2>2, <2>3, <3>1 DEF RecordsAreEntries
  <1> QED BY <1>0, <1>1, <1>2, <1>3, <1>4

\* A shorter journal leads through the first of them.
LEMMA TruncatedTrajectory ==
    ASSUME log \in Seq(Commands), NEW n \in 0..Len(log), log' = SubSeq(log, 1, n),
           NEW h, Trajectory(h), RecordsAreEntries(h)
    PROVE  Trajectory(h)' /\ RecordsAreEntries(h)'
  <1>1. Len(log) \in Nat /\ Len(log') = n /\ \A i \in 1..n : log'[i] = log[i]
    BY TruncatedLog, LenProperties
  <1>2. Trajectory(h)'
    <2>1. \A i \in 1..n : i \in 1..Len(log)
      BY <1>1
    <2> QED BY <1>1, <2>1 DEF Trajectory
  <1>3. ASSUME NEW i \in 0..n
        PROVE  h[i][4] \in BOOLEAN /\ (~h[i][4] => OnRecord(h[i]) = {log'[j] : j \in 1..i})
    <2>1. {log'[j] : j \in 1..i} = {log[j] : j \in 1..i}
      <3>1. \A j \in 1..i : log'[j] = log[j]
        BY <1>1
      <3> QED BY <3>1
    <2>2. i \in 0..Len(log)
      BY <1>1
    <2> QED BY <2>1, <2>2 DEF RecordsAreEntries
  <1> QED BY <1>1, <1>2, <1>3 DEF RecordsAreEntries

-----------------------------------------------------------------------------
(***************************************************************************)
(* One lemma per step of the owner                                         *)
(***************************************************************************)
LEMMA JournalPreserves ==
    ASSUME EngineAssumption, OwnerInv, NEW c \in Commands, Journal(c)
    PROVE  OwnerInv'
  <1>1. /\ UNCHANGED <<synced, cursor, files, installed, halted>>
        /\ Digest' = Digest
        /\ phase = "running"
        /\ \/ log' = Append(log, c) /\ phase' = "appended"
           \/ log' \in {log, Append(log, c)} /\ phase' = "poisoned"
    BY DEF Journal, JournalCommand, AppendEntry, FailAppend, engineVars, Digest
  <1>2. log \in Seq(Commands) /\ Len(log) \in Nat /\ JournalTypeOK
    BY LenProperties DEF OwnerInv, JournalTypeOK
  <1>3. PICK h : Explains(h)
    BY DEF OwnerInv
  <1>4. RecoveryFailuresExplained' /\ (DOMAIN files = {"checkpoint", "report"})'
    BY <1>1 DEF OwnerInv, RecoveryFailuresExplained
  <1>5. CASE log' = Append(log, c)
    <2>1. log' \in Seq(Commands) /\ Len(log') = Len(log) + 1
      BY <1>2, <1>5, AppendedLog
    <2>2. PICK g : /\ Trajectory(g)' /\ RecordsAreEntries(g)'
                   /\ \A i \in 0..Len(log) : g[i] = h[i]
      BY <1>2, <1>3, <1>5, ExtendedTrajectory DEF Explains
    <2>3. JournalTypeOK'
      BY <1>1, <1>2, <2>1 DEF JournalTypeOK
    <2>4. EngineFollows(g)'
      <3>1. Digest = h[Len(log)]
        BY <1>1, <1>3 DEF Explains, EngineFollows
      <3> QED BY <1>1, <1>2, <2>1, <2>2, <3>1 DEF EngineFollows
    <2>5. InstalledFollows(g)'
      <3>1. installed.entries \in 0..synced /\ synced \in 0..Len(log)
        BY <1>2, <1>3 DEF Explains, InstalledFollows, JournalTypeOK
      <3>2. installed.entries \in 0..Len(log)
        BY <1>2, <3>1
      <3> QED BY <1>1, <1>3, <2>2, <3>1, <3>2 DEF Explains, InstalledFollows
    <2>6. CheckpointFollows(g)'
      <3> SUFFICES ASSUME NEW k \in files.checkpoint.content
                   PROVE  /\ k.sequence \in Nat /\ k.sequence <= Len(log')
                          /\ k.digest = g[k.sequence]
        BY <1>1 DEF CheckpointFollows
      <3>1. k.sequence \in Nat /\ k.sequence <= Len(log) /\ k.digest = h[k.sequence]
        BY <1>1, <1>3 DEF Explains, CheckpointFollows
      <3> QED BY <1>2, <2>1, <2>2, <3>1
    <2> QED BY <1>4, <2>2, <2>3, <2>4, <2>5, <2>6 DEF OwnerInv, Explains
  <1>6. CASE log' = log /\ phase' = "poisoned"
    <2>1. JournalTypeOK'
      BY <1>1, <1>2, <1>6 DEF JournalTypeOK
    <2>2. Explains(h)'
      <3>1. Trajectory(h)' /\ RecordsAreEntries(h)'
        BY <1>3, <1>6 DEF Explains, Trajectory, RecordsAreEntries
      <3>2. EngineFollows(h)' /\ InstalledFollows(h)'
        BY <1>1, <1>3, <1>6 DEF Explains, EngineFollows, InstalledFollows
      <3>3. CheckpointFollows(h)'
        BY <1>1, <1>3, <1>6 DEF Explains, CheckpointFollows
      <3> QED BY <3>1, <3>2, <3>3 DEF Explains
    <2> QED BY <1>4, <2>1, <2>2 DEF OwnerInv
  <1> QED BY <1>1, <1>5, <1>6

\* Syncing an entry and applying it preserves the invariant.
LEMMA InstallPreserves ==
    ASSUME EngineAssumption, OwnerInv, Install
    PROVE  OwnerInv'
  <1>1. /\ UNCHANGED <<log, cursor, files>>
        /\ phase = "appended" /\ phase' = "running" /\ synced' = Len(log)
        /\ Digest' = After(Digest, Last(log))
        /\ installed' = [entries |-> Len(log'), digest |-> Digest']
    BY DEF Install, InstallCommand, Applied, SyncEntry, Installed
  <1>2. log \in Seq(Commands) /\ Len(log) \in Nat /\ JournalTypeOK
    BY LenProperties DEF OwnerInv, JournalTypeOK
  <1>3. PICK h : Explains(h)
    BY DEF OwnerInv
  <1>4. Len(log) > 0 /\ Digest' = h[Len(log)]
    <2>1. Len(log) > 0 /\ Digest = h[Len(log) - 1]
      BY <1>1, <1>3 DEF Explains, EngineFollows
    <2>2. h[Len(log)] = After(h[Len(log) - 1], log[Len(log)])
      BY <1>2, <1>3, <2>1 DEF Explains, Trajectory
    <2> QED BY <1>1, <2>1, <2>2 DEF Last
  <1>5. Trajectory(h)' /\ RecordsAreEntries(h)'
    BY <1>1, <1>3 DEF Explains, Trajectory, RecordsAreEntries
  <1>6. EngineFollows(h)' /\ InstalledFollows(h)'
    <2>1. synced' = Len(log) /\ log' = log
      BY <1>1
    <2>2. installed'.entries = Len(log) /\ installed'.digest = h[Len(log)]
      BY <1>1, <1>4
    <2>3. InstalledFollows(h)'
      BY <1>2, <2>1, <2>2 DEF InstalledFollows
    <2>4. EngineFollows(h)'
      BY <1>1, <1>4 DEF EngineFollows
    <2> QED BY <2>3, <2>4
  <1>7. CheckpointFollows(h)'
    BY <1>1, <1>3 DEF Explains, CheckpointFollows
  <1>8. halted' \in BOOLEAN
    <2>1. halted' = h[Len(log)][4]
      BY <1>4 DEF Digest
    <2>2. h[Len(log)][4] \in BOOLEAN
      BY <1>2, <1>3 DEF Explains, RecordsAreEntries
    <2> QED BY <2>1, <2>2
  <1>9. JournalTypeOK'
    BY <1>1, <1>2, <1>8 DEF JournalTypeOK
  <1>10. RecoveryFailuresExplained' /\ (DOMAIN files = {"checkpoint", "report"})'
    BY <1>1 DEF OwnerInv, RecoveryFailuresExplained
  <1> QED BY <1>5, <1>6, <1>7, <1>9, <1>10 DEF OwnerInv, Explains

\* A step that leaves journal, engine and files alone and does not go live.
LEMMA IdlePreserves ==
    ASSUME OwnerInv, UNCHANGED <<log, synced, cursor, files, installed, halted>>,
           Digest' = Digest,
           phase' = phase \/ (phase' = "poisoned" /\ phase \in {"running", "appended"})
                          \/ phase' = "crashed"
    PROVE  OwnerInv'
  <1>1. PICK h : Explains(h)
    BY DEF OwnerInv
  <1>2. Trajectory(h)' /\ RecordsAreEntries(h)'
    BY <1>1 DEF Explains, Trajectory, RecordsAreEntries
  <1>3. EngineFollows(h)' /\ InstalledFollows(h)'
    BY <1>1 DEF Explains, EngineFollows, InstalledFollows
  <1>4. CheckpointFollows(h)'
    BY <1>1 DEF Explains, CheckpointFollows
  <1>5. JournalTypeOK' /\ (DOMAIN files = {"checkpoint", "report"})'
    BY DEF OwnerInv, JournalTypeOK
  <1>6. RecoveryFailuresExplained'
    BY DEF OwnerInv, RecoveryFailuresExplained
  <1> QED BY <1>2, <1>3, <1>4, <1>5, <1>6 DEF OwnerInv, Explains

\* A failed sync preserves the invariant.
LEMMA SyncFailsPreserves ==
    ASSUME OwnerInv, SyncFails
    PROVE  OwnerInv'
  BY IdlePreserves DEF SyncFails, FailSync, engineVars, Digest

\* A process crash and a power loss preserve the invariant.
LEMMA CrashPreserves ==
    ASSUME OwnerInv, Crash
    PROVE  OwnerInv'
  <1>1. UNCHANGED <<cursor, files, installed, halted>> /\ Digest' = Digest /\ phase' = "crashed"
    BY DEF Crash, ProcessCrash, PowerLoss, engineVars, Digest
  <1>2. CASE ProcessCrash
    BY <1>1, <1>2, IdlePreserves DEF ProcessCrash
  <1>3. CASE PowerLoss
    <2>1. PICK n \in synced..Len(log) : log' = SubSeq(log, 1, n) /\ synced' = n
      BY <1>3 DEF PowerLoss
    <2>2. log \in Seq(Commands) /\ Len(log) \in Nat /\ synced \in 0..Len(log)
      BY LenProperties DEF OwnerInv, JournalTypeOK
    <2>3. n \in 0..Len(log) /\ log' \in Seq(Commands) /\ Len(log') = n
      BY <2>1, <2>2, TruncatedLog
    <2>4. PICK h : Explains(h)
      BY DEF OwnerInv
    <2>5. Trajectory(h)' /\ RecordsAreEntries(h)'
      BY <2>1, <2>2, <2>3, <2>4, TruncatedTrajectory DEF Explains
    <2>6. EngineFollows(h)' /\ InstalledFollows(h)'
      <3>1. installed.entries \in 0..n
        BY <2>1, <2>2, <2>4 DEF Explains, InstalledFollows
      <3> QED BY <1>1, <2>1, <2>4, <3>1 DEF Explains, EngineFollows, InstalledFollows
    <2>7. CheckpointFollows(h)'
      <3> SUFFICES ASSUME NEW k \in files.checkpoint.content
                   PROVE  /\ k.sequence \in Nat
                          /\ k.sequence <= n => k.digest = h[k.sequence]
        BY <1>1, <2>3 DEF CheckpointFollows
      <3> QED BY <2>2, <2>3, <2>4 DEF Explains, CheckpointFollows
    <2>8. JournalTypeOK' /\ RecoveryFailuresExplained' /\ (DOMAIN files = {"checkpoint", "report"})'
      BY <1>1, <2>1, <2>3 DEF OwnerInv, JournalTypeOK, RecoveryFailuresExplained
    <2> QED BY <2>5, <2>6, <2>7, <2>8 DEF OwnerInv, Explains
  <1> QED BY <1>2, <1>3 DEF Crash

\* Starting a recovery, from a checkpoint or from nothing, preserves the invariant.
LEMMA StartPreserves ==
    ASSUME OwnerInv, StartFrom(Initial)
    PROVE  OwnerInv'
  <1>1. /\ UNCHANGED <<log, synced, files, installed>> /\ cursor' = 0
        /\ phase = "crashed" /\ phase' = "recovering"
    BY DEF StartFrom, BeginReplay
  <1>2. Digest' = NewDigest /\ halted' = FALSE
    BY DEF StartFrom, Digest, NewDigest
  <1>3. PICK h : Explains(h)
    BY DEF OwnerInv
  <1>4. Trajectory(h)' /\ RecordsAreEntries(h)'
    BY <1>1, <1>3 DEF Explains, Trajectory, RecordsAreEntries
  <1>5. EngineFollows(h)' /\ InstalledFollows(h)'
    <2>1. Len(log) \in Nat
      BY LenProperties DEF OwnerInv, JournalTypeOK
    <2>2. h[0] = NewDigest
      BY <1>3 DEF Explains, Trajectory
    <2>3. EngineFollows(h)'
      BY <1>1, <1>2, <2>1, <2>2 DEF EngineFollows
    <2> QED BY <1>1, <1>3, <2>3 DEF Explains, InstalledFollows
  <1>6. CheckpointFollows(h)'
    BY <1>1, <1>3 DEF Explains, CheckpointFollows
  <1>7. halted' \in BOOLEAN
    BY <1>2
  <1>8. JournalTypeOK' /\ RecoveryFailuresExplained' /\ (DOMAIN files = {"checkpoint", "report"})'
    BY <1>1, <1>7 DEF OwnerInv, JournalTypeOK, RecoveryFailuresExplained
  <1> QED BY <1>4, <1>5, <1>6, <1>8 DEF OwnerInv, Explains

\* Replaying one entry preserves the invariant.
LEMMA ReplayPreserves ==
    ASSUME OwnerInv, ReplayCommand(Applied(log[cursor + 1]))
    PROVE  OwnerInv'
  <1>1. /\ UNCHANGED <<log, synced, files, installed>>
        /\ phase = "recovering" /\ cursor < Len(log) /\ cursor' = cursor + 1
        /\ Digest' = After(Digest, log[cursor + 1])
        /\ phase' = IF \E k \in files.checkpoint.content :
                           k.sequence = cursor' /\ k.digest # Digest'
                    THEN "unrecoverable" ELSE phase
    BY DEF ReplayCommand, Applied
  <1>2. Len(log) \in Nat /\ cursor \in Nat /\ JournalTypeOK
    BY LenProperties DEF OwnerInv, JournalTypeOK
  <1>3. PICK h : Explains(h)
    BY DEF OwnerInv
  <1>4. Digest' = h[cursor + 1]
    <2>1. Digest = h[cursor]
      BY <1>1, <1>3 DEF Explains, EngineFollows
    <2>2. cursor + 1 \in 1..Len(log) /\ (cursor + 1) - 1 = cursor
      BY <1>1, <1>2
    <2>3. h[cursor + 1] = After(h[cursor], log[cursor + 1])
      BY <1>3, <2>2 DEF Explains, Trajectory
    <2> QED BY <1>1, <2>1, <2>3
  <1>5. phase' = "recovering"
    <2>1. ASSUME NEW k \in files.checkpoint.content, k.sequence = cursor + 1
          PROVE  k.digest = Digest'
      BY <1>1, <1>2, <1>3, <1>4, <2>1 DEF Explains, CheckpointFollows
    <2> QED BY <1>1, <2>1
  <1>6. Trajectory(h)' /\ RecordsAreEntries(h)'
    BY <1>1, <1>3 DEF Explains, Trajectory, RecordsAreEntries
  <1>7. EngineFollows(h)' /\ InstalledFollows(h)'
    BY <1>1, <1>2, <1>3, <1>4, <1>5 DEF Explains, EngineFollows, InstalledFollows
  <1>8. CheckpointFollows(h)'
    BY <1>1, <1>3, <1>5 DEF Explains, CheckpointFollows
  <1>9. halted' \in BOOLEAN
    <2>1. halted' = h[cursor + 1][4]
      BY <1>4 DEF Digest
    <2>2. cursor + 1 \in 0..Len(log)
      BY <1>1, <1>2
    <2>3. h[cursor + 1][4] \in BOOLEAN
      BY <1>3, <2>2 DEF Explains, RecordsAreEntries
    <2> QED BY <2>1, <2>3
  <1>10. JournalTypeOK'
    BY <1>1, <1>2, <1>5, <1>9 DEF JournalTypeOK
  <1>11. RecoveryFailuresExplained' /\ (DOMAIN files = {"checkpoint", "report"})'
    BY <1>1, <1>5 DEF OwnerInv, RecoveryFailuresExplained
  <1> QED BY <1>6, <1>7, <1>8, <1>10, <1>11 DEF OwnerInv, Explains

\* The two ways in which a restart ends, before and after the last entry.
LEMMA EndPreserves ==
    ASSUME OwnerInv, PostHaltEvent \/ EndOfJournal
    PROVE  OwnerInv'
  <1>1. UNCHANGED <<log, synced, cursor, files, installed, halted>> /\ Digest' = Digest
    BY DEF PostHaltEvent, RefuseEntry, EndOfJournal, engineVars, Digest
  <1>2. /\ phase = "recovering"
        /\ \/ phase' = "unrecoverable" /\ halted
           \/ /\ phase' = "unrecoverable"
              /\ \E k \in files.checkpoint.content : k.sequence > Len(log)
           \/ /\ phase' = "running" /\ cursor = Len(log)
              /\ \A k \in files.checkpoint.content : ~(k.sequence > Len(log))
    BY DEF PostHaltEvent, RefuseEntry, EndOfJournal
  <1>3. Len(log) \in Nat /\ JournalTypeOK
    BY LenProperties DEF OwnerInv, JournalTypeOK
  <1>4. PICK h : Explains(h)
    BY DEF OwnerInv
  <1>5. Trajectory(h)' /\ RecordsAreEntries(h)'
    BY <1>1, <1>4 DEF Explains, Trajectory, RecordsAreEntries
  <1>6. EngineFollows(h)' /\ InstalledFollows(h)'
    BY <1>1, <1>2, <1>4 DEF Explains, EngineFollows, InstalledFollows
  <1>7. CheckpointFollows(h)'
    <2> SUFFICES ASSUME NEW k \in files.checkpoint.content
                 PROVE  /\ k.sequence \in Nat
                        /\ k.sequence <= Len(log) => k.digest = h[k.sequence]
                        /\ phase' = "running" => k.sequence <= Len(log)
      BY <1>1, <1>2 DEF CheckpointFollows
    <2> QED BY <1>2, <1>3, <1>4 DEF Explains, CheckpointFollows
  <1>8. RecoveryFailuresExplained'
    BY <1>1, <1>2 DEF RecoveryFailuresExplained
  <1>9. JournalTypeOK' /\ (DOMAIN files = {"checkpoint", "report"})'
    BY <1>1, <1>2, <1>3 DEF OwnerInv, JournalTypeOK
  <1> QED BY <1>5, <1>6, <1>7, <1>8, <1>9 DEF OwnerInv, Explains

\* Writing a checkpoint or a report preserves the invariant.
LEMMA FilesPreserve ==
    ASSUME OwnerInv, SaveCheckpoint \/ WriteReport
    PROVE  OwnerInv'
  <1>1. /\ UNCHANGED <<log, synced, cursor, installed, halted>> /\ Digest' = Digest
        /\ phase = "running" /\ phase' \in {"running", "crashed"}
    BY DEF SaveCheckpoint, WriteReport, CreateNew, engineVars, Digest
  <1>2. (DOMAIN files = {"checkpoint", "report"})'
    BY DEF OwnerInv, SaveCheckpoint, WriteReport, CreateNew
  <1>3. ASSUME NEW k \in files.checkpoint.content'
        PROVE  k \in files.checkpoint.content \/ (k.sequence = Len(log) /\ k.digest = Digest)
    BY <1>3 DEF OwnerInv, SaveCheckpoint, WriteReport, CreateNew, Sealed, Torn
  <1>4. Len(log) \in Nat /\ JournalTypeOK
    BY LenProperties DEF OwnerInv, JournalTypeOK
  <1>5. PICK h : Explains(h)
    BY DEF OwnerInv
  <1>6. Trajectory(h)' /\ RecordsAreEntries(h)'
    BY <1>1, <1>5 DEF Explains, Trajectory, RecordsAreEntries
  <1>7. EngineFollows(h)' /\ InstalledFollows(h)'
    BY <1>1, <1>5 DEF Explains, EngineFollows, InstalledFollows
  <1>8. CheckpointFollows(h)'
    <2> SUFFICES ASSUME NEW k \in files.checkpoint.content'
                 PROVE  k.sequence \in Nat /\ k.sequence <= Len(log) /\ k.digest = h[k.sequence]
      BY <1>1 DEF CheckpointFollows
    <2>1. Digest = h[Len(log)]
      BY <1>1, <1>5 DEF Explains, EngineFollows
    <2> QED BY <1>1, <1>3, <1>4, <1>5, <2>1 DEF Explains, CheckpointFollows
  <1>9. JournalTypeOK' /\ RecoveryFailuresExplained'
    BY <1>1, <1>4 DEF JournalTypeOK, RecoveryFailuresExplained
  <1> QED BY <1>2, <1>6, <1>7, <1>8, <1>9 DEF OwnerInv, Explains

\* Every step of the owner preserves the invariant.
LEMMA OwnerInvNext == EngineAssumption /\ OwnerInv /\ [Next]_ownerVars => OwnerInv'
  <1> SUFFICES ASSUME EngineAssumption, OwnerInv, [Next]_ownerVars PROVE OwnerInv'
    OBVIOUS
  <1>1. CASE UNCHANGED ownerVars
    BY <1>1, IdlePreserves DEF ownerVars, engineVars, journalVars, Digest
  <1>2. CASE Recovery
    BY <1>2, StartPreserves, ReplayPreserves, EndPreserves DEF Recovery, RecoverWith
  <1> QED
    BY <1>1, <1>2, JournalPreserves, InstallPreserves, SyncFailsPreserves, CrashPreserves,
       FilesPreserve DEF Next

-----------------------------------------------------------------------------
\* Whatever the engine: replaying the journal rebuilds the state of the last completed
\* call, a live engine that is not halted has exactly the journal on record, and a
\* restart fails only on an entry after a halt or on a journal shorter than its
\* checkpoint; for process crashes and power losses, any number of them.
THEOREM OwnersKeepJournals ==
    ASSUME EngineAssumption
    PROVE  Spec => []OwnersKeepTheirJournals
  BY OwnerInvInit, OwnerInvNext, OwnerInvSuffices, PTL DEF Spec

-----------------------------------------------------------------------------
(***************************************************************************)
(* The two forms of apply are such functions, whatever apply_fresh does:   *)
(* its effect and its verdict are any functions of the digest and the      *)
(* command.                                                                *)
(***************************************************************************)
Handled(c) ==
    Possible(Digest, c) /\ state' = Effect(Digest, c) /\ Decide(c, Verdict(Digest, c))

OwnerNext(applied(_)) ==
    \/ \E c \in Commands : JournalCommand(c, WellFormed(c), Possible(Digest, c))
    \/ InstallCommand(applied(Last(log)))
    \/ SyncFails \/ Crash
    \/ RecoverWith(applied(log[cursor + 1]), Initial)
    \/ SaveCheckpoint \/ WriteReport

IdFirst(c) == ApplyIdFirst(c, Possible(Digest, c), Handled(c))
ClockFirst(c) == ApplyClockFirst(c, Possible(Digest, c), Handled(c))
IdFirstNext == OwnerNext(IdFirst)
ClockFirstNext == OwnerNext(ClockFirst)
IdFirstSpec == Init /\ [][IdFirstNext]_ownerVars
ClockFirstSpec == Init /\ [][ClockFirstNext]_ownerVars

KnownIn(d, c) == \E p \in d[2] : p.command.id = c.id
TimelyIn(d, c) == c.at >= d[3]
Decision(d, c) ==
    <<Effect(d, c), d[2] \cup {[command |-> c, status |-> Verdict(d, c)]}, c.at, FALSE>>
Halt(d) == <<d[1], d[2], d[3], TRUE>>

AfterIdFirst(d, c) ==
    IF d[4] \/ c \in OnRecord(d) THEN d
    ELSE IF KnownIn(d, c) \/ ~TimelyIn(d, c) \/ ~Possible(d, c) THEN Halt(d)
    ELSE Decision(d, c)

AfterClockFirst(d, c) ==
    IF d[4] \/ (TimelyIn(d, c) /\ c \in OnRecord(d)) THEN d
    ELSE IF KnownIn(d, c) \/ ~TimelyIn(d, c) \/ ~Possible(d, c) THEN Halt(d)
    ELSE Decision(d, c)

\* A decision puts its command on record.
LEMMA DecisionIsRecorded ==
    ASSUME NEW d, NEW c
    PROVE  OnRecord(Decision(d, c)) = OnRecord(d) \cup {c} /\ Decision(d, c)[4] = FALSE
  <1> DEFINE r == [command |-> c, status |-> Verdict(d, c)]
  <1>1. Decision(d, c)[2] = d[2] \cup {r} /\ Decision(d, c)[4] = FALSE
    BY DEF Decision
  <1>2. r.command = c
    OBVIOUS
  <1> HIDE DEF r
  <1>3. {p.command : p \in d[2] \cup {r}} = {p.command : p \in d[2]} \cup {c}
    BY <1>2
  <1> QED BY <1>1, <1>3 DEF OnRecord

\* The engines that look up the command first are engines in the sense above.
LEMMA IdFirstIsAnEngine ==
    ASSUME \A d, c : After(d, c) = AfterIdFirst(d, c)
    PROVE  EngineAssumption
  <1>1. HaltIsFinal
    BY DecisionIsRecorded DEF HaltIsFinal, AfterIdFirst, Halt
  <1>2. CommandsAreRecorded
    BY DecisionIsRecorded DEF CommandsAreRecorded, AfterIdFirst, Halt
  <1> QED BY <1>1, <1>2 DEF EngineAssumption

\* So are the engines that look at the clock first.
LEMMA ClockFirstIsAnEngine ==
    ASSUME \A d, c : After(d, c) = AfterClockFirst(d, c)
    PROVE  EngineAssumption
  <1>1. HaltIsFinal
    BY DecisionIsRecorded DEF HaltIsFinal, AfterClockFirst, Halt
  <1>2. CommandsAreRecorded
    BY DecisionIsRecorded DEF CommandsAreRecorded, AfterClockFirst, Halt
  <1> QED BY <1>1, <1>2 DEF EngineAssumption

\* The digest in the terms of the engine's variables.
LEMMA DigestFields ==
    /\ Digest[1] = state /\ Digest[2] = processed /\ Digest[3] = lastRecorded /\ Digest[4] = halted
    /\ \A c : /\ Known(c) <=> KnownIn(Digest, c)
              /\ Recorded(c) <=> c \in OnRecord(Digest)
              /\ Timely(c) <=> TimelyIn(Digest, c)
  BY DEF Digest, Known, KnownIn, Recorded, OnRecord, Timely, TimelyIn

\* ApplyIdFirst computes the digest After names.
LEMMA IdFirstApplies ==
    ASSUME NEW c, IdFirst(c), halted \in BOOLEAN
    PROVE  Digest' = AfterIdFirst(Digest, c)
  <1>1. Recorded(c) => Known(c)
    BY DEF Recorded, Known
  <1>2. CASE Eligible(c) /\ Handled(c)
    <2>1. Digest' = Decision(Digest, c)
      BY <1>2, DigestFields DEF Eligible, Handled, Decide, Decision, Digest
    <2> QED BY <1>1, <1>2, <2>1, DigestFields DEF Eligible, Handled, AfterIdFirst
  <1>3. CASE (RepeatDecision(c) \/ AnswerHalted) /\ UNCHANGED state
    <2>1. Digest' = Digest
      BY <1>3 DEF RepeatDecision, AnswerHalted, Digest
    <2> QED BY <1>3, <2>1, DigestFields DEF RepeatDecision, AnswerHalted, AfterIdFirst
  <1>4. CASE HaltOn(c, Possible(Digest, c)) /\ UNCHANGED state
    <2>1. Digest' = Halt(Digest)
      BY <1>4, DigestFields DEF HaltOn, Halt, Digest
    <2> QED BY <1>4, <2>1, DigestFields DEF HaltOn, AfterIdFirst
  <1> QED BY <1>2, <1>3, <1>4 DEF IdFirst, ApplyIdFirst

\* ApplyClockFirst computes the digest After names.
LEMMA ClockFirstApplies ==
    ASSUME NEW c, ClockFirst(c), halted \in BOOLEAN
    PROVE  Digest' = AfterClockFirst(Digest, c)
  <1>1. Recorded(c) => Known(c)
    BY DEF Recorded, Known
  <1>2. CASE Eligible(c) /\ Handled(c)
    <2>1. Digest' = Decision(Digest, c)
      BY <1>2, DigestFields DEF Eligible, Handled, Decide, Decision, Digest
    <2> QED BY <1>1, <1>2, <2>1, DigestFields DEF Eligible, Handled, AfterClockFirst
  <1>3. CASE ((Timely(c) /\ RepeatDecision(c)) \/ AnswerHalted) /\ UNCHANGED state
    <2>1. Digest' = Digest
      BY <1>3 DEF RepeatDecision, AnswerHalted, Digest
    <2> QED BY <1>3, <2>1, DigestFields DEF RepeatDecision, AnswerHalted, AfterClockFirst
  <1>4. CASE /\ ~halted
             /\ ~Timely(c) \/ (~Recorded(c) /\ (Known(c) \/ ~Possible(Digest, c)))
             /\ halted' = TRUE
             /\ UNCHANGED <<lastRecorded, processed, state>>
    <2>1. Digest' = Halt(Digest)
      BY <1>4, DigestFields DEF Halt, Digest
    <2> QED BY <1>4, <2>1, DigestFields DEF AfterClockFirst
  <1> QED BY <1>2, <1>3, <1>4 DEF ClockFirst, ApplyClockFirst

\* A step of an owner of an id-first engine is a step of the owner above.
LEMMA IdFirstStep ==
    ASSUME \A d, c : After(d, c) = AfterIdFirst(d, c), OwnerInv, [IdFirstNext]_ownerVars
    PROVE  [Next]_ownerVars
  <1>1. halted \in BOOLEAN
    BY DEF OwnerInv, JournalTypeOK
  <1>2. \A c : IdFirst(c) => Applied(c)
    BY <1>1, IdFirstApplies DEF Applied
  <1>3. InstallCommand(IdFirst(Last(log))) => Install
    BY <1>2 DEF Install, InstallCommand
  <1>4. RecoverWith(IdFirst(log[cursor + 1]), Initial) => Recovery
    BY <1>2 DEF Recovery, RecoverWith, ReplayCommand
  <1> QED BY <1>3, <1>4 DEF IdFirstNext, OwnerNext, Next, Journal

\* A step of an owner of a clock-first engine is a step of the owner above.
LEMMA ClockFirstStep ==
    ASSUME \A d, c : After(d, c) = AfterClockFirst(d, c), OwnerInv, [ClockFirstNext]_ownerVars
    PROVE  [Next]_ownerVars
  <1>1. halted \in BOOLEAN
    BY DEF OwnerInv, JournalTypeOK
  <1>2. \A c : ClockFirst(c) => Applied(c)
    BY <1>1, ClockFirstApplies DEF Applied
  <1>3. InstallCommand(ClockFirst(Last(log))) => Install
    BY <1>2 DEF Install, InstallCommand
  <1>4. RecoverWith(ClockFirst(log[cursor + 1]), Initial) => Recovery
    BY <1>2 DEF Recovery, RecoverWith, ReplayCommand
  <1> QED BY <1>3, <1>4 DEF ClockFirstNext, OwnerNext, Next, Journal

\* The owners whose engine recognises a command by its id first (the trading path).
\* After is not a further assumption: it names the function that the engine computes.
THEOREM IdFirstOwnersKeepJournals ==
    ASSUME \A d, c : After(d, c) = AfterIdFirst(d, c)
    PROVE  IdFirstSpec => []OwnersKeepTheirJournals
  <1>1. OwnerInv /\ [IdFirstNext]_ownerVars => OwnerInv'
    BY IdFirstIsAnEngine, IdFirstStep, OwnerInvNext
  <1> QED BY <1>1, OwnerInvInit, OwnerInvSuffices, PTL DEF IdFirstSpec

\* The owners whose engine looks at the clock first (settlement of pairs, governance).
THEOREM ClockFirstOwnersKeepJournals ==
    ASSUME \A d, c : After(d, c) = AfterClockFirst(d, c)
    PROVE  ClockFirstSpec => []OwnersKeepTheirJournals
  <1>1. OwnerInv /\ [ClockFirstNext]_ownerVars => OwnerInv'
    BY ClockFirstIsAnEngine, ClockFirstStep, OwnerInvNext
  <1> QED BY <1>1, OwnerInvInit, OwnerInvSuffices, PTL DEF ClockFirstSpec
=============================================================================
