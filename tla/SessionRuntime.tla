---------------------------- MODULE SessionRuntime ----------------------------
(***************************************************************************)
(* The durable actor around the session coordinator, crates/session-       *)
(* runtime: senders put commands into a bounded channel, one task takes    *)
(* them out, journals and syncs each before the coordinator applies it,    *)
(* and publishes a snapshot; any failure ends the task.  spawn_runtime     *)
(* rebuilds the coordinator from the journal, against a checkpoint when it *)
(* is given one.                                                           *)
(*                                                                         *)
(* The phase of JournalFirst is the phase of the task; "poisoned" and      *)
(* "stopped" are a task that returned.  The coordinator variables are the  *)
(* live coordinator, or the one a restart rebuilds.                        *)
(***************************************************************************)
EXTENDS MarketSession, JournalFirst, SequenceTheorems, TLAPS

CONSTANTS
    Commands,    \* the registrations and frames the senders may submit
    Paths,       \* the checkpoint files they may ask for
    Capacity     \* channel_capacity

ASSUME CapacityAssumption == Capacity \in Nat \ {0}

VARIABLES
    queue,       \* the channel: requests accepted by try_send
    senders,     \* some RuntimeIngress is alive
    published,   \* the watch channel: mode, last_sequence and coordinator
    files,       \* [Paths -> checkpoint]
    trusted,     \* the checkpoint given to the restart
    standing     \* history: of the snapshot and of each file, whether what it attests is
                 \* "durable", "provisional" or "lost"

runtimeVars == <<queue, senders, published, files, trusted, standing>>
vars == <<sessionVars, journalVars, runtimeVars>>

Request == [op : {"Apply"}, command : Commands] \cup [op : {"Checkpoint"}, path : Paths]
           \cup [op : {"Shutdown"}]
Digest == <<sessions, lastNow, haltReason>>
NoCheckpoint == [sequence |-> 0, digest |-> <<>>]
\* Checkpoints of another journal.
ForeignCheckpoints == [sequence : {1, MaxLog + 1}, digest : {<<"foreign">>}]
TornCheckpoint == [sequence |-> 0, digest |-> <<"torn">>]

\* What is attested: the snapshot on the watch channel and the checkpoint files.
Snapshot == "snapshot"
ASSUME PathsAssumption == Snapshot \notin Paths
Places == Paths \cup {Snapshot}
Attests(q) == IF q = Snapshot THEN published.mode # "Halted" ELSE files[q].sequence > 0
Attestation(q) == IF q = Snapshot THEN published ELSE files[q]

\* spawn_runtime syncs nothing, so what a restarted task attests of entries an earlier
\* process left unsynced is provisional until the next sync, and a power loss cuts it.
Standings == {"durable", "provisional", "lost"}
Standing(sequence) == IF sequence <= synced THEN "durable" ELSE "provisional"
Stands(q) ==
    IF standing[q] = "provisional"
    THEN IF Attestation(q).sequence <= synced' THEN "durable"
         ELSE IF Attestation(q).sequence > Len(log') THEN "lost" ELSE "provisional"
    ELSE standing[q]
OthersStand(p, mine) ==
    standing' = [q \in Places |-> IF q = p THEN mine ELSE Stands(q)]

\* send_replace of a snapshot of the coordinator as the step leaves it.
Publish(mode, sequence) ==
    /\ published' = [mode |-> mode, sequence |-> sequence, digest |-> Digest']
    /\ OthersStand(Snapshot, "durable")

Init ==
    /\ SessionInit /\ JournalInit
    /\ queue = <<>> /\ senders = TRUE
    /\ published = [mode |-> "Ready", sequence |-> 0, digest |-> Digest]
    /\ files = [p \in Paths |-> NoCheckpoint]
    /\ trusted = NoCheckpoint
    /\ standing = [q \in Places |-> "durable"]

TypeOK ==
    /\ SessionTypeOK
    /\ phase \in {"running", "appended", "poisoned", "stopped", "crashed", "recovering",
                  "unrecoverable"}
    /\ queue \in Seq(Request) /\ Len(queue) <= Capacity
    /\ published.mode \in {"Ready", "Halted", "Closed", "Shutdown"}
    /\ published.sequence \in 0..Len(log) + 1
    /\ synced \in 0..Len(log)
    /\ standing \in [Places -> Standings]

\* The task holds the receiver: try_send answers Full or Ok, otherwise Closed.
Receiving == phase \in {"running", "appended"}

-----------------------------------------------------------------------------
(***************************************************************************)
(* The senders                                                             *)
(***************************************************************************)

HasRoom == Len(queue) < Capacity

\* The last conjunct keeps the commands accepted within the bound on the journal.
TrySend(r) ==
    /\ senders /\ Receiving /\ HasRoom
    /\ r.op = "Apply" => Len(log) + Len(queue) < MaxLog
    /\ queue' = Append(queue, r)
    /\ UNCHANGED <<sessionVars, journalVars, senders, published, files, trusted, standing>>

DropSenders ==
    /\ senders /\ Receiving
    /\ senders' = FALSE
    /\ UNCHANGED <<sessionVars, journalVars, queue, published, files, trusted, standing>>

-----------------------------------------------------------------------------
(***************************************************************************)
(* The task                                                                *)
(***************************************************************************)

\* apply_command
ApplyCommand(c) ==
    \/ c.op = "Register" /\ Register(c.identity)
    \/ c.op = "Coordinate" /\ Evaluate(c.frame)

\* The head of the channel is a request of this kind and is taken out.
Receive(op) ==
    /\ phase = "running" /\ queue # <<>> /\ Head(queue).op = op
    /\ queue' = Tail(queue)
    /\ UNCHANGED senders

AppendCommand ==
    /\ Receive("Apply")
    /\ AppendEntry(Head(queue).command)
    /\ UNCHANGED <<sessionVars, published, files, trusted, standing>>

\* The append fails: last_sequence and the coordinator stay.
AppendFails ==
    /\ Receive("Apply")
    /\ FailAppend(Head(queue).command)
    /\ UNCHANGED <<sessionVars, files, trusted>>
    /\ Publish("Halted", published.sequence)

\* The sync returns and the coordinator accepts the command.
Install ==
    /\ SyncEntry
    /\ ApplyCommand(Last(log)) /\ haltReason' = "None"
    /\ Publish("Ready", Len(log))
    /\ UNCHANGED <<queue, senders, files, trusted>>

\* The sync returns and the coordinator halts on the command, which stays journaled.
Refuse ==
    /\ phase = "appended"
    /\ ApplyCommand(Last(log)) /\ haltReason' # "None"
    /\ synced' = Len(log) /\ phase' = "poisoned"
    /\ Publish("Halted", Len(log))
    /\ UNCHANGED <<log, cursor, queue, senders, files, trusted>>

\* The sync fails: last_sequence has moved, the coordinator has not.
SyncFails ==
    /\ phase = "appended" /\ FailSync
    /\ UNCHANGED <<sessionVars, queue, senders, files, trusted>>
    /\ Publish("Halted", Len(log))

Writable(path) == files[path] = NoCheckpoint /\ Len(log) > 0

\* write_checkpoint creates a new file and syncs it.
WriteCheckpoint ==
    /\ Receive("Checkpoint") /\ Writable(Head(queue).path)
    /\ files' = [files EXCEPT ![Head(queue).path] = [sequence |-> Len(log), digest |-> Digest]]
    /\ UNCHANGED <<sessionVars, journalVars, published, trusted>>
    /\ OthersStand(Head(queue).path, Standing(Len(log)))

\* An empty journal, an existing file or an I/O error, which may leave a torn file,
\* ends the task.
CheckpointFails ==
    /\ Receive("Checkpoint")
    /\ phase' = "poisoned"
    /\ files' \in {files} \cup
         {[files EXCEPT ![p] = TornCheckpoint] : p \in {q \in {Head(queue).path} : Writable(q)}}
    /\ UNCHANGED <<sessionVars, log, synced, cursor, trusted>>
    /\ Publish("Halted", Len(log))

\* terminal_sync, after a shutdown request or when every sender is gone.
Terminates(mode) ==
    /\ phase' = "stopped"
    /\ UNCHANGED <<sessionVars, log, cursor, files, trusted>>
    /\ \/ synced' = Len(log) /\ Publish(mode, Len(log))
       \/ UNCHANGED synced /\ Publish("Halted", Len(log))

\* Wrong variant, for mutation only: the request leaves the loop of the match only.
ShutdownStaysUp ==
    /\ Receive("Shutdown")
    /\ synced' = Len(log)
    /\ UNCHANGED <<sessionVars, log, phase, cursor, published, files, trusted, standing>>

Shutdown == Receive("Shutdown") /\ Terminates("Shutdown")

Close ==
    /\ phase = "running" /\ queue = <<>> /\ ~senders
    /\ Terminates("Closed")
    /\ UNCHANGED <<queue, senders>>

TaskStep ==
    \/ AppendCommand \/ AppendFails \/ Install \/ Refuse \/ SyncFails
    \/ WriteCheckpoint \/ CheckpointFails \/ Shutdown \/ Close

-----------------------------------------------------------------------------
(***************************************************************************)
(* Failures and spawn_runtime                                              *)
(***************************************************************************)

Crash ==
    /\ ProcessCrash \/ PowerLoss
    /\ queue' = <<>> /\ senders' = FALSE
    /\ OthersStand(Snapshot, Stands(Snapshot))
    /\ UNCHANGED <<sessionVars, published, files, trusted>>

\* A restart against no checkpoint, or one of the files.
Spawn(checkpoint) ==
    /\ BeginReplay
    /\ sessions' = [k \in {} |-> {}] /\ lastNow' = -1 /\ haltReason' = "None"
    /\ trusted' = checkpoint
    /\ UNCHANGED <<queue, senders, published, files, standing>>

\* An entry replays when the coordinator accepts it and, at the checkpoint's
\* sequence, reaches its digest.
Replay ==
    /\ ReplayEntry
    /\ ApplyCommand(log[cursor + 1]) /\ haltReason' = "None"
    /\ trusted.sequence = cursor + 1 => Digest' = trusted.digest
    /\ UNCHANGED runtimeVars

\* The coordinator halts on an entry, as it did when it was journaled.
ReplayRefused ==
    /\ RefuseEntry
    /\ ApplyCommand(log[cursor + 1]) /\ haltReason' # "None"
    /\ UNCHANGED runtimeVars

\* spawn_runtime returns an error; it may be called again without the checkpoint.
CheckpointMismatch ==
    /\ phase = "recovering" /\ cursor < Len(log) /\ trusted.sequence = cursor + 1
    /\ ApplyCommand(log[cursor + 1]) /\ haltReason' = "None"
    /\ Digest' # trusted.digest
    /\ phase' = "crashed"
    /\ UNCHANGED <<log, synced, cursor, runtimeVars>>

CheckpointSequenceMissing ==
    /\ phase = "recovering" /\ cursor = Len(log) /\ trusted.sequence > Len(log)
    /\ phase' = "crashed"
    /\ UNCHANGED <<sessionVars, log, synced, cursor, runtimeVars>>

Recovered ==
    /\ trusted.sequence <= Len(log) /\ EndReplay
    /\ senders' = TRUE /\ queue' = <<>>
    /\ UNCHANGED <<sessionVars, files, trusted>>
    /\ published' = [mode |-> "Ready", sequence |-> Len(log), digest |-> Digest]
    /\ OthersStand(Snapshot, Standing(Len(log)))

Next ==
    \/ \E r \in Request : TrySend(r)
    \/ DropSenders \/ TaskStep
    \/ Crash
    \/ \E p \in Paths : files[p] # TornCheckpoint /\ Spawn(files[p])
    \/ Spawn(NoCheckpoint)
    \/ \E checkpoint \in ForeignCheckpoints : Spawn(checkpoint)
    \/ Replay \/ ReplayRefused \/ CheckpointMismatch \/ CheckpointSequenceMissing \/ Recovered

Spec == Init /\ [][Next]_vars

\* The task is polled as long as it can do something.
FairSpec == Spec /\ WF_vars(TaskStep)

-----------------------------------------------------------------------------
(***************************************************************************)
(* Properties                                                              *)
(***************************************************************************)

\* "Online, journal replay, checkpoint-validated replay, and restarted runtime
\* produce identical coordinator digests": what a snapshot that is not a halt shows
\* and what a checkpoint file attests, every later restart passes through, at its entry
\* and with its digest, whatever processes die and machines go down.  It lies within
\* what is synced, except what a restarted task attested of unsynced entries, and a
\* power loss before the next sync can take that, and nothing else.
RestartReproduces ==
    \A q \in Places : Attests(q) =>
        /\ standing[q] = "durable" => Attestation(q).sequence <= synced
        /\ standing[q] = "provisional" => Attestation(q).sequence <= Len(log)
        /\ standing[q] # "lost" /\ phase = "recovering" /\ cursor = Attestation(q).sequence
               => Digest = Attestation(q).digest

\* "Shutdown synchronizes the journal and returns a terminal snapshot": the task
\* does not stay up behind an accepted shutdown request.
ShutdownEnds ==
    (\E n \in DOMAIN queue : queue[n].op = "Shutdown") ~> ~Receiving

-----------------------------------------------------------------------------
(***************************************************************************)
(* Proofs                                                                  *)
(*                                                                         *)
(* The journal has a course: the digests a coordinator passes through when *)
(* it accepts the entries one by one.  The live coordinator, the one being *)
(* rebuilt and everything attested that is not lost are on that course,    *)
(* each at its place, and what is durable lies where no power loss cuts.   *)
(***************************************************************************)
EmptyDigest == <<[k \in {} |-> {}], -1, "None">>

\* The digest an accepted command leads to.
AcceptedDigest(d, c) ==
    IF c.op = "Register"
    THEN <<[k \in DOMAIN d[1] \cup {Slot(c.identity)} |->
               IF k \in DOMAIN d[1] THEN d[1][k] ELSE Fresh(c.identity)], d[2], "None">>
    ELSE <<[k \in DOMAIN d[1] |->
               Stepped(d[1][k], c.frame.sources[k], c.frame.ready, c.frame.now)],
           c.frame.now, "None">>

CourseOf(course, entries) ==
    /\ course[0] = EmptyDigest
    /\ \A i \in 0..Len(entries) - 1 : course[i + 1] = AcceptedDigest(course[i], entries[i + 1])

\* Where what is attested lies.
Placed(course, stand, a) ==
    /\ stand = "durable" => a.sequence <= synced
    /\ stand # "lost" => a.sequence \in 0..Len(log) /\ a.digest = course[a.sequence]

OnCourse(course) ==
    /\ CourseOf(course, log)
    /\ phase = "running" => Digest = course[Len(log)]
    /\ phase = "appended" => Len(log) > 0 /\ Digest = course[Len(log) - 1]
    /\ phase = "recovering" => cursor <= Len(log) /\ Digest = course[cursor]
    /\ \A q \in Places : Attests(q) => Placed(course, standing[q], Attestation(q))

RuntimeInv ==
    /\ log \in Seq(Commands) /\ synced \in 0..Len(log) /\ cursor \in Nat
    /\ queue \in Seq(Request)
    /\ files = [p \in Paths |-> files[p]]
    /\ standing \in [Places -> Standings]
    /\ \E course : OnCourse(course)

\* What the coordinator does with a command it accepts is a function of its digest.
LEMMA AcceptedStep ==
    ASSUME NEW c, ApplyCommand(c), haltReason' = "None"
    PROVE  Digest' = AcceptedDigest(Digest, c)
  <1>1. CASE c.op = "Register" /\ Register(c.identity)
    BY <1>1 DEF Register, AcceptedDigest, Digest
  <1>2. CASE c.op = "Coordinate" /\ Evaluate(c.frame)
    <2>1. /\ sessions' = [k \in DOMAIN sessions |->
                Stepped(sessions[k], c.frame.sources[k], c.frame.ready, c.frame.now)]
          /\ lastNow' = c.frame.now
      BY <1>2 DEF Evaluate
    <2>2. c.op # "Register"
      BY <1>2
    <2> QED BY <2>1, <2>2 DEF AcceptedDigest, Digest
  <1> QED BY <1>1, <1>2 DEF ApplyCommand

\* The requests taken from the channel.
LEMMA Received ==
    ASSUME RuntimeInv, NEW op, Receive(op)
    PROVE  /\ queue' \in Seq(Request) /\ Head(queue) \in Request
           /\ op = "Apply" => Head(queue).command \in Commands
           /\ op = "Checkpoint" => Head(queue).path \in Paths
  <1>1. queue \in Seq(Request) /\ queue # <<>> /\ queue' = Tail(queue) /\ Head(queue).op = op
    BY DEF RuntimeInv, Receive
  <1>2. queue' \in Seq(Request) /\ Head(queue) \in Request
    BY <1>1
  <1> QED BY <1>1, <1>2 DEF Request

\* A course goes on by one entry, and what was on it stays there.
LEMMA CourseExtends ==
    ASSUME log \in Seq(Commands), NEW course, CourseOf(course, log), NEW c \in Commands
    PROVE  /\ Append(log, c) \in Seq(Commands) /\ Len(Append(log, c)) = Len(log) + 1
           /\ \E next : /\ CourseOf(next, Append(log, c))
                        /\ \A i \in 0..Len(log) : next[i] = course[i]
  <1> DEFINE n == Len(log)
             longer == Append(log, c)
             next == [i \in Nat |-> IF i <= n THEN course[i] ELSE AcceptedDigest(course[n], c)]
  <1>1. /\ longer \in Seq(Commands) /\ Len(longer) = n + 1 /\ n \in Nat
        /\ \A i \in 1..n : longer[i] = log[i]
        /\ longer[n + 1] = c
    BY AppendProperties, LenProperties
  <1>2. \A i \in 0..n : next[i] = course[i]
    BY <1>1
  <1>3. next[n + 1] = AcceptedDigest(course[n], c)
    BY <1>1
  <1> HIDE DEF next, longer, n
  <1>4. ASSUME NEW i \in 0..n
        PROVE  next[i + 1] = AcceptedDigest(next[i], longer[i + 1])
    <2>1. CASE i = n
      BY <1>1, <1>2, <1>3, <2>1
    <2>2. CASE i < n
      <3>1. i + 1 \in 1..n /\ i \in 0..n - 1 /\ i + 1 \in 0..n
        BY <1>1, <2>2
      <3>2. course[i + 1] = AcceptedDigest(course[i], log[i + 1])
        BY <3>1 DEF CourseOf, n
      <3> QED BY <1>1, <1>2, <3>1, <3>2
    <2> QED BY <1>1, <2>1, <2>2
  <1>5. next[0] = EmptyDigest
    BY <1>1, <1>2 DEF CourseOf
  <1>6. \A i \in 0..Len(longer) - 1 : i \in 0..n
    BY <1>1
  <1>7. CourseOf(next, longer)
    BY <1>4, <1>5, <1>6 DEF CourseOf
  <1> QED BY <1>1, <1>2, <1>7 DEF n, longer

\* A course of a journal is one of its prefixes.
LEMMA CourseShortens ==
    ASSUME log \in Seq(Commands), NEW course, CourseOf(course, log), NEW n \in 0..Len(log)
    PROVE  /\ SubSeq(log, 1, n) \in Seq(Commands) /\ Len(SubSeq(log, 1, n)) = n
           /\ CourseOf(course, SubSeq(log, 1, n))
  <1> DEFINE shorter == SubSeq(log, 1, n)
  <1>1. Len(log) \in Nat /\ n \in Nat /\ n <= Len(log)
    BY LenProperties
  <1>2. /\ shorter \in Seq(Commands) /\ Len(shorter) = n
        /\ \A i \in 1..n : shorter[i] = log[i]
    BY <1>1, SubSeqProperties
  <1> HIDE DEF shorter
  <1>3. ASSUME NEW i \in 0..n - 1
        PROVE  course[i + 1] = AcceptedDigest(course[i], shorter[i + 1])
    <2>1. i + 1 \in 1..n /\ i \in 0..Len(log) - 1
      BY <1>1
    <2> QED BY <1>2, <2>1 DEF CourseOf
  <1> QED BY <1>2, <1>3 DEF CourseOf, shorter

\* What is attested keeps its place through every step that leaves it alone, wherever
\* the journal goes on or is cut.
LEMMA Carried ==
    ASSUME RuntimeInv, NEW course, OnCourse(course), NEW next,
           Len(log') \in Nat, synced' \in 0..Len(log'), synced <= synced',
           \A i \in 0..Len(log) : i <= Len(log') => next[i] = course[i],
           NEW q \in Places,
           IF q = Snapshot THEN published' = published ELSE files'[q] = files[q],
           \/ standing'[q] = Stands(q)
           \/ standing'[q] = standing[q] /\ Len(log) <= Len(log')
    PROVE  Attests(q)' => Placed(next, standing[q], Attestation(q))'
  <1> DEFINE a == Attestation(q)
  <1> SUFFICES ASSUME Attests(q)'
               PROVE  Placed(next, standing[q], a)'
    OBVIOUS
  <1>1. a' = a /\ Attests(q)
    BY DEF Attestation, Attests
  <1>2. Placed(course, standing[q], a) /\ standing[q] \in Standings
    BY <1>1 DEF OnCourse, RuntimeInv
  <1>3. Len(log) \in Nat /\ synced \in 0..Len(log)
    BY LenProperties DEF RuntimeInv
  <1>4. /\ standing[q] # "lost" =>
               a.sequence \in 0..Len(log) /\ a.digest = course[a.sequence]
        /\ standing[q] = "durable" => a.sequence <= synced
    BY <1>2 DEF Placed
  <1>s. \/ standing'[q] = standing[q] /\ Len(log) <= Len(log')
        \/ standing'[q] = standing[q] /\ standing[q] # "provisional"
        \/ standing[q] = "provisional" /\ standing'[q] = "durable" /\ a.sequence <= synced'
        \/ standing'[q] = "lost"
        \/ standing'[q] = "provisional" /\ standing[q] = "provisional"
           /\ ~(a.sequence > Len(log'))
    BY DEF Stands
  <1> HIDE DEF a
  <1>5. standing'[q] = "durable" => a.sequence <= synced'
    BY <1>3, <1>4, <1>s
  <1>6. standing'[q] # "lost" => standing[q] # "lost" /\ a.sequence <= Len(log')
    BY <1>2, <1>3, <1>4, <1>s DEF Standings
  <1>7. standing'[q] # "lost" => a.sequence \in 0..Len(log') /\ a.digest = next[a.sequence]
    BY <1>3, <1>4, <1>6
  <1> QED BY <1>1, <1>5, <1>7 DEF Placed

\* The standing of every place stays one.
LEMMA StandingStays ==
    ASSUME RuntimeInv, NEW p, NEW mine, OthersStand(p, mine), mine \in Standings
    PROVE  /\ standing' \in [Places -> Standings]
           /\ p \in Places => standing'[p] = mine
           /\ \A q \in Places : q # p => standing'[q] = Stands(q)
  <1>1. \A q \in Places : Stands(q) \in Standings
    BY DEF Stands, Standings, RuntimeInv
  <1> QED BY <1>1 DEF OthersStand

LEMMA InPlaces == Snapshot \in Places /\ \A p \in Paths : p \in Places /\ p # Snapshot
  BY PathsAssumption DEF Places

\* The initial states satisfy the invariant.
LEMMA RuntimeInvInit == Init => RuntimeInv
  <1> SUFFICES ASSUME Init PROVE RuntimeInv
    OBVIOUS
  <1> DEFINE course == [i \in {0} |-> EmptyDigest]
  <1>1. /\ log = <<>> /\ synced = 0 /\ cursor = 0 /\ phase = "running" /\ queue = <<>>
        /\ files = [p \in Paths |-> NoCheckpoint]
    BY DEF Init, JournalInit
  <1>2. log \in Seq(Commands) /\ queue \in Seq(Request) /\ Len(log) = 0
    BY <1>1, EmptySeq
  <1>3. course[0] = EmptyDigest /\ Digest = EmptyDigest
    BY DEF Init, SessionInit, Digest, EmptyDigest
  <1>4. CourseOf(course, log)
    BY <1>2, <1>3 DEF CourseOf
  <1>5. published.sequence = 0 /\ published.digest = Digest
    BY DEF Init
  <1>9. standing = [q \in Places |-> "durable"]
    BY DEF Init
  <1>6. \A p \in Paths : files[p].sequence = 0
    BY <1>1 DEF NoCheckpoint
  <1> HIDE DEF course
  <1>q. \A q \in Places : Attests(q) => Placed(course, standing[q], Attestation(q))
    BY <1>1, <1>2, <1>3, <1>5, <1>6 DEF Places, Attests, Attestation, Placed
  <1>7. OnCourse(course)
    BY <1>1, <1>2, <1>3, <1>4, <1>q DEF OnCourse
  <1>8. files = [p \in Paths |-> files[p]] /\ standing \in [Places -> Standings]
    BY <1>1, <1>9 DEF Standings
  <1> QED BY <1>1, <1>2, <1>7, <1>8 DEF RuntimeInv

\* A published snapshot that is a halt attests nothing.
LEMMA HaltPublished ==
    ASSUME NEW n, Publish("Halted", n)
    PROVE  ~Attests(Snapshot)' /\ OthersStand(Snapshot, "durable")
  BY DEF Publish, Attests

\* A live snapshot taken with the journal synced lies on the course, and the files stay.
LEMMA LiveSnapshot ==
    ASSUME RuntimeInv, NEW course, OnCourse(course), NEW mode,
           log' = log, synced' = Len(log), files' = files, OthersStand(Snapshot, "durable"),
           published' = [mode |-> mode, sequence |-> Len(log), digest |-> Digest'],
           Digest' = course[Len(log)]
    PROVE  \A q \in Places : Attests(q)' => Placed(course, standing[q], Attestation(q))'
  <1>t. Len(log) \in Nat /\ synced \in 0..Len(log)
    BY LenProperties DEF RuntimeInv
  <1>1. /\ standing'[Snapshot] = "durable"
        /\ \A q \in Places : q # Snapshot => standing'[q] = Stands(q)
    BY InPlaces, StandingStays DEF Standings
  <1>2. Placed(course, standing[Snapshot], Attestation(Snapshot))'
    BY <1>t, <1>1 DEF Placed, Attestation
  <1>3. \A q \in Places : q # Snapshot =>
            (Attests(q)' => Placed(course, standing[q], Attestation(q))')
    BY <1>t, <1>1, Carried
  <1> QED BY <1>2, <1>3

\* A halted snapshot attests nothing, and the files stay.
LEMMA HaltedSnapshot ==
    ASSUME RuntimeInv, NEW course, OnCourse(course),
           log' = log, synced' \in {synced, Len(log)}, files' = files,
           OthersStand(Snapshot, "durable"), ~Attests(Snapshot)'
    PROVE  \A q \in Places : Attests(q)' => Placed(course, standing[q], Attestation(q))'
  <1>t. Len(log) \in Nat /\ synced \in 0..Len(log)
    BY LenProperties DEF RuntimeInv
  <1>1. \A q \in Places : q # Snapshot => standing'[q] = Stands(q)
    BY StandingStays DEF Standings
  <1>3. \A q \in Places : q # Snapshot =>
            (Attests(q)' => Placed(course, standing[q], Attestation(q))')
    BY <1>t, <1>1, Carried
  <1> QED BY <1>3

\* A step of the task keeps the invariant.
LEMMA TaskKeepsCourse ==
    ASSUME RuntimeInv, TaskStep
    PROVE  RuntimeInv'
  <1> PICK course : OnCourse(course)
    BY DEF RuntimeInv
  <1> USE DEF OnCourse
  <1>t. /\ log \in Seq(Commands) /\ synced \in 0..Len(log) /\ cursor \in Nat /\ Len(log) \in Nat
        /\ queue \in Seq(Request) /\ files = [p \in Paths |-> files[p]]
        /\ standing \in [Places -> Standings]
    BY LenProperties DEF RuntimeInv
  <1>s. "durable" \in Standings /\ Standing(Len(log)) \in Standings
    BY DEF Standing, Standings
  <1>1. CASE AppendCommand
    <2> DEFINE c == Head(queue).command
    <2>1. queue' \in Seq(Request) /\ c \in Commands
      BY <1>1, Received DEF AppendCommand
    <2>2. /\ phase = "running" /\ log' = Append(log, c) /\ phase' = "appended"
          /\ synced' = synced /\ cursor' = cursor /\ Digest' = Digest
          /\ published' = published /\ files' = files /\ standing' = standing
      BY <1>1 DEF AppendCommand, AppendEntry, sessionVars, Digest
    <2> HIDE DEF c
    <2>3. /\ Append(log, c) \in Seq(Commands) /\ Len(Append(log, c)) = Len(log) + 1
          /\ \E next : /\ CourseOf(next, Append(log, c))
                       /\ \A i \in 0..Len(log) : next[i] = course[i]
      BY <1>t, <2>1, CourseExtends
    <2>4. PICK next : CourseOf(next, log') /\ \A i \in 0..Len(log) : next[i] = course[i]
      BY <2>2, <2>3
    <2>q. \A q \in Places : Attests(q)' => Placed(next, standing[q], Attestation(q))'
      BY <1>t, <2>2, <2>3, <2>4, Carried
    <2>5. OnCourse(next)'
      BY <1>t, <2>2, <2>3, <2>4, <2>q
    <2> QED BY <1>t, <2>1, <2>2, <2>3, <2>5 DEF RuntimeInv
  <1>2. CASE AppendFails
    <2> DEFINE c == Head(queue).command
    <2>1. queue' \in Seq(Request) /\ c \in Commands
      BY <1>2, Received DEF AppendFails
    <2>2. /\ log' \in {log, Append(log, c)} /\ phase' = "poisoned"
          /\ synced' = synced /\ cursor' = cursor /\ files' = files
      BY <1>2 DEF AppendFails, FailAppend
    <2>p. ~Attests(Snapshot)' /\ OthersStand(Snapshot, "durable")
      BY <1>2, HaltPublished DEF AppendFails
    <2>s. /\ standing' \in [Places -> Standings]
          /\ \A q \in Places : q # Snapshot => standing'[q] = Stands(q)
      BY <1>s, <2>p, StandingStays
    <2> HIDE DEF c
    <2>3. /\ Append(log, c) \in Seq(Commands) /\ Len(Append(log, c)) = Len(log) + 1
          /\ \E next : /\ CourseOf(next, Append(log, c))
                       /\ \A i \in 0..Len(log) : next[i] = course[i]
      BY <1>t, <2>1, CourseExtends
    <2>4. PICK next : CourseOf(next, log') /\ \A i \in 0..Len(log) : next[i] = course[i]
      BY <2>2, <2>3
    <2>6. log' \in Seq(Commands) /\ Len(log') >= Len(log) /\ Len(log') \in Nat
      BY <1>t, <2>2, <2>3
    <2>q. \A q \in Places : Attests(q)' => Placed(next, standing[q], Attestation(q))'
      <3> SUFFICES ASSUME NEW q \in Places, q # Snapshot
                   PROVE  Attests(q)' => Placed(next, standing[q], Attestation(q))'
        BY <2>p
      <3> QED BY <1>t, <2>2, <2>4, <2>6, <2>s, Carried
    <2>5. OnCourse(next)'
      BY <1>t, <2>2, <2>4, <2>q
    <2> QED BY <1>t, <2>1, <2>2, <2>5, <2>6, <2>s DEF RuntimeInv
  <1>3. CASE Install
    <2>1. /\ phase = "appended" /\ synced' = Len(log) /\ phase' = "running" /\ log' = log
          /\ cursor' = cursor /\ queue' = queue /\ files' = files
          /\ published' = [mode |-> "Ready", sequence |-> Len(log), digest |-> Digest']
          /\ OthersStand(Snapshot, "durable")
      BY <1>3 DEF Install, SyncEntry, Publish
    <2>2. Len(log) > 0 /\ Last(log) = log[Len(log)]
      BY <2>1 DEF Last
    <2>3. Digest' = AcceptedDigest(Digest, Last(log))
      BY <1>3, AcceptedStep DEF Install
    <2>4. Len(log) - 1 \in 0..Len(log) - 1 /\ Len(log) - 1 + 1 = Len(log)
      BY <1>t, <2>2
    <2>5. course[Len(log)] = AcceptedDigest(course[Len(log) - 1], log[Len(log)])
      BY <2>4 DEF CourseOf
    <2>6. Digest' = course[Len(log)]
      BY <2>1, <2>2, <2>3, <2>5
    <2>q. \A q \in Places : Attests(q)' => Placed(course, standing[q], Attestation(q))'
      BY <1>s, <2>1, <2>6, LiveSnapshot
    <2>s. standing' \in [Places -> Standings]
      BY <1>s, <2>1, StandingStays
    <2>7. OnCourse(course)'
      BY <1>t, <2>1, <2>6, <2>q
    <2> QED BY <1>t, <2>1, <2>7, <2>s DEF RuntimeInv
  <1>4. CASE Refuse \/ SyncFails
    <2>1. /\ phase' = "poisoned" /\ log' = log /\ synced' \in {synced, Len(log)}
          /\ cursor' = cursor /\ queue' = queue /\ files' = files
      BY <1>4 DEF Refuse, SyncFails, FailSync
    <2>2. ~Attests(Snapshot)' /\ OthersStand(Snapshot, "durable")
      BY <1>4, HaltPublished DEF Refuse, SyncFails
    <2>q. \A q \in Places : Attests(q)' => Placed(course, standing[q], Attestation(q))'
      BY <1>t, <2>1, <2>2, HaltedSnapshot
    <2>s. standing' \in [Places -> Standings]
      BY <1>s, <2>2, StandingStays
    <2>3. OnCourse(course)'
      BY <1>t, <2>1, <2>q
    <2> QED BY <1>t, <2>1, <2>3, <2>s DEF RuntimeInv
  <1>5. CASE WriteCheckpoint
    <2> DEFINE path == Head(queue).path
    <2>1. queue' \in Seq(Request) /\ path \in Paths
      BY <1>5, Received DEF WriteCheckpoint
    <2>2. /\ phase = "running" /\ phase' = phase /\ log' = log /\ synced' = synced
          /\ cursor' = cursor /\ published' = published /\ Digest' = Digest
          /\ files' = [files EXCEPT ![path] = [sequence |-> Len(log), digest |-> Digest]]
          /\ OthersStand(path, Standing(Len(log)))
      BY <1>5 DEF WriteCheckpoint, Receive, journalVars, sessionVars, Digest
    <2> HIDE DEF path
    <2>3. /\ files' = [p \in Paths |-> files'[p]]
          /\ \A p \in Paths : p # path => files'[p] = files[p]
          /\ files'[path] = [sequence |-> Len(log), digest |-> Digest]
      BY <1>t, <2>1, <2>2
    <2>s. /\ standing' \in [Places -> Standings] /\ standing'[path] = Standing(Len(log))
          /\ \A q \in Places : q # path => standing'[q] = Stands(q)
      BY <1>s, <2>1, <2>2, InPlaces, StandingStays
    <2>4. ASSUME NEW q \in Places
          PROVE  Attests(q)' => Placed(course, standing[q], Attestation(q))'
      <3>1. CASE q = path
        <4>1. Attestation(q)' = [sequence |-> Len(log), digest |-> course[Len(log)]]
          BY <2>1, <2>2, <2>3, <3>1, InPlaces DEF Attestation
        <4>2. standing'[q] = "durable" => Len(log) <= synced
          BY <2>s, <3>1 DEF Standing
        <4> QED BY <1>t, <2>2, <4>1, <4>2 DEF Placed
      <3>2. CASE q # path
        <4>1. IF q = Snapshot THEN published' = published ELSE files'[q] = files[q]
          BY <2>2, <2>3, <3>2 DEF Places
        <4>2. Len(log') \in Nat /\ synced' \in 0..Len(log') /\ synced <= synced'
          BY <1>t, <2>2
        <4>3. standing'[q] = Stands(q)
          BY <2>s, <3>2
        <4>4. \A i \in 0..Len(log) : i <= Len(log') => course[i] = course[i]
          OBVIOUS
        <4> QED BY <4>1, <4>2, <4>3, <4>4, Carried
      <3> QED BY <3>1, <3>2
    <2>5. OnCourse(course)'
      BY <1>t, <2>2, <2>4
    <2> QED BY <1>t, <2>1, <2>2, <2>3, <2>5, <2>s DEF RuntimeInv
  <1>6. CASE CheckpointFails
    <2> DEFINE path == Head(queue).path
    <2>1. queue' \in Seq(Request)
      BY <1>6, Received DEF CheckpointFails
    <2>2. /\ phase' = "poisoned" /\ log' = log /\ synced' = synced /\ cursor' = cursor
          /\ files' = files \/ files' = [files EXCEPT ![path] = TornCheckpoint]
      BY <1>6 DEF CheckpointFails
    <2>p. ~Attests(Snapshot)' /\ OthersStand(Snapshot, "durable")
      BY <1>6, HaltPublished DEF CheckpointFails
    <2> HIDE DEF path
    <2>3. /\ files' = [p \in Paths |-> files'[p]]
          /\ \A p \in Paths : files'[p] = files[p] \/ files'[p] = TornCheckpoint
      BY <1>t, <2>2
    <2>s. /\ standing' \in [Places -> Standings]
          /\ \A q \in Places : q # Snapshot => standing'[q] = Stands(q)
      BY <1>s, <2>p, StandingStays
    <2>4. ASSUME NEW q \in Places, q # Snapshot
          PROVE  Attests(q)' => Placed(course, standing[q], Attestation(q))'
      <3>1. q \in Paths
        BY <2>4 DEF Places
      <3>2. CASE files'[q] = files[q]
        <4>1. Len(log') \in Nat /\ synced' \in 0..Len(log') /\ synced <= synced'
          BY <1>t, <2>2
        <4>2. standing'[q] = Stands(q)
          BY <2>4, <2>s
        <4>3. \A i \in 0..Len(log) : i <= Len(log') => course[i] = course[i]
          OBVIOUS
        <4> QED BY <2>4, <3>2, <4>1, <4>2, <4>3, Carried
      <3>3. CASE files'[q] = TornCheckpoint
        BY <2>4, <3>3 DEF Attests, TornCheckpoint
      <3> QED BY <2>3, <3>1, <3>2, <3>3
    <2>5. OnCourse(course)'
      BY <1>t, <2>2, <2>p, <2>4
    <2> QED BY <1>t, <2>1, <2>2, <2>3, <2>5, <2>s DEF RuntimeInv
  <1>7. CASE Shutdown \/ Close
    <2>1. queue' \in Seq(Request)
      BY <1>7, <1>t, Received DEF Shutdown, Close
    <2>2. /\ phase = "running" /\ phase' = "stopped" /\ log' = log /\ cursor' = cursor
          /\ files' = files /\ Digest' = Digest
          /\ \/ synced' = Len(log) /\ \E m : Publish(m, Len(log))
             \/ synced' = synced /\ Publish("Halted", Len(log))
      BY <1>7 DEF Shutdown, Close, Terminates, Receive, sessionVars, Digest
    <2>p. OthersStand(Snapshot, "durable")
      BY <2>2 DEF Publish
    <2>q. \A q \in Places : Attests(q)' => Placed(course, standing[q], Attestation(q))'
      <3>1. CASE synced' = Len(log) /\ \E m : Publish(m, Len(log))
        <4>1. PICK m : published' = [mode |-> m, sequence |-> Len(log), digest |-> Digest']
          BY <3>1 DEF Publish
        <4> QED BY <2>2, <2>p, <3>1, <4>1, LiveSnapshot
      <3>2. CASE synced' = synced /\ Publish("Halted", Len(log))
        <4>1. ~Attests(Snapshot)'
          BY <3>2, HaltPublished
        <4> QED BY <1>t, <2>2, <2>p, <3>2, <4>1, HaltedSnapshot
      <3> QED BY <2>2, <3>1, <3>2
    <2>s. standing' \in [Places -> Standings]
      BY <1>s, <2>p, StandingStays
    <2>3. synced' \in 0..Len(log)
      BY <1>t, <2>2
    <2>4. OnCourse(course)'
      BY <1>t, <2>2, <2>q
    <2> QED BY <1>t, <2>1, <2>2, <2>3, <2>4, <2>s DEF RuntimeInv
  <1> QED BY <1>1, <1>2, <1>3, <1>4, <1>5, <1>6, <1>7 DEF TaskStep

\* So does a restart, at each of its steps, and so do a dead process and a power loss.
LEMMA RestartKeepsCourse ==
    ASSUME RuntimeInv,
           \/ Crash \/ \E checkpoint : Spawn(checkpoint)
           \/ Replay \/ ReplayRefused \/ CheckpointMismatch \/ CheckpointSequenceMissing
           \/ Recovered
    PROVE  RuntimeInv'
  <1> PICK course : OnCourse(course)
    BY DEF RuntimeInv
  <1> USE DEF OnCourse
  <1>t. /\ log \in Seq(Commands) /\ synced \in 0..Len(log) /\ cursor \in Nat /\ Len(log) \in Nat
        /\ queue \in Seq(Request) /\ files = [p \in Paths |-> files[p]]
        /\ standing \in [Places -> Standings]
    BY LenProperties DEF RuntimeInv
  <1>k. ASSUME UNCHANGED <<log, synced, published, files, standing>>
        PROVE  \A q \in Places : Attests(q)' => Placed(course, standing[q], Attestation(q))'
    BY <1>t, <1>k, Carried
  <1>1. CASE Crash
    <2>1. /\ phase' = "crashed" /\ cursor' = cursor /\ queue' = <<>>
          /\ published' = published /\ files' = files
          /\ \A q \in Places : standing'[q] = Stands(q)
          /\ standing' \in [Places -> Standings]
      <3>1. /\ phase' = "crashed" /\ cursor' = cursor /\ queue' = <<>>
            /\ published' = published /\ files' = files
            /\ OthersStand(Snapshot, Stands(Snapshot))
        BY <1>1 DEF Crash, ProcessCrash, PowerLoss
      <3>2. Stands(Snapshot) \in Standings
        BY <1>t, InPlaces DEF Stands, Standings
      <3> QED BY <3>1, <3>2, StandingStays, InPlaces
    <2>2. PICK n \in 0..Len(log) :
              /\ log' \in Seq(Commands) /\ Len(log') = n /\ CourseOf(course, log')
              /\ synced' \in 0..n /\ synced <= synced'
      <3>1. CASE ProcessCrash
        BY <1>t, <3>1 DEF ProcessCrash
      <3>2. CASE PowerLoss
        <4>1. PICK n \in synced..Len(log) : log' = SubSeq(log, 1, n) /\ synced' = n
          BY <3>2 DEF PowerLoss
        <4>2. n \in 0..Len(log) /\ synced <= n /\ n \in 0..n
          BY <1>t, <4>1
        <4>3. log' \in Seq(Commands) /\ Len(log') = n /\ CourseOf(course, log')
          BY <1>t, <4>1, <4>2, CourseShortens
        <4> QED BY <4>1, <4>2, <4>3
      <3> QED BY <1>1, <3>1, <3>2 DEF Crash
    <2>3. \A q \in Places : Attests(q)' => Placed(course, standing[q], Attestation(q))'
      <3>1. Len(log') \in Nat /\ synced' \in 0..Len(log') /\ synced <= synced'
        BY <1>t, <2>2
      <3>2. \A i \in 0..Len(log) : i <= Len(log') => course[i] = course[i]
        OBVIOUS
      <3> SUFFICES ASSUME NEW q \in Places
                   PROVE  Attests(q)' => Placed(course, standing[q], Attestation(q))'
        OBVIOUS
      <3>3. IF q = Snapshot THEN published' = published ELSE files'[q] = files[q]
        BY <2>1
      <3>4. standing'[q] = Stands(q)
        BY <2>1
      <3> QED BY <3>1, <3>2, <3>3, <3>4, Carried
    <2>4. OnCourse(course)'
      BY <2>1, <2>2, <2>3
    <2>5. queue' \in Seq(Request)
      BY <2>1, EmptySeq
    <2> QED BY <1>t, <2>1, <2>2, <2>4, <2>5 DEF RuntimeInv
  <1>2. ASSUME NEW checkpoint, Spawn(checkpoint) PROVE RuntimeInv'
    <2>1. /\ phase = "crashed" /\ phase' = "recovering" /\ cursor' = 0 /\ log' = log
          /\ synced' = synced /\ queue' = queue /\ published' = published /\ files' = files
          /\ standing' = standing
      BY <1>2 DEF Spawn, BeginReplay
    <2>2. Digest' = EmptyDigest
      BY <1>2 DEF Spawn, Digest, EmptyDigest
    <2>3. course[0] = EmptyDigest
      BY DEF CourseOf
    <2>4. OnCourse(course)'
      BY <1>k, <1>t, <2>1, <2>2, <2>3
    <2> QED BY <1>t, <2>1, <2>4 DEF RuntimeInv
  <1>3. CASE Replay
    <2>1. /\ phase = "recovering" /\ cursor < Len(log) /\ cursor' = cursor + 1 /\ log' = log
          /\ synced' = synced /\ phase' = phase
          /\ queue' = queue /\ published' = published /\ files' = files /\ standing' = standing
      BY <1>3 DEF Replay, ReplayEntry, runtimeVars
    <2>2. Digest' = AcceptedDigest(Digest, log[cursor + 1])
      BY <1>3, AcceptedStep DEF Replay
    <2>3. cursor \in 0..Len(log) - 1
      BY <1>t, <2>1
    <2>4. Digest' = course[cursor + 1]
      BY <2>1, <2>2, <2>3 DEF CourseOf
    <2>5. OnCourse(course)'
      BY <1>k, <1>t, <2>1, <2>4
    <2> QED BY <1>t, <2>1, <2>5 DEF RuntimeInv
  <1>4. CASE ReplayRefused \/ CheckpointMismatch \/ CheckpointSequenceMissing
    <2>1. /\ phase = "recovering" /\ phase' \in {"crashed", "unrecoverable"} /\ log' = log
          /\ synced' = synced /\ cursor' = cursor
          /\ queue' = queue /\ published' = published /\ files' = files /\ standing' = standing
      BY <1>4 DEF ReplayRefused, RefuseEntry, CheckpointMismatch, CheckpointSequenceMissing,
                  runtimeVars
    <2>2. OnCourse(course)'
      BY <1>k, <1>t, <2>1
    <2> QED BY <1>t, <2>1, <2>2 DEF RuntimeInv
  <1>5. CASE Recovered
    <2>1. /\ phase = "recovering" /\ cursor = Len(log) /\ phase' = "running" /\ log' = log
          /\ synced' = synced /\ cursor' = cursor /\ queue' = <<>> /\ files' = files
          /\ Digest' = Digest
          /\ published' = [mode |-> "Ready", sequence |-> Len(log), digest |-> Digest]
          /\ OthersStand(Snapshot, Standing(Len(log)))
      BY <1>5 DEF Recovered, EndReplay, sessionVars, Digest
    <2>s. /\ standing' \in [Places -> Standings] /\ standing'[Snapshot] = Standing(Len(log))
          /\ \A q \in Places : q # Snapshot => standing'[q] = Stands(q)
      BY <2>1, StandingStays, InPlaces DEF Standing, Standings
    <2>2. Placed(course, standing[Snapshot], Attestation(Snapshot))'
      <3>1. standing'[Snapshot] = "durable" => Len(log) <= synced
        BY <2>s DEF Standing
      <3> QED BY <1>t, <2>1, <3>1 DEF Placed, Attestation
    <2>3. \A q \in Places : q # Snapshot =>
              (Attests(q)' => Placed(course, standing[q], Attestation(q))')
      BY <1>t, <2>1, <2>s, Carried
    <2>4. OnCourse(course)'
      BY <1>t, <2>1, <2>2, <2>3
    <2>5. queue' \in Seq(Request)
      BY <2>1, EmptySeq
    <2> QED BY <1>t, <2>1, <2>4, <2>5, <2>s DEF RuntimeInv
  <1> QED BY <1>1, <1>2, <1>3, <1>4, <1>5

\* Every step keeps the invariant.
LEMMA RuntimeInvStep ==
    ASSUME RuntimeInv, [Next]_vars
    PROVE  RuntimeInv'
  <1>1. CASE /\ UNCHANGED <<sessionVars, journalVars, published, files, standing>>
             /\ queue' \in Seq(Request)
    <2>1. PICK course : OnCourse(course)
      BY DEF RuntimeInv
    <2>2. /\ log' = log /\ synced' = synced /\ phase' = phase /\ cursor' = cursor
          /\ Digest' = Digest /\ published' = published /\ files' = files
          /\ standing' = standing
      BY <1>1 DEF sessionVars, journalVars, Digest
    <2>3. OnCourse(course)'
      BY <2>1, <2>2 DEF OnCourse, Attests, Attestation, Placed
    <2> QED BY <1>1, <2>2, <2>3 DEF RuntimeInv
  <1>2. ASSUME NEW r \in Request, TrySend(r) PROVE RuntimeInv'
    BY <1>1, <1>2, AppendProperties DEF TrySend, RuntimeInv
  <1>3. CASE DropSenders
    BY <1>1, <1>3 DEF DropSenders, RuntimeInv
  <1>4. CASE UNCHANGED vars
    BY <1>1, <1>4 DEF vars, runtimeVars, RuntimeInv
  <1> QED BY <1>2, <1>3, <1>4, TaskKeepsCourse, RestartKeepsCourse DEF Next

\* The invariant says what the property asks.
LEMMA CourseReproduces == RuntimeInv => RestartReproduces
  <1> SUFFICES ASSUME RuntimeInv PROVE RestartReproduces
    OBVIOUS
  <1>1. PICK course : OnCourse(course)
    BY DEF RuntimeInv
  <1>2. ASSUME NEW q \in Places, Attests(q)
        PROVE  /\ standing[q] = "durable" => Attestation(q).sequence <= synced
               /\ standing[q] = "provisional" => Attestation(q).sequence <= Len(log)
               /\ standing[q] # "lost" /\ phase = "recovering"
                  /\ cursor = Attestation(q).sequence => Digest = Attestation(q).digest
    <2>1. Placed(course, standing[q], Attestation(q))
      BY <1>1, <1>2 DEF OnCourse
    <2>2. Len(log) \in Nat
      BY LenProperties DEF RuntimeInv
    <2> QED BY <1>1, <2>1, <2>2 DEF OnCourse, Placed
  <1> QED BY <1>2 DEF RestartReproduces

\* RestartReproduces, for every set of commands, every capacity of the channel and whatever
\* processes die and machines go down: what the task published, other than a halt, and what
\* its checkpoint files attest is what every later spawn_runtime passes through, but for
\* what a restarted task attested before its first sync and a power loss then took.
THEOREM RestartsReproduce == Spec => []RestartReproduces
  <1>1. RuntimeInv /\ [Next]_vars => RuntimeInv'
    BY RuntimeInvStep
  <1> QED BY <1>1, RuntimeInvInit, CourseReproduces, PTL DEF Spec
=============================================================================
