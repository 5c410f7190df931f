-------------------------- MODULE SegmentedJournal --------------------------
(***************************************************************************)
(* The segmented journal of crates/market-recorder: a directory of segment *)
(* files, each a header followed by length- and checksum-framed records,   *)
(* written by one SegmentedJournalWriter and read back, strictly, by       *)
(* SegmentedJournalReader.                                                 *)
(*                                                                         *)
(* A write may be cut short by a crash: inside a record (a torn tail) or   *)
(* inside the header of a segment just created by a rotation.  Reopening   *)
(* refuses an incomplete tail until recover_truncated_tail was run on it.  *)
(* The owners of a journal stop using it after the first failed call       *)
(* (they are "poisoned"), so no write follows a failed one.                *)
(***************************************************************************)
EXTENDS Integers, Sequences, SequencesExt, FiniteSetsExt, SequenceTheorems, NaturalsInduction,
        WellFoundedInduction, TLAPS

CONSTANTS
    MaxSequence,        \* bound: the largest event sequence offered
    Sizes,              \* record sizes (RECORD_HEADER_BYTES included)
    MaxSegmentRecords,  \* SegmentConfig.max_segment_records
    MaxSegmentBytes     \* SegmentConfig.max_segment_bytes, less the file header

ASSUME SegmentConfigAssumption ==
    /\ MaxSegmentRecords \in Nat \ {0} /\ MaxSegmentBytes \in Nat \ {0}
    /\ Sizes \subseteq Nat \ {0} /\ MaxSequence \in Nat

Events == [seq : 0..MaxSequence, size : Sizes]
None == -1              \* last_sequence before the first event

VARIABLES
    segments,   \* the files: header, records, how many of them are synced, a torn tail
    phase,      \* "closed", "open", "rotating" or "failed" (poisoned)
    last,       \* the writer's last_sequence
    pending,    \* the event whose append is waiting for a rotation
    tail,       \* what is known of the last segment: "unknown", "refused", "recovered"
    acked       \* history: the events acknowledged by a sync

vars == <<segments, phase, last, pending, tail, acked>>

NewSegment(header, records) ==
    [header |-> header, records |-> records, synced |-> 0, torn |-> FALSE]
Segment ==
    [header : {"empty", "partial", "complete"}, records : Seq(Events), synced : Nat,
     torn : BOOLEAN]

OnStorage(segs) == FlattenSeq([i \in 1..Len(segs) |-> segs[i].records])
Bytes(seg) == MapThenSumSet(LAMBDA i : seg.records[i].size, 1..Len(seg.records))

Init ==
    /\ segments = <<>>
    /\ phase = "closed"
    /\ last = None
    /\ pending = <<>>
    /\ tail = "unknown"
    /\ acked = <<>>

-----------------------------------------------------------------------------
(***************************************************************************)
(* Reading: every segment must have its header and a clean tail, and the   *)
(* sequence must go on by one across segments.                             *)
(***************************************************************************)
CompleteSegment(seg) == seg.header = "complete" /\ ~seg.torn

ValidNextSequence(prev, seq) == prev = None \/ seq = prev + 1

Contiguous(es) ==
    \A i \in 2..Len(es) : ValidNextSequence(es[i - 1].seq, es[i].seq)

Readable(segs) ==
    /\ \A i \in 1..Len(segs) : CompleteSegment(segs[i])
    /\ Contiguous(OnStorage(segs))

LastSequence(segs) ==
    LET es == OnStorage(segs) IN IF es = <<>> THEN None ELSE es[Len(es)].seq

\* SegmentedJournalWriter::open.  The first segment is created when there is none.
OpenWriter ==
    /\ phase = "closed"
    /\ Readable(segments)
    /\ segments' = IF segments = <<>> THEN <<NewSegment("complete", <<>>)>> ELSE segments
    /\ last' = LastSequence(segments)
    /\ phase' = "open"
    /\ tail' = "unknown"
    /\ UNCHANGED <<pending, acked>>

RefuseOpen ==
    /\ phase = "closed"
    /\ ~Readable(segments)
    /\ tail' = IF tail = "recovered" THEN tail ELSE "refused"
    /\ UNCHANGED <<segments, phase, last, pending, acked>>

\* recover_truncated_tail on the last segment: a partial record is cut off, a
\* partial header leaves a file of no bytes.
RecoverLast(segs) ==
    [segs EXCEPT ![Len(segs)] =
        [header |-> IF @.header = "complete" THEN "complete" ELSE "empty",
         records |-> @.records, synced |-> Len(@.records), torn |-> FALSE]]

RecoverTruncatedTail ==
    /\ phase = "closed"
    /\ tail = "refused"
    /\ segments' = RecoverLast(segments)
    /\ tail' = "recovered"
    /\ UNCHANGED <<phase, last, pending, acked>>

-----------------------------------------------------------------------------
(***************************************************************************)
(* Appending.                                                              *)
(***************************************************************************)
WriteLast(segs, e) == [segs EXCEPT ![Len(segs)].records = Append(@, e)]

Write(e) ==
    /\ segments' = WriteLast(segments, e)
    /\ last' = e.seq

MustRotate(e) ==
    LET seg == Last(segments)
    IN  /\ seg.records # <<>>
        /\ \/ Len(seg.records) >= MaxSegmentRecords
           \/ Bytes(seg) + e.size > MaxSegmentBytes

\* append: a gap or a regression is refused without a write.
AppendEvent(e) ==
    /\ phase = "open"
    /\ ValidNextSequence(last, e.seq)
    /\ ~MustRotate(e)
    /\ Write(e)
    /\ UNCHANGED <<phase, pending, tail, acked>>

SyncLast(segs) == [segs EXCEPT ![Len(segs)].synced = Len(Last(segs).records)]
TornLast(segs) == [segs EXCEPT ![Len(segs)].torn = TRUE]

\* rotate: the full segment is synced before the next one is created.
BeginRotation(e) ==
    /\ phase = "open"
    /\ ValidNextSequence(last, e.seq)
    /\ MustRotate(e)
    /\ phase' = "rotating"
    /\ pending' = <<e>>
    /\ segments' = SyncLast(segments)
    /\ UNCHANGED <<last, tail, acked>>

\* create_new succeeds and the event goes into the new segment.
FinishRotation ==
    /\ phase = "rotating"
    /\ segments' = Append(segments, NewSegment("complete", pending))
    /\ last' = pending[1].seq
    /\ phase' = "open"
    /\ pending' = <<>>
    /\ UNCHANGED <<tail, acked>>

\* Wrong variant, for mutation only: acknowledged without a device sync.
SyncEventsLazily ==
    /\ phase = "open"
    /\ acked' = OnStorage(segments)
    /\ UNCHANGED <<segments, phase, last, pending, tail>>

\* sync_events: only the active segment is synced.
SyncEvents ==
    /\ phase = "open"
    /\ segments' = SyncLast(segments)
    /\ acked' = OnStorage(segments)
    /\ UNCHANGED <<phase, last, pending, tail>>

\* Wrong variant, for mutation only: a failed append rolls one record too many back.
CallFailsRollingBack ==
    /\ phase = "open"
    /\ phase' = "failed"
    /\ segments' \in
           {segments, [segments EXCEPT ![Len(segments)].records = IF @ = <<>> THEN @ ELSE Front(@)]}
    /\ UNCHANGED <<last, pending, tail, acked>>

\* An append or a sync fails: the owner is poisoned and writes no more.  A failed
\* append may leave part of its record behind.
CallFails ==
    /\ phase = "open"
    /\ phase' = "failed"
    /\ segments' \in {segments, TornLast(segments)}
    /\ UNCHANGED <<last, pending, tail, acked>>

-----------------------------------------------------------------------------
(***************************************************************************)
(* The process dies: what was written stays, synced or not, and the record *)
(* being written may be cut.  The machine loses power: every segment keeps *)
(* its synced records and any part of the others, possibly cut inside a    *)
(* record, and what is found afterwards is on the device.                  *)
(***************************************************************************)
AfterProcessCrash(segs, writing) ==
    {segs} \cup (IF writing THEN {TornLast(segs)} ELSE {})

AfterPowerLoss(segs, writing) ==
    {[i \in 1..Len(segs) |->
         [header |-> segs[i].header, records |-> SubSeq(segs[i].records, 1, keep[i].n),
          synced |-> keep[i].n, torn |-> keep[i].torn]] :
     keep \in {k \in [1..Len(segs) -> [n : 0..MaxSegmentRecords, torn : BOOLEAN]] :
                  \A i \in 1..Len(segs) :
                      /\ k[i].n \in segs[i].synced..Len(segs[i].records)
                      /\ k[i].torn => \/ i = Len(segs) /\ writing
                                    \/ k[i].n < Len(segs[i].records)}}

AfterCrash(segs, writing) == AfterProcessCrash(segs, writing) \cup AfterPowerLoss(segs, writing)

CrashOpen ==
    /\ phase \in {"open", "failed"}
    /\ segments' \in AfterCrash(segments, TRUE)
    /\ phase' = "closed"
    /\ UNCHANGED <<last, pending, tail, acked>>

\* While create_new runs, for the first segment or in a rotation (or when it fails
\* there), the new file may exist with any part of its header.
CrashCreating ==
    /\ phase = "rotating" \/ (phase = "closed" /\ segments = <<>>)
    /\ \E old \in AfterCrash(segments, FALSE), new \in {"none", "empty", "partial", "complete"} :
           segments' = IF new = "none" THEN old ELSE Append(old, NewSegment(new, <<>>))
    /\ phase' = "closed"
    /\ pending' = <<>>
    /\ UNCHANGED <<last, tail, acked>>

Next ==
    \/ OpenWriter \/ RefuseOpen \/ RecoverTruncatedTail
    \/ \E e \in Events : AppendEvent(e) \/ BeginRotation(e)
    \/ FinishRotation \/ SyncEvents \/ CallFails
    \/ CrashOpen \/ CrashCreating

Spec == Init /\ [][Next]_vars

-----------------------------------------------------------------------------
(***************************************************************************)
(* Properties                                                              *)
(***************************************************************************)

\* Every variable has its type.
TypeOK ==
    /\ segments \in Seq(Segment)
    /\ \A i \in 1..Len(segments) : segments[i].synced <= Len(segments[i].records)
    /\ phase \in {"closed", "open", "rotating", "failed"}
    /\ last \in {None} \cup 0..MaxSequence
    /\ pending \in {<<>>} \cup {<<e>> : e \in Events}
    /\ tail \in {"unknown", "refused", "recovered"}
    /\ acked \in Seq(Events)

\* An event whose sync was acknowledged is on storage, in its place, for ever:
\* after any crash, torn tail, tail recovery and reopening.
AckedEventsSurvive == IsPrefix(acked, OnStorage(segments))

SyncedPart(seg) == SubSeq(seg.records, 1, seg.synced)
Synced(segs) == FlattenSeq([i \in 1..Len(segs) |-> SyncedPart(segs[i])])
SyncedCount == Len(Synced(segments))

\* The segmented directory implements the flat durable log its owners rely on.
Log == INSTANCE DurableLog WITH log <- OnStorage(segments), synced <- SyncedCount
ImplementsDurableLog == Log!LogSpec

\* README: "Safe recovery from truncated journal tails".  Once the incomplete tail
\* was recovered, the journal can be opened again.
RecoveredTailOpens == tail = "recovered" => Readable(segments)

-----------------------------------------------------------------------------
(***************************************************************************)
(* Proofs: what FlattenSeq gives.  It takes a recursive function on the    *)
(* positions; an induction over them is an argument about the smallest     *)
(* position at which a claim fails.                                        *)
(***************************************************************************)

\* Every set of natural numbers has a smallest one.
LEMMA SmallestNumber ==
    ASSUME NEW T, T \subseteq Nat, T # {}
    PROVE  \E x \in T : \A y \in T : x <= y
  <1> DEFINE R == OpToRel(<, Nat)
  <1>1. IsWellFoundedOn(R, Nat)
    BY NatLessThanWellFounded
  <1>2. \A y \in Nat, x \in Nat : y < x => <<y, x>> \in R
    BY DEF OpToRel
  <1> HIDE DEF R
  <1>3. PICK x \in T : \A y \in T : ~ (<<y, x>> \in R)
    BY <1>1, WFMin
  <1>4. \A y \in T : ~ (y < x)
    BY <1>2, <1>3
  <1>5. \A y \in T : x <= y
    BY <1>4
  <1> QED BY <1>5

Flattens(g, ss, n) == g = [i \in 1..n |-> IF i = 1 THEN ss[i] ELSE g[i - 1] \o ss[i]]

SameUpTo(f, g, m) == \A i \in 1..m : f[i] = g[i]

\* Two tables of the same first parts agree on them.
LEMMA FlattensAgree ==
    ASSUME NEW ss, NEW tt, NEW g, NEW h, NEW n \in Nat, NEW m \in 0..n,
           Flattens(g, ss, n), Flattens(h, tt, m), SameUpTo(ss, tt, m)
    PROVE  SameUpTo(g, h, m)
  <1> USE DEF SameUpTo
  <1> DEFINE bad == {i \in 1..m : g[i] # h[i]}
  <1> SUFFICES ASSUME bad # {} PROVE FALSE
    OBVIOUS
  <1>1. bad \subseteq Nat
    OBVIOUS
  <1> HIDE DEF bad
  <1>2. PICK i \in bad : \A j \in bad : i <= j
    BY <1>1, SmallestNumber
  <1> USE DEF bad
  <1>3. i \in 1..m /\ i \in 1..n /\ g[i] # h[i]
    BY <1>2
  <1>4. i # 1
    BY <1>3 DEF Flattens
  <1>5. i - 1 \in 1..m /\ i - 1 \notin bad
    BY <1>2, <1>3, <1>4
  <1>6. g[i - 1] = h[i - 1]
    BY <1>5
  <1>7. g[i] = g[i - 1] \o ss[i] /\ h[i] = h[i - 1] \o tt[i]
    BY <1>3, <1>4 DEF Flattens
  <1> QED BY <1>3, <1>6, <1>7

\* There is a table for every number of parts.
LEMMA FlattensExist ==
    ASSUME NEW ss, NEW n \in Nat
    PROVE  \E g : Flattens(g, ss, n)
  <1> DEFINE bad == {m \in Nat : ~ \E g : Flattens(g, ss, m)}
  <1> SUFFICES ASSUME bad # {} PROVE FALSE
    BY Zenon
  <1>1. bad \subseteq Nat
    OBVIOUS
  <1> HIDE DEF bad
  <1>2. PICK m \in bad : \A j \in bad : m <= j
    BY <1>1, SmallestNumber
  <1> USE DEF bad
  <1>3. m \in Nat /\ ~ \E g : Flattens(g, ss, m)
    BY <1>2
  <1>4. m # 0
    <2> DEFINE g == [i \in 1..0 |-> ss[i]]
    <2>1. Flattens(g, ss, 0)
      BY DEF Flattens
    <2> QED BY <1>3, <2>1
  <1>5. m - 1 \in Nat /\ m - 1 \notin bad
    BY <1>2, <1>3, <1>4
  <1>6. PICK g : Flattens(g, ss, m - 1)
    BY <1>5
  <1> DEFINE h == [i \in 1..m |-> IF i < m THEN g[i]
                                  ELSE IF i = 1 THEN ss[i] ELSE g[i - 1] \o ss[i]]
  <1>7. \A i \in 1..m : h[i] = IF i = 1 THEN ss[i] ELSE h[i - 1] \o ss[i]
    <2> SUFFICES ASSUME NEW i \in 1..m
                 PROVE  h[i] = IF i = 1 THEN ss[i] ELSE h[i - 1] \o ss[i]
      OBVIOUS
    <2>1. CASE i = 1 /\ m = 1
      BY <1>3, <2>1
    <2>2. CASE i = 1 /\ m # 1
      <3>1. 1 \in 1..m - 1
        BY <1>3, <1>4, <2>2
      <3> QED BY <1>3, <1>6, <2>2, <3>1 DEF Flattens
    <2>3. CASE i # 1
      <3>1. i - 1 \in 1..m - 1 /\ i - 1 \in 1..m /\ i - 1 < m
        BY <1>3, <2>3
      <3>2. h[i - 1] = g[i - 1]
        BY <3>1
      <3>3. CASE i < m
        <4>1. i \in 1..m - 1
          BY <1>3, <3>3
        <4>2. g[i] = g[i - 1] \o ss[i]
          BY <1>6, <2>3, <4>1 DEF Flattens
        <4> QED BY <2>3, <3>2, <3>3, <4>2
      <3>4. CASE i = m
        <4>1. ~ (i < m)
          BY <1>3, <3>4
        <4>2. h[i] = g[i - 1] \o ss[i]
          BY <2>3, <4>1
        <4> QED BY <2>3, <3>2, <4>2
      <3> QED BY <1>3, <3>3, <3>4
    <2> QED BY <2>1, <2>2, <2>3
  <1>8. Flattens(h, ss, m)
    BY <1>7 DEF Flattens
  <1> QED BY <1>3, <1>8

\* What FlattenSeq gives is the last entry of a table.
LEMMA FlattenInTable ==
    ASSUME NEW ss, Len(ss) \in Nat, Len(ss) # 0
    PROVE  \E g : Flattens(g, ss, Len(ss)) /\ FlattenSeq(ss) = g[Len(ss)]
  <1> DEFINE g == CHOOSE g : Flattens(g, ss, Len(ss))
  <1>1. Flattens(g, ss, Len(ss))
    BY FlattensExist
  <1>2. FlattenSeq(ss) = g[Len(ss)]
    BY DEF FlattenSeq, Flattens
  <1> QED BY <1>1, <1>2

\* One part more is one concatenation more.
LEMMA FlattenOneMore ==
    ASSUME NEW S, NEW ss \in Seq(Seq(S)), NEW tt \in Seq(Seq(S)),
           Len(tt) = Len(ss) + 1, \A i \in 1..Len(ss) : tt[i] = ss[i]
    PROVE  FlattenSeq(tt) = FlattenSeq(ss) \o tt[Len(tt)]
  <1> DEFINE n == Len(ss)
  <1>1. n \in Nat /\ Len(tt) = n + 1 /\ n + 1 # 0 /\ tt[n + 1] \in Seq(S)
    BY LenProperties, ElementOfSeq
  <1>2. PICK h : Flattens(h, tt, n + 1) /\ FlattenSeq(tt) = h[n + 1]
    BY <1>1, FlattenInTable
  <1>3. CASE n = 0
    <2>1. ss = <<>>
      BY <1>3, EmptySeq
    <2>2. FlattenSeq(ss) = <<>>
      BY <1>3, <2>1 DEF FlattenSeq
    <2>3. h[n + 1] = tt[n + 1]
      BY <1>1, <1>2, <1>3 DEF Flattens
    <2>4. <<>> \o tt[n + 1] = tt[n + 1]
      BY <1>1, ConcatEmptySeq
    <2> QED BY <1>1, <1>2, <2>2, <2>3, <2>4
  <1>4. CASE n # 0
    <2>1. PICK g : Flattens(g, ss, n) /\ FlattenSeq(ss) = g[n]
      BY <1>1, <1>4, FlattenInTable
    <2>2. n \in 0..n + 1 /\ n + 1 \in Nat /\ n \in 1..n
      BY <1>1, <1>4
    <2>3. h[n] = g[n]
      <3> DEFINE k == n + 1
      <3>1. k \in Nat /\ n \in 0..k /\ Flattens(h, tt, k) /\ Flattens(g, ss, n)
        BY <1>2, <2>1, <2>2
      <3>2. SameUpTo(tt, ss, n)
        BY DEF SameUpTo
      <3> HIDE DEF n, k
      <3>3. SameUpTo(h, g, n)
        BY ONLY <3>1, <3>2, FlattensAgree
      <3> QED BY <2>2, <3>3 DEF SameUpTo
    <2>4. n + 1 \in 1..n + 1 /\ n + 1 # 1 /\ (n + 1) - 1 = n
      BY <1>1, <1>4
    <2>5. h[n + 1] = h[n] \o tt[n + 1]
      BY <1>2, <2>4 DEF Flattens
    <2> QED BY <1>1, <1>2, <2>1, <2>3, <2>5
  <1> QED BY <1>3, <1>4

\* The parts of a sequence of sequences make one sequence.
LEMMA FlattenType ==
    ASSUME NEW S, NEW ss \in Seq(Seq(S))
    PROVE  FlattenSeq(ss) \in Seq(S)
  <1> DEFINE n == Len(ss)
  <1>1. n \in Nat /\ \A i \in 1..n : ss[i] \in Seq(S)
    BY LenProperties, ElementOfSeq
  <1>2. CASE n = 0
    <2>1. ss = <<>>
      BY <1>2, EmptySeq
    <2>2. FlattenSeq(ss) = <<>>
      BY <1>2, <2>1 DEF FlattenSeq
    <2> QED BY <2>2, EmptySeq
  <1>3. CASE n # 0
    <2>1. PICK g : Flattens(g, ss, n) /\ FlattenSeq(ss) = g[n]
      BY <1>1, <1>3, FlattenInTable
    <2> DEFINE bad == {i \in 1..n : g[i] \notin Seq(S)}
    <2>2. CASE bad # {}
      <3>1. bad \subseteq Nat
        OBVIOUS
      <3> HIDE DEF bad
      <3>2. PICK i \in bad : \A j \in bad : i <= j
        BY <2>2, <3>1, SmallestNumber
      <3> USE DEF bad
      <3>3. i \in 1..n /\ g[i] \notin Seq(S)
        BY <3>2
      <3>4. i # 1
        BY <1>1, <2>1, <3>3 DEF Flattens
      <3>5. i - 1 \in 1..n /\ i - 1 \notin bad
        BY <1>1, <3>2, <3>3, <3>4
      <3>6. g[i - 1] \in Seq(S) /\ ss[i] \in Seq(S)
        BY <1>1, <3>3, <3>5
      <3>7. g[i] = g[i - 1] \o ss[i]
        BY <2>1, <3>3, <3>4 DEF Flattens
      <3>8. g[i - 1] \o ss[i] \in Seq(S)
        BY <3>6, ConcatProperties
      <3> QED BY <3>3, <3>7, <3>8
    <2>3. CASE bad = {}
      <3>1. n \in 1..n
        BY <1>1, <1>3
      <3> QED BY <2>1, <2>3, <3>1
    <2> QED BY <2>2, <2>3
  <1> QED BY <1>2, <1>3

-----------------------------------------------------------------------------
(***************************************************************************)
(* Proofs: what a directory of segments holds.                             *)
(***************************************************************************)
FullySynced(segs) == \A i \in 1..Len(segs) : segs[i].synced = Len(segs[i].records)

\* Every segment but the last was synced when the next one was created.
Directory(segs, older, x) ==
    /\ older \in Seq(Segment) /\ x \in Segment
    /\ segs = Append(older, x)
    /\ FullySynced(older)
    /\ x.synced <= Len(x.records)

\* The fields of the segments of a directory.
LEMMA SegmentFields ==
    /\ \A x \in Segment : x.records \in Seq(Events) /\ x.synced \in Nat
    /\ \A segs \in Seq(Segment) :
           /\ Len(segs) \in Nat
           /\ \A i \in 1..Len(segs) : segs[i] \in Segment /\ segs[i].records \in Seq(Events)
  <1>1. \A x \in Segment : x.records \in Seq(Events) /\ x.synced \in Nat
    BY DEF Segment
  <1>2. ASSUME NEW segs \in Seq(Segment)
        PROVE  Len(segs) \in Nat /\ \A i \in 1..Len(segs) : segs[i] \in Segment
    BY LenProperties, ElementOfSeq
  <1> QED BY <1>1, <1>2

\* Equal parts make equal contents.
LEMMA SameRecordsSameStorage ==
    ASSUME NEW segs \in Seq(Segment), NEW segs2 \in Seq(Segment), Len(segs2) = Len(segs),
           \A i \in 1..Len(segs) : segs2[i].records = segs[i].records
    PROVE  OnStorage(segs2) = OnStorage(segs)
  <1>1. [i \in 1..Len(segs2) |-> segs2[i].records] = [i \in 1..Len(segs) |-> segs[i].records]
    OBVIOUS
  <1> QED BY <1>1 DEF OnStorage

\* What is in the records is in order on storage.
LEMMA StorageType ==
    ASSUME NEW segs \in Seq(Segment)
    PROVE  OnStorage(segs) \in Seq(Events)
  <1> DEFINE ss == [i \in 1..Len(segs) |-> segs[i].records]
  <1>1. Len(segs) \in Nat /\ \A i \in 1..Len(segs) : segs[i].records \in Seq(Events)
    BY SegmentFields
  <1>2. ss \in Seq(Seq(Events))
    BY <1>1, IsASeq
  <1> HIDE DEF ss
  <1>3. FlattenSeq(ss) \in Seq(Events)
    BY <1>2, FlattenType
  <1> QED BY <1>3 DEF OnStorage, ss

\* The storage ends with the records of the last segment.
LEMMA StorageOfLast ==
    ASSUME NEW older \in Seq(Segment), NEW x \in Segment
    PROVE  OnStorage(Append(older, x)) = OnStorage(older) \o x.records
  <1> DEFINE segs == Append(older, x)
             ss == [i \in 1..Len(older) |-> older[i].records]
             tt == [i \in 1..Len(segs) |-> segs[i].records]
  <1>1. /\ Len(older) \in Nat /\ Len(segs) = Len(older) + 1
        /\ \A i \in 1..Len(older) : segs[i] = older[i]
        /\ segs[Len(older) + 1] = x
    BY LenProperties, AppendProperties
  <1>2. /\ \A i \in 1..Len(older) : older[i].records \in Seq(Events)
        /\ x.records \in Seq(Events)
    BY SegmentFields
  <1> HIDE DEF segs
  <1>3. \A i \in 1..Len(segs) : segs[i].records \in Seq(Events)
    BY <1>1, <1>2
  <1>4. ss \in Seq(Seq(Events)) /\ tt \in Seq(Seq(Events))
    BY <1>1, <1>2, <1>3, IsASeq
  <1>5. /\ Len(ss) = Len(older) /\ Len(tt) = Len(older) + 1
        /\ tt[Len(older) + 1] = x.records
        /\ \A i \in 1..Len(older) : tt[i] = ss[i]
    BY <1>1
  <1> HIDE DEF ss, tt
  <1>6. FlattenSeq(tt) = FlattenSeq(ss) \o tt[Len(tt)]
    BY <1>4, <1>5, FlattenOneMore
  <1> QED BY <1>5, <1>6 DEF OnStorage, ss, tt, segs

\* What is synced of a directory is the whole of its older segments and a part of
\* the last one.
LEMMA SyncedOfLast ==
    ASSUME NEW older \in Seq(Segment), NEW x \in Segment, FullySynced(older),
           x.synced <= Len(x.records)
    PROVE  /\ Synced(Append(older, x)) = OnStorage(older) \o SyncedPart(x)
           /\ SyncedPart(x) \in Seq(Events) /\ Len(SyncedPart(x)) = x.synced
  <1> DEFINE segs == Append(older, x)
             ss == [i \in 1..Len(older) |-> older[i].records]
             tt == [i \in 1..Len(segs) |-> SyncedPart(segs[i])]
  <1>1. /\ Len(older) \in Nat /\ Len(segs) = Len(older) + 1
        /\ \A i \in 1..Len(older) : segs[i] = older[i]
        /\ segs[Len(older) + 1] = x
    BY LenProperties, AppendProperties
  <1>2. /\ \A i \in 1..Len(older) : older[i].records \in Seq(Events)
        /\ x.records \in Seq(Events) /\ x.synced \in Nat
    BY SegmentFields
  <1>3. SyncedPart(x) \in Seq(Events) /\ Len(SyncedPart(x)) = x.synced
    <2>1. x.synced \in Int /\ \A i \in 1..x.synced : x.records[i] \in Events
      BY <1>2, LenProperties, ElementOfSeq
    <2> QED BY <1>2, <2>1, SubSeqProperties DEF SyncedPart
  <1>4. \A i \in 1..Len(older) : SyncedPart(older[i]) = older[i].records
    BY <1>2, SubSeqFull DEF FullySynced, SyncedPart
  <1> HIDE DEF segs
  <1>5. \A i \in 1..Len(older) : SyncedPart(segs[i]) = older[i].records
    BY <1>1, <1>4
  <1>6. SyncedPart(segs[Len(older) + 1]) = SyncedPart(x)
    BY <1>1
  <1>7. \A i \in 1..Len(segs) : SyncedPart(segs[i]) \in Seq(Events)
    BY <1>1, <1>2, <1>3, <1>5, <1>6
  <1>8. ss \in Seq(Seq(Events)) /\ tt \in Seq(Seq(Events))
    BY <1>1, <1>2, <1>7, IsASeq
  <1>9. /\ Len(ss) = Len(older) /\ Len(tt) = Len(older) + 1
        /\ tt[Len(older) + 1] = SyncedPart(x)
        /\ \A i \in 1..Len(older) : tt[i] = ss[i]
    BY <1>1, <1>5, <1>6
  <1> HIDE DEF ss, tt
  <1>10. FlattenSeq(tt) = FlattenSeq(ss) \o tt[Len(tt)]
    BY <1>8, <1>9, FlattenOneMore
  <1> QED BY <1>3, <1>9, <1>10 DEF Synced, OnStorage, ss, tt, segs

\* The contents of a directory, and how much of them is synced.
LEMMA DirectoryContents ==
    ASSUME NEW segs, NEW older, NEW x, Directory(segs, older, x)
    PROVE  /\ segs \in Seq(Segment) /\ segs # <<>> /\ Len(segs) = Len(older) + 1
           /\ segs[Len(segs)] = x /\ Last(segs) = x
           /\ \A i \in 1..Len(older) : segs[i] = older[i]
           /\ Len(older) \in Nat
           /\ x.records \in Seq(Events) /\ x.synced \in Nat /\ Len(x.records) \in Nat
           /\ OnStorage(older) \in Seq(Events) /\ Len(OnStorage(older)) \in Nat
           /\ OnStorage(segs) = OnStorage(older) \o x.records
           /\ OnStorage(segs) \in Seq(Events)
           /\ Len(OnStorage(segs)) = Len(OnStorage(older)) + Len(x.records)
           /\ Len(Synced(segs)) = Len(OnStorage(older)) + x.synced
  <1>1. older \in Seq(Segment) /\ x \in Segment /\ segs = Append(older, x)
        /\ FullySynced(older) /\ x.synced <= Len(x.records)
    BY DEF Directory
  <1>2. /\ segs \in Seq(Segment) /\ segs # <<>> /\ Len(segs) = Len(older) + 1
        /\ \A i \in 1..Len(older) : segs[i] = older[i]
        /\ segs[Len(older) + 1] = x /\ Len(older) \in Nat
    BY <1>1, AppendProperties, LenProperties
  <1>3. x.records \in Seq(Events) /\ x.synced \in Nat /\ Len(x.records) \in Nat
    BY <1>1, LenProperties DEF Segment
  <1>4. OnStorage(older) \in Seq(Events) /\ Len(OnStorage(older)) \in Nat
    BY <1>1, StorageType, LenProperties
  <1>5. OnStorage(segs) = OnStorage(older) \o x.records
    BY <1>1, StorageOfLast
  <1>6. /\ OnStorage(segs) \in Seq(Events)
        /\ Len(OnStorage(segs)) = Len(OnStorage(older)) + Len(x.records)
    BY <1>3, <1>4, <1>5, ConcatProperties
  <1>7. /\ Synced(segs) = OnStorage(older) \o SyncedPart(x)
        /\ SyncedPart(x) \in Seq(Events) /\ Len(SyncedPart(x)) = x.synced
    BY <1>1, SyncedOfLast
  <1>9. Len(Synced(segs)) = Len(OnStorage(older)) + x.synced
    BY <1>4, <1>7, ConcatProperties
  <1>10. Last(segs) = x
    BY <1>2 DEF Last
  <1> QED BY <1>2, <1>3, <1>4, <1>5, <1>6, <1>9, <1>10

-----------------------------------------------------------------------------
(***************************************************************************)
(* Proofs: what the operations do to a directory.                          *)
(***************************************************************************)

\* Writing to the last segment replaces it.
LEMMA DirectoryReplace ==
    ASSUME NEW segs, NEW older, NEW x, Directory(segs, older, x),
           NEW y \in Segment, y.synced <= Len(y.records)
    PROVE  Directory([segs EXCEPT ![Len(segs)] = y], older, y)
  <1> DEFINE segs2 == [segs EXCEPT ![Len(segs)] = y]
             segs3 == Append(older, y)
  <1>1. older \in Seq(Segment) /\ FullySynced(older)
    BY DEF Directory
  <1>2. /\ segs \in Seq(Segment) /\ Len(segs) = Len(older) + 1 /\ Len(older) \in Nat
        /\ \A i \in 1..Len(older) : segs[i] = older[i]
    BY DirectoryContents
  <1>3. Len(segs) \in 1..Len(segs)
    BY <1>2
  <1>4. /\ segs2 \in Seq(Segment) /\ Len(segs2) = Len(segs)
        /\ \A j \in 1..Len(segs) : segs2[j] = IF j = Len(segs) THEN y ELSE segs[j]
    BY <1>2, <1>3, ExceptSeq
  <1>5. /\ segs3 \in Seq(Segment) /\ Len(segs3) = Len(older) + 1
        /\ \A i \in 1..Len(older) : segs3[i] = older[i]
        /\ segs3[Len(older) + 1] = y
    BY <1>1, AppendProperties
  <1> HIDE DEF segs2, segs3
  <1>6. segs2 = segs3
    <2>1. \A i \in 1..Len(segs2) : segs2[i] = segs3[i]
      BY <1>2, <1>4, <1>5
    <2> QED BY <1>2, <1>4, <1>5, <2>1, SeqEqual
  <1> QED BY <1>1, <1>6 DEF Directory, segs2, segs3

\* A segment appended to a directory that is synced as a whole.
LEMMA DirectoryExtend ==
    ASSUME NEW segs, NEW older, NEW x, Directory(segs, older, x), x.synced = Len(x.records),
           NEW y \in Segment, y.synced <= Len(y.records)
    PROVE  Directory(Append(segs, y), segs, y)
  <1>1. FullySynced(older)
    BY DEF Directory
  <1>2. /\ segs \in Seq(Segment) /\ Len(segs) = Len(older) + 1 /\ Len(older) \in Nat
        /\ \A i \in 1..Len(older) : segs[i] = older[i]
        /\ segs[Len(segs)] = x
    BY DirectoryContents
  <1>3. FullySynced(segs)
    BY <1>1, <1>2 DEF FullySynced
  <1> QED BY <1>2, <1>3 DEF Directory

\* Appending to the end of a concatenation.
LEMMA ConcatAppend ==
    ASSUME NEW S, NEW s \in Seq(S), NEW t \in Seq(S), NEW e \in S
    PROVE  s \o Append(t, e) = Append(s \o t, e)
  <1>1. <<e>> \in Seq(S) /\ s \o t \in Seq(S)
    BY ConcatProperties
  <1>2. Append(t, e) = t \o <<e>> /\ Append(s \o t, e) = (s \o t) \o <<e>>
    BY <1>1, AppendIsConcat
  <1>3. (s \o t) \o <<e>> = s \o (t \o <<e>>)
    BY <1>1, ConcatAssociative
  <1> QED BY <1>2, <1>3

\* The first elements of a sequence.
LEMMA PrefixProperties ==
    ASSUME NEW S, NEW s \in Seq(S), NEW k \in 0..Len(s)
    PROVE  /\ SubSeq(s, 1, k) \in Seq(S) /\ Len(SubSeq(s, 1, k)) = k
           /\ \A i \in 1..k : SubSeq(s, 1, k)[i] = s[i]
  <1>1. k \in Int /\ \A i \in 1..k : s[i] \in S
    BY LenProperties, ElementOfSeq
  <1>2. /\ SubSeq(s, 1, k) \in Seq(S)
        /\ Len(SubSeq(s, 1, k)) = IF 1 <= k THEN k - 1 + 1 ELSE 0
        /\ \A i \in 1..k - 1 + 1 : SubSeq(s, 1, k)[i] = s[1 + i - 1]
    BY <1>1, SubSeqProperties
  <1> QED BY <1>1, <1>2

\* Cutting a concatenation inside its second part.
LEMMA ConcatPrefix ==
    ASSUME NEW S, NEW s \in Seq(S), NEW t \in Seq(S), NEW k \in 0..Len(t)
    PROVE  SubSeq(s \o t, 1, Len(s) + k) = s \o SubSeq(t, 1, k)
  <1> DEFINE u == SubSeq(t, 1, k)
             v == SubSeq(s \o t, 1, Len(s) + k)
  <1>1. Len(s) \in Nat /\ Len(t) \in Nat
    BY LenProperties
  <1>2. u \in Seq(S) /\ Len(u) = k /\ \A i \in 1..k : u[i] = t[i]
    BY PrefixProperties
  <1>3. /\ s \o t \in Seq(S) /\ Len(s \o t) = Len(s) + Len(t)
        /\ \A i \in 1..Len(s) + Len(t) :
               (s \o t)[i] = IF i <= Len(s) THEN s[i] ELSE t[i - Len(s)]
    BY ConcatProperties
  <1>4. Len(s) + k \in 0..Len(s \o t)
    BY <1>1, <1>3
  <1>5. v \in Seq(S) /\ Len(v) = Len(s) + k /\ \A i \in 1..Len(s) + k : v[i] = (s \o t)[i]
    BY <1>3, <1>4, PrefixProperties
  <1> HIDE DEF u, v
  <1>6. /\ s \o u \in Seq(S) /\ Len(s \o u) = Len(s) + k
        /\ \A i \in 1..Len(s) + k :
               (s \o u)[i] = IF i <= Len(s) THEN s[i] ELSE u[i - Len(s)]
    BY <1>2, ConcatProperties
  <1>7. \A i \in 1..Len(v) : v[i] = (s \o u)[i]
    BY <1>1, <1>2, <1>3, <1>5, <1>6
  <1>8. v = s \o u
    BY <1>5, <1>6, <1>7, SeqEqual
  <1> QED BY <1>8 DEF u, v

\* Two sequences, one of which begins the other.
LEMMA PrefixElements ==
    ASSUME NEW S, NEW s \in Seq(S), NEW t \in Seq(S)
    PROVE  IsPrefix(s, t) <=> Len(s) <= Len(t) /\ \A i \in 1..Len(s) : s[i] = t[i]
  <1>1. Len(s) \in Nat /\ Len(t) \in Nat
    BY LenProperties
  <1>2. SubSeq(s, 1, Len(s)) = s
    BY SubSeqFull
  <1>3. CASE Len(s) <= Len(t)
    <2>1. /\ SubSeq(t, 1, Len(s)) \in Seq(S) /\ Len(SubSeq(t, 1, Len(s))) = Len(s)
          /\ \A i \in 1..Len(s) : SubSeq(t, 1, Len(s))[i] = t[i]
      <3>1. Len(s) \in 0..Len(t)
        BY <1>1, <1>3
      <3> QED BY <3>1, PrefixProperties
    <2>2. (\A i \in 1..Len(s) : s[i] = t[i]) => s = SubSeq(t, 1, Len(s))
      BY <2>1, SeqEqual
    <2> QED BY <1>2, <1>3, <2>1, <2>2 DEF IsPrefix
  <1>4. CASE ~ (Len(s) <= Len(t))
    BY <1>4 DEF IsPrefix
  <1> QED BY <1>3, <1>4

(***************************************************************************)
(* What a step of the directory may do to the flat log and to the events   *)
(* acknowledged from it.                                                   *)
(***************************************************************************)
Becomes(es, n, ack, es2, n2, ack2) ==
    \/ ack2 = ack /\ n2 = n /\ \E e \in Events : es2 = Append(es, e)
    \/ ack2 = ack /\ n2 = n /\ es2 = es
    \/ ack2 \in {ack, es} /\ n2 = Len(es) /\ es2 = es
    \/ ack2 = ack /\ \E k \in n..Len(es) : es2 = SubSeq(es, 1, k) /\ n2 = k

\* The acknowledged events begin the log, within its synced part.
Acknowledged(es, n, ack) ==
    /\ es \in Seq(Events) /\ ack \in Seq(Events)
    /\ n \in Len(ack)..Len(es)
    /\ IsPrefix(ack, es)

\* No effect a step may have takes an acknowledged event back.
LEMMA AcknowledgedStays ==
    ASSUME NEW es, NEW n, NEW ack, NEW es2, NEW n2, NEW ack2,
           Acknowledged(es, n, ack), Becomes(es, n, ack, es2, n2, ack2)
    PROVE  Acknowledged(es2, n2, ack2)
  <1>1. /\ es \in Seq(Events) /\ ack \in Seq(Events) /\ n \in Len(ack)..Len(es)
        /\ Len(es) \in Nat /\ Len(ack) \in Nat
    BY LenProperties DEF Acknowledged
  <1>2. Len(ack) <= Len(es) /\ \A i \in 1..Len(ack) : ack[i] = es[i]
    BY <1>1, PrefixElements DEF Acknowledged
  <1>3. CASE ack2 = ack /\ n2 = n /\ \E e \in Events : es2 = Append(es, e)
    <2>1. PICK e \in Events : es2 = Append(es, e)
      BY <1>3
    <2>2. /\ es2 \in Seq(Events) /\ Len(es2) = Len(es) + 1
          /\ \A i \in 1..Len(es) : es2[i] = es[i]
      BY <1>1, <2>1, AppendProperties
    <2>3. Len(ack) <= Len(es2) /\ \A i \in 1..Len(ack) : ack[i] = es2[i]
      BY <1>1, <1>2, <2>2
    <2>4. IsPrefix(ack, es2)
      BY <1>1, <2>2, <2>3, PrefixElements
    <2> QED BY <1>1, <1>3, <2>2, <2>4 DEF Acknowledged
  <1>4. CASE ack2 = ack /\ n2 = n /\ es2 = es
    BY <1>4 DEF Acknowledged
  <1>5. CASE ack2 \in {ack, es} /\ n2 = Len(es) /\ es2 = es
    <2>1. IsPrefix(es, es)
      BY <1>1, PrefixElements
    <2> QED BY <1>1, <1>5, <2>1 DEF Acknowledged
  <1>6. CASE ack2 = ack /\ \E k \in n..Len(es) : es2 = SubSeq(es, 1, k) /\ n2 = k
    <2>1. PICK k \in n..Len(es) : es2 = SubSeq(es, 1, k) /\ n2 = k
      BY <1>6
    <2>2. k \in 0..Len(es) /\ Len(ack) <= k
      BY <1>1
    <2>3. es2 \in Seq(Events) /\ Len(es2) = k /\ \A i \in 1..k : es2[i] = es[i]
      BY <1>1, <2>1, <2>2, PrefixProperties
    <2>4. \A i \in 1..Len(ack) : ack[i] = es2[i]
      BY <1>1, <1>2, <2>2, <2>3
    <2>5. IsPrefix(ack, es2)
      BY <1>1, <2>2, <2>3, <2>4, PrefixElements
    <2> QED BY <1>1, <1>6, <2>1, <2>2, <2>3, <2>5 DEF Acknowledged
  <1> QED BY <1>3, <1>4, <1>5, <1>6 DEF Becomes

\* A directory whose older segments hold the same and whose last one was written
\* to, synced or cut.
LEMMA DirectoryOutcome ==
    ASSUME NEW segs, NEW older, NEW x, Directory(segs, older, x),
           NEW segs2, NEW older2, NEW y, Directory(segs2, older2, y),
           OnStorage(older2) = OnStorage(older)
    PROVE  /\ y.records = x.records => OnStorage(segs2) = OnStorage(segs)
           /\ y.synced = x.synced => Len(Synced(segs2)) = Len(Synced(segs))
           /\ y.synced = Len(x.records) => Len(Synced(segs2)) = Len(OnStorage(segs))
           /\ \A e \in Events : y.records = Append(x.records, e)
                                => OnStorage(segs2) = Append(OnStorage(segs), e)
           /\ \A k \in x.synced..Len(x.records) :
                  y.records = SubSeq(x.records, 1, k) /\ y.synced = k
                  => \E m \in Len(Synced(segs))..Len(OnStorage(segs)) :
                         OnStorage(segs2) = SubSeq(OnStorage(segs), 1, m) /\ Len(Synced(segs2)) = m
  <1> DEFINE base == OnStorage(older)
  <1>1. /\ base \in Seq(Events) /\ x.records \in Seq(Events) /\ x.synced \in Nat
        /\ Len(base) \in Nat /\ Len(x.records) \in Nat
        /\ OnStorage(segs) = base \o x.records
        /\ Len(OnStorage(segs)) = Len(base) + Len(x.records)
        /\ Len(Synced(segs)) = Len(base) + x.synced
    BY DirectoryContents
  <1>2. OnStorage(segs2) = base \o y.records /\ Len(Synced(segs2)) = Len(base) + y.synced
    BY DirectoryContents
  <1> HIDE DEF base
  <1>3. ASSUME NEW e \in Events, y.records = Append(x.records, e)
        PROVE  OnStorage(segs2) = Append(OnStorage(segs), e)
    <2>1. base \o Append(x.records, e) = Append(base \o x.records, e)
      BY <1>1, ConcatAppend
    <2> QED BY <1>1, <1>2, <1>3, <2>1
  <1>4. ASSUME NEW k \in x.synced..Len(x.records),
               y.records = SubSeq(x.records, 1, k), y.synced = k
        PROVE  \E m \in Len(Synced(segs))..Len(OnStorage(segs)) :
                   OnStorage(segs2) = SubSeq(OnStorage(segs), 1, m) /\ Len(Synced(segs2)) = m
    <2>1. k \in 0..Len(x.records) /\ Len(base) + k \in Len(Synced(segs))..Len(OnStorage(segs))
      BY <1>1
    <2>2. SubSeq(base \o x.records, 1, Len(base) + k) = base \o SubSeq(x.records, 1, k)
      BY <1>1, <2>1, ConcatPrefix
    <2>3. OnStorage(segs2) = SubSeq(OnStorage(segs), 1, Len(base) + k)
      BY <1>1, <1>2, <1>4, <2>2
    <2>4. Len(Synced(segs2)) = Len(base) + k
      BY <1>2, <1>4
    <2> QED BY <2>1, <2>3, <2>4
  <1>5. y.records = x.records => OnStorage(segs2) = OnStorage(segs)
    BY <1>1, <1>2
  <1>6. /\ y.synced = x.synced => Len(Synced(segs2)) = Len(Synced(segs))
        /\ y.synced = Len(x.records) => Len(Synced(segs2)) = Len(OnStorage(segs))
    BY <1>1, <1>2
  <1> QED BY <1>3, <1>4, <1>5, <1>6

\* After a power loss the older segments are what they were, the last one kept its
\* synced records and maybe some more, and all that is found is on the device.
LEMMA PowerLossCutsTheLast ==
    ASSUME NEW segs, NEW older, NEW x, Directory(segs, older, x), NEW writing,
           NEW segs2 \in AfterPowerLoss(segs, writing)
    PROVE  \E older2, y : \E k \in x.synced..Len(x.records) :
               /\ Directory(segs2, older2, y) /\ OnStorage(older2) = OnStorage(older)
               /\ y.records = SubSeq(x.records, 1, k) /\ y.synced = k /\ Len(y.records) = k
  <1>1. PICK keep \in [1..Len(segs) -> [n : 0..MaxSegmentRecords, torn : BOOLEAN]] :
            /\ \A i \in 1..Len(segs) : keep[i].n \in segs[i].synced..Len(segs[i].records)
            /\ segs2 = [i \in 1..Len(segs) |->
                  [header |-> segs[i].header, records |-> SubSeq(segs[i].records, 1, keep[i].n),
                   synced |-> keep[i].n, torn |-> keep[i].torn]]
    BY DEF AfterPowerLoss
  <1>2. older \in Seq(Segment) /\ x \in Segment /\ FullySynced(older)
    BY DEF Directory
  <1>3. /\ segs \in Seq(Segment) /\ Len(segs) = Len(older) + 1 /\ Len(older) \in Nat
        /\ \A i \in 1..Len(older) : segs[i] = older[i]
        /\ segs[Len(segs)] = x
    BY DirectoryContents
  <1>4. ASSUME NEW i \in 1..Len(segs)
        PROVE  /\ segs[i] \in Segment /\ segs[i].records \in Seq(Events)
               /\ keep[i].n \in 0..Len(segs[i].records)
               /\ SubSeq(segs[i].records, 1, keep[i].n) \in Seq(Events)
               /\ Len(SubSeq(segs[i].records, 1, keep[i].n)) = keep[i].n
    <2>1. segs[i] \in Segment /\ segs[i].records \in Seq(Events) /\ segs[i].synced \in Nat
      BY <1>3, SegmentFields
    <2>2. Len(segs[i].records) \in Nat
      BY <2>1, LenProperties
    <2>3. keep[i].n \in 0..Len(segs[i].records)
      BY <1>1, <2>1, <2>2
    <2> QED BY <2>1, <2>3, PrefixProperties
  <1>5. ASSUME NEW i \in 1..Len(segs)
        PROVE  /\ segs2[i] \in Segment
               /\ segs2[i].records = SubSeq(segs[i].records, 1, keep[i].n)
               /\ segs2[i].synced = keep[i].n
               /\ Len(segs2[i].records) = keep[i].n
    <2> DEFINE r == SubSeq(segs[i].records, 1, keep[i].n)
               k == keep[i].n
    <2>1. r \in Seq(Events) /\ Len(r) = k /\ k \in Nat
      BY <1>4
    <2>2. segs[i].header \in {"empty", "partial", "complete"} /\ keep[i].torn \in BOOLEAN
      BY <1>1, <1>4 DEF Segment
    <2>3. segs2[i] = [header |-> segs[i].header, records |-> r, synced |-> k,
                      torn |-> keep[i].torn]
      BY <1>1
    <2> HIDE DEF r, k
    <2>4. segs2[i] \in Segment /\ segs2[i].records = r /\ segs2[i].synced = k
      BY <2>1, <2>2, <2>3 DEF Segment
    <2> QED BY <2>1, <2>4 DEF r, k
  <1>6. segs2 \in Seq(Segment) /\ Len(segs2) = Len(segs)
    <2>1. segs2 \in [1..Len(segs) -> Segment]
      BY <1>1, <1>5
    <2>2. segs2 = [i \in 1..Len(segs) |-> segs2[i]] /\ Len(segs) \in Nat
      BY <1>3, <2>1
    <2>3. [i \in 1..Len(segs) |-> segs2[i]] \in Seq(Segment)
      BY <1>5, <2>2, IsASeq
    <2>4. Len([i \in 1..Len(segs) |-> segs2[i]]) = Len(segs)
      BY <2>2
    <2> QED BY <2>2, <2>3, <2>4
  <1>7. segs2 # <<>>
    BY <1>3, <1>6
  <1>8. PICK older2 \in Seq(Segment), y \in Segment : segs2 = Append(older2, y)
    BY <1>6, <1>7, SequenceEmptyOrAppend
  <1>9. /\ Len(segs2) = Len(older2) + 1 /\ Len(older2) \in Nat
        /\ \A i \in 1..Len(older2) : segs2[i] = older2[i]
        /\ segs2[Len(older2) + 1] = y
    BY <1>8, AppendProperties, LenProperties
  <1>10. Len(older2) = Len(older) /\ Len(segs) = Len(older) + 1
    BY <1>3, <1>6, <1>9
  <1>11. ASSUME NEW i \in 1..Len(older)
         PROVE  older2[i].records = older[i].records /\ older2[i].synced = Len(older2[i].records)
    <2>1. i \in 1..Len(segs) /\ segs[i] = older[i] /\ segs2[i] = older2[i]
      BY <1>3, <1>9, <1>10
    <2>2. segs[i].synced = Len(segs[i].records) /\ Len(segs[i].records) \in Nat
      BY <1>2, <1>4, <2>1, LenProperties DEF FullySynced
    <2>3. keep[i].n = Len(segs[i].records)
      BY <1>1, <2>1, <2>2
    <2>4. SubSeq(segs[i].records, 1, keep[i].n) = segs[i].records
      BY <1>4, <2>1, <2>3, SubSeqFull
    <2> QED BY <1>5, <2>1, <2>3, <2>4
  <1>12. OnStorage(older2) = OnStorage(older)
    BY <1>2, <1>8, <1>10, <1>11, SameRecordsSameStorage
  <1>13. FullySynced(older2)
    BY <1>10, <1>11 DEF FullySynced
  <1> DEFINE k == keep[Len(segs)].n
  <1>14. Len(segs) \in 1..Len(segs) /\ y = segs2[Len(segs)]
    BY <1>3, <1>9, <1>10
  <1>15. k \in x.synced..Len(x.records)
    BY <1>1, <1>3, <1>14
  <1>16. y.records = SubSeq(x.records, 1, k) /\ y.synced = k /\ Len(y.records) = k
    BY <1>3, <1>5, <1>14
  <1>17. x.synced \in Nat /\ k \in Int
    BY <1>2, <1>15, SegmentFields
  <1> HIDE DEF k
  <1>18. Directory(segs2, older2, y)
    BY <1>8, <1>13, <1>16, <1>17 DEF Directory
  <1> QED BY <1>12, <1>15, <1>16, <1>18

\* A segment is its four fields.
LEMMA SegmentUpdates ==
    ASSUME NEW x \in Segment, NEW v
    PROVE  /\ [x EXCEPT !.records = v] = [header |-> x.header, records |-> v,
                                         synced |-> x.synced, torn |-> x.torn]
           /\ [x EXCEPT !.torn = v] = [header |-> x.header, records |-> x.records,
                                      synced |-> x.synced, torn |-> v]
  BY DEF Segment

\* What each way to change the last segment makes of it.
LEMMA LastWritten ==
    ASSUME NEW segs, NEW older, NEW x, Directory(segs, older, x), NEW e \in Events
    PROVE  \E y : /\ Directory(WriteLast(segs, e), older, y)
                  /\ y.records = Append(x.records, e) /\ y.synced = x.synced
  <1> DEFINE r == Append(x.records, e)
             y == [header |-> x.header, records |-> r, synced |-> x.synced, torn |-> x.torn]
  <1>1. /\ x \in Segment /\ x.synced <= Len(x.records) /\ x.records \in Seq(Events)
        /\ segs[Len(segs)] = x /\ x.synced \in Nat
    BY SegmentFields, DirectoryContents DEF Directory
  <1>2. r \in Seq(Events) /\ Len(r) = Len(x.records) + 1 /\ Len(x.records) \in Nat
    BY <1>1, AppendProperties, LenProperties
  <1>3. [x EXCEPT !.records = r] = y
    BY <1>1, SegmentUpdates
  <1>4. WriteLast(segs, e) = [segs EXCEPT ![Len(segs)] = y]
    BY <1>1, <1>3 DEF WriteLast
  <1> HIDE DEF r
  <1>5. y \in Segment /\ y.records = r /\ y.synced = x.synced
    BY <1>1, <1>2 DEF Segment
  <1> HIDE DEF y
  <1>6. y.synced <= Len(y.records)
    BY <1>1, <1>2, <1>5
  <1>7. Directory([segs EXCEPT ![Len(segs)] = y], older, y)
    BY <1>5, <1>6, DirectoryReplace
  <1> QED BY <1>4, <1>5, <1>7 DEF r

\* A record cut short leaves what was there.
LEMMA LastTorn ==
    ASSUME NEW segs, NEW older, NEW x, Directory(segs, older, x)
    PROVE  \E y : /\ Directory(TornLast(segs), older, y)
                  /\ y.records = x.records /\ y.synced = x.synced
  <1> DEFINE b == TRUE
             y == [header |-> x.header, records |-> x.records, synced |-> x.synced, torn |-> b]
  <1>1. b \in BOOLEAN
    OBVIOUS
  <1>2. x \in Segment /\ x.synced <= Len(x.records) /\ segs[Len(segs)] = x
    BY DirectoryContents DEF Directory
  <1>3. TornLast(segs) = [segs EXCEPT ![Len(segs)] = [x EXCEPT !.torn = b]]
    BY <1>2, Zenon DEF TornLast
  <1> HIDE DEF b
  <1>4. [x EXCEPT !.torn = b] = y
    BY <1>2, SegmentUpdates
  <1>5. TornLast(segs) = [segs EXCEPT ![Len(segs)] = y]
    BY <1>3, <1>4
  <1>6. y \in Segment /\ y.records = x.records /\ y.synced = x.synced
    BY <1>2, <1>1 DEF Segment
  <1> HIDE DEF y
  <1>7. Directory([segs EXCEPT ![Len(segs)] = y], older, y)
    BY <1>2, <1>6, DirectoryReplace
  <1> QED BY <1>5, <1>6, <1>7

\* A sync covers all of the last segment.
LEMMA LastSynced ==
    ASSUME NEW segs, NEW older, NEW x, Directory(segs, older, x)
    PROVE  \E y : /\ Directory(SyncLast(segs), older, y)
                  /\ y.records = x.records /\ y.synced = Len(x.records)
  <1> DEFINE n == Len(x.records)
             y == [header |-> x.header, records |-> x.records, synced |-> n, torn |-> x.torn]
  <1>1. x \in Segment /\ segs[Len(segs)] = x /\ Last(segs) = x /\ n \in Nat
    BY DirectoryContents DEF Directory
  <1>2. [x EXCEPT !.synced = n] = y
    BY <1>1 DEF Segment
  <1>3. SyncLast(segs) = [segs EXCEPT ![Len(segs)] = y]
    BY <1>1, <1>2 DEF SyncLast
  <1>4. n = Len(x.records)
    OBVIOUS
  <1> HIDE DEF n
  <1>5. y \in Segment /\ y.records = x.records /\ y.synced = n
    BY <1>1 DEF Segment
  <1> HIDE DEF y
  <1>6. y.synced <= Len(y.records)
    BY <1>1, <1>4, <1>5
  <1>7. Directory([segs EXCEPT ![Len(segs)] = y], older, y)
    BY <1>5, <1>6, DirectoryReplace
  <1> QED BY <1>3, <1>4, <1>5, <1>7

\* Tail recovery keeps the records and syncs the file.
LEMMA LastRecovered ==
    ASSUME NEW segs, NEW older, NEW x, Directory(segs, older, x)
    PROVE  \E y : /\ Directory(RecoverLast(segs), older, y)
                  /\ y.records = x.records /\ y.synced = Len(x.records)
  <1> DEFINE n == Len(x.records)
             h == IF x.header = "complete" THEN "complete" ELSE "empty"
             y == [header |-> h, records |-> x.records, synced |-> n, torn |-> FALSE]
  <1>1. x \in Segment /\ segs[Len(segs)] = x /\ n \in Nat
    BY DirectoryContents DEF Directory
  <1>2. RecoverLast(segs) = [segs EXCEPT ![Len(segs)] = y]
    BY <1>1 DEF RecoverLast
  <1>3. n = Len(x.records) /\ h \in {"empty", "partial", "complete"}
    OBVIOUS
  <1> HIDE DEF n, h
  <1>4. y \in Segment /\ y.records = x.records /\ y.synced = n
    BY <1>1, <1>3 DEF Segment
  <1> HIDE DEF y
  <1>5. y.synced <= Len(y.records)
    BY <1>1, <1>3, <1>4
  <1>6. Directory([segs EXCEPT ![Len(segs)] = y], older, y)
    BY <1>4, <1>5, DirectoryReplace
  <1> QED BY <1>2, <1>3, <1>4, <1>6

\* A segment just created has nothing to sync yet.
LEMMA FreshSegment ==
    ASSUME NEW h \in {"empty", "partial", "complete"}, NEW r \in Seq(Events)
    PROVE  /\ NewSegment(h, r) \in Segment /\ NewSegment(h, r).records = r
           /\ NewSegment(h, r).synced = 0 /\ 0 <= Len(NewSegment(h, r).records)
  <1>1. Len(r) \in Nat
    BY LenProperties
  <1> QED BY <1>1 DEF NewSegment, Segment

\* Nothing is in no segments.
LEMMA EmptyDirectory ==
    /\ OnStorage(<<>>) = <<>> /\ Len(Synced(<<>>)) = 0
    /\ \A x \in Segment : x.synced <= Len(x.records) => Directory(<<x>>, <<>>, x)
  <1>1. [i \in 1..Len(<<>>) |-> <<>>[i].records] = <<>>
    OBVIOUS
  <1>2. [i \in 1..Len(<<>>) |-> SyncedPart(<<>>[i])] = <<>>
    OBVIOUS
  <1>3. FlattenSeq(<<>>) = <<>>
    BY DEF FlattenSeq
  <1>4. FullySynced(<<>>) /\ <<>> \in Seq(Segment)
    BY EmptySeq DEF FullySynced
  <1>5. \A x \in Segment : <<x>> = Append(<<>>, x)
    OBVIOUS
  <1> QED BY <1>1, <1>2, <1>3, <1>4, <1>5 DEF OnStorage, Synced, Directory

\* The first segment starts as an empty directory.
LEMMA FirstSegment ==
    ASSUME NEW x \in Segment, x.records = <<>>, x.synced = 0
    PROVE  /\ Directory(<<x>>, <<>>, x)
           /\ OnStorage(<<x>>) = OnStorage(<<>>) /\ Len(Synced(<<x>>)) = Len(Synced(<<>>))
  <1> DEFINE segs == <<x>>
             none == <<>>
  <1>1. x.synced <= Len(x.records) /\ <<>> \in Seq(Events)
    BY EmptySeq
  <1>2. Directory(segs, none, x) /\ OnStorage(none) = <<>> /\ Len(Synced(none)) = 0
    BY <1>1, EmptyDirectory
  <1> HIDE DEF segs, none
  <1>3. /\ OnStorage(segs) = OnStorage(none) \o x.records
        /\ Len(Synced(segs)) = Len(OnStorage(none)) + x.synced
    BY <1>2, DirectoryContents
  <1>4. <<>> \o <<>> = <<>> /\ Len(<<>>) = 0
    BY EmptySeq, ConcatEmptySeq
  <1>5. OnStorage(segs) = OnStorage(none) /\ Len(Synced(segs)) = Len(Synced(none))
    BY <1>2, <1>3, <1>4
  <1> QED BY <1>2, <1>5 DEF segs, none

\* A crash leaves a directory with no less than what was synced, and with all of it
\* synced if it was.
LEMMA CrashCutsTheLog ==
    ASSUME NEW segs, NEW older, NEW x, Directory(segs, older, x), NEW writing \in BOOLEAN,
           NEW segs2 \in AfterCrash(segs, writing), NEW ack
    PROVE  /\ \E older2, y : /\ Directory(segs2, older2, y)
                             /\ x.synced = Len(x.records) => y.synced = Len(y.records)
           /\ Becomes(OnStorage(segs), Len(Synced(segs)), ack,
                      OnStorage(segs2), Len(Synced(segs2)), ack)
  <1>1. CASE segs2 = segs
    BY <1>1 DEF Becomes
  <1>2. CASE segs2 = TornLast(segs)
    <2>1. PICK y : /\ Directory(segs2, older, y)
                   /\ y.records = x.records /\ y.synced = x.synced
      BY <1>2, LastTorn
    <2>2. OnStorage(segs2) = OnStorage(segs) /\ Len(Synced(segs2)) = Len(Synced(segs))
      BY <2>1, DirectoryOutcome
    <2> QED BY <2>1, <2>2 DEF Becomes
  <1>3. CASE segs2 \in AfterPowerLoss(segs, writing)
    <2>1. PICK older2, y : \E k \in x.synced..Len(x.records) :
              /\ Directory(segs2, older2, y) /\ OnStorage(older2) = OnStorage(older)
              /\ y.records = SubSeq(x.records, 1, k) /\ y.synced = k /\ Len(y.records) = k
      BY <1>3, PowerLossCutsTheLast
    <2>2. PICK k \in x.synced..Len(x.records) :
              /\ Directory(segs2, older2, y) /\ OnStorage(older2) = OnStorage(older)
              /\ y.records = SubSeq(x.records, 1, k) /\ y.synced = k /\ Len(y.records) = k
      BY <2>1
    <2>3. \E m \in Len(Synced(segs))..Len(OnStorage(segs)) :
              OnStorage(segs2) = SubSeq(OnStorage(segs), 1, m) /\ Len(Synced(segs2)) = m
      BY <2>2, DirectoryOutcome
    <2> QED BY <2>2, <2>3 DEF Becomes
  <1> QED BY <1>1, <1>2, <1>3 DEF AfterCrash, AfterProcessCrash

-----------------------------------------------------------------------------
(***************************************************************************)
(* The inductive invariant: the segments before the last are synced as a   *)
(* whole, all of them are while a rotation waits for its new file, and the *)
(* acknowledged events begin the synced part of the log.                   *)
(***************************************************************************)
Shape ==
    \/ segments = <<>> /\ phase = "closed" /\ tail # "refused"
    \/ \E older, x :
           /\ Directory(segments, older, x)
           /\ phase = "rotating" => x.synced = Len(x.records) /\ pending # <<>>

Control ==
    /\ phase \in {"closed", "open", "rotating", "failed"}
    /\ last \in {None} \cup 0..MaxSequence
    /\ pending \in {<<>>} \cup {<<e>> : e \in Events}
    /\ tail \in {"unknown", "refused", "recovered"}

JournalInv == Shape /\ Control /\ Acknowledged(OnStorage(segments), SyncedCount, acked)

Effect ==
    Becomes(OnStorage(segments), SyncedCount, acked,
            OnStorage(segments'), Len(Synced(segments')), acked')

\* The files of such a directory have their types.
LEMMA ShapeTyped ==
    ASSUME Shape
    PROVE  /\ segments \in Seq(Segment) /\ OnStorage(segments) \in Seq(Events)
           /\ \A i \in 1..Len(segments) : segments[i].synced <= Len(segments[i].records)
  <1>1. CASE segments = <<>>
    <2>1. <<>> \in Seq(Segment) /\ <<>> \in Seq(Events) /\ Len(segments) = 0
      BY <1>1, EmptySeq
    <2>2. OnStorage(segments) = <<>> /\ 1..Len(segments) = {}
      BY <1>1, <2>1, EmptyDirectory
    <2> QED BY <1>1, <2>1, <2>2
  <1>2. CASE \E older, x : Directory(segments, older, x)
    <2>1. PICK older, x : Directory(segments, older, x)
      BY <1>2
    <2>2. /\ segments \in Seq(Segment) /\ OnStorage(segments) \in Seq(Events)
          /\ Len(segments) = Len(older) + 1 /\ Len(older) \in Nat
          /\ segments[Len(segments)] = x
          /\ \A i \in 1..Len(older) : segments[i] = older[i]
      BY <2>1, DirectoryContents
    <2>3. /\ FullySynced(older) /\ x.synced <= Len(x.records)
          /\ \A i \in 1..Len(older) : older[i].synced \in Nat
      BY <2>1, SegmentFields DEF Directory
    <2> QED BY <2>2, <2>3 DEF FullySynced
  <1> QED BY <1>1, <1>2 DEF Shape

\* Opening creates at most an empty first segment.
LEMMA OpenWriterKeeps ==
    ASSUME Shape, Control, OpenWriter
    PROVE  Shape' /\ Control' /\ Effect
  <1>1. LastSequence(segments) \in {None} \cup 0..MaxSequence
    <2> DEFINE es == OnStorage(segments)
    <2>1. es \in Seq(Events)
      BY ShapeTyped
    <2> HIDE DEF es
    <2>2. es # <<>> => es[Len(es)] \in Events
      BY <2>1, EmptySeq, ElementOfSeq
    <2>3. es # <<>> => es[Len(es)].seq \in 0..MaxSequence
      BY <2>2 DEF Events
    <2> QED BY <2>3 DEF LastSequence, es
  <1>2. Control'
    BY <1>1 DEF Control, OpenWriter
  <1>3. CASE segments = <<>>
    <2> DEFINE x == NewSegment("complete", <<>>)
    <2>1. x \in Segment /\ x.records = <<>> /\ x.synced = 0 /\ x.synced <= Len(x.records)
      BY FreshSegment, EmptySeq
    <2>2. segments' = <<x>>
      BY <1>3 DEF OpenWriter
    <2> HIDE DEF x
    <2>3. /\ Directory(segments', <<>>, x) /\ OnStorage(segments') = OnStorage(segments)
          /\ Len(Synced(segments')) = SyncedCount
      BY <1>3, <2>1, <2>2, FirstSegment DEF SyncedCount
    <2>6. Effect
      BY <2>3 DEF Effect, Becomes, OpenWriter
    <2>7. Shape'
      BY <2>3 DEF Shape, OpenWriter
    <2> QED BY <1>2, <2>6, <2>7
  <1>4. CASE segments # <<>>
    <2>1. segments' = segments /\ acked' = acked /\ phase' = "open"
      BY <1>4 DEF OpenWriter
    <2>2. Shape'
      BY <1>4, <2>1 DEF Shape
    <2>3. Effect
      BY <2>1 DEF Effect, Becomes, SyncedCount
    <2> QED BY <1>2, <2>2, <2>3
  <1> QED BY <1>3, <1>4

\* Only a directory with a file in it is refused.
LEMMA RefuseOpenKeeps ==
    ASSUME Shape, Control, RefuseOpen
    PROVE  Shape' /\ Control' /\ Effect
  <1>1. segments # <<>>
    <2> SUFFICES ASSUME segments = <<>> PROVE FALSE
      OBVIOUS
    <2>1. OnStorage(segments) = <<>>
      BY EmptyDirectory
    <2>2. Readable(segments)
      BY <2>1 DEF Readable, Contiguous
    <2> QED BY <2>2 DEF RefuseOpen
  <1>2. segments' = segments /\ acked' = acked /\ phase' = "closed"
    BY DEF RefuseOpen
  <1>3. Shape'
    BY <1>1, <1>2 DEF Shape
  <1>4. Control'
    BY DEF Control, RefuseOpen
  <1>5. Effect
    BY <1>2 DEF Effect, Becomes, SyncedCount
  <1> QED BY <1>3, <1>4, <1>5

\* Recovery makes the tail it leaves durable.
LEMMA RecoverTruncatedTailKeeps ==
    ASSUME Shape, Control, RecoverTruncatedTail
    PROVE  Shape' /\ Control' /\ Effect
  <1>1. PICK older, x : Directory(segments, older, x)
    BY DEF Shape, RecoverTruncatedTail
  <1>2. PICK y : /\ Directory(segments', older, y)
                 /\ y.records = x.records /\ y.synced = Len(x.records)
    BY <1>1, LastRecovered DEF RecoverTruncatedTail
  <1>3. /\ OnStorage(segments') = OnStorage(segments)
        /\ Len(Synced(segments')) = Len(OnStorage(segments))
    BY <1>1, <1>2, DirectoryOutcome
  <1>4. Effect
    BY <1>3 DEF Effect, Becomes, RecoverTruncatedTail
  <1>5. Shape' /\ Control'
    BY <1>2 DEF Shape, Control, RecoverTruncatedTail
  <1> QED BY <1>4, <1>5

\* An append adds one event to the log.
LEMMA AppendEventKeeps ==
    ASSUME Shape, Control, NEW e \in Events, AppendEvent(e)
    PROVE  Shape' /\ Control' /\ Effect
  <1>1. PICK older, x : Directory(segments, older, x)
    BY DEF Shape, AppendEvent
  <1>2. PICK y : /\ Directory(segments', older, y)
                 /\ y.records = Append(x.records, e) /\ y.synced = x.synced
    BY <1>1, LastWritten DEF AppendEvent, Write
  <1>3. /\ OnStorage(segments') = Append(OnStorage(segments), e)
        /\ Len(Synced(segments')) = SyncedCount
    BY <1>1, <1>2, DirectoryOutcome DEF SyncedCount
  <1>4. Effect
    BY <1>3 DEF Effect, Becomes, AppendEvent
  <1>5. e.seq \in 0..MaxSequence
    BY DEF Events
  <1>6. Shape' /\ Control'
    BY <1>2, <1>5 DEF Shape, Control, AppendEvent, Write
  <1> QED BY <1>4, <1>6

\* A rotation starts with a sync of all there is.
LEMMA BeginRotationKeeps ==
    ASSUME Shape, Control, NEW e \in Events, BeginRotation(e)
    PROVE  Shape' /\ Control' /\ Effect
  <1>1. PICK older, x : Directory(segments, older, x)
    BY DEF Shape, BeginRotation
  <1>2. PICK y : /\ Directory(segments', older, y)
                 /\ y.records = x.records /\ y.synced = Len(x.records)
    BY <1>1, LastSynced DEF BeginRotation
  <1>3. /\ OnStorage(segments') = OnStorage(segments)
        /\ Len(Synced(segments')) = Len(OnStorage(segments))
    BY <1>1, <1>2, DirectoryOutcome
  <1>4. Effect
    BY <1>3 DEF Effect, Becomes, BeginRotation
  <1>5. pending' = <<e>> /\ <<e>> # <<>>
    BY DEF BeginRotation
  <1>6. Shape' /\ Control'
    BY <1>2, <1>5 DEF Shape, Control, BeginRotation
  <1> QED BY <1>4, <1>6

\* It ends with the event at the head of a new segment, nothing of it synced.
LEMMA FinishRotationKeeps ==
    ASSUME Shape, Control, FinishRotation
    PROVE  Shape' /\ Control' /\ Effect
  <1>1. PICK older, x : /\ Directory(segments, older, x)
                        /\ x.synced = Len(x.records) /\ pending # <<>>
    BY DEF Shape, FinishRotation
  <1>2. PICK e \in Events : pending = <<e>>
    BY <1>1 DEF Control
  <1> DEFINE y == NewSegment("complete", pending)
  <1>3. y \in Segment /\ y.records = <<e>> /\ y.synced = 0 /\ y.synced <= Len(y.records)
    <2>1. <<e>> \in Seq(Events)
      OBVIOUS
    <2> QED BY <1>2, <2>1, FreshSegment
  <1>4. segments' = Append(segments, y)
    BY DEF FinishRotation
  <1> HIDE DEF y
  <1>5. Directory(segments', segments, y)
    BY <1>1, <1>3, <1>4, DirectoryExtend
  <1>6. /\ OnStorage(segments') = OnStorage(segments) \o y.records
        /\ Len(Synced(segments')) = Len(OnStorage(segments)) + y.synced
        /\ OnStorage(segments) \in Seq(Events)
    BY <1>5, DirectoryContents
  <1>7. OnStorage(segments') = Append(OnStorage(segments), e)
    BY <1>3, <1>6, AppendIsConcat
  <1>8. Len(OnStorage(segments)) = SyncedCount /\ SyncedCount \in Nat
    BY <1>1, DirectoryContents DEF SyncedCount
  <1>9. Effect
    BY <1>3, <1>6, <1>7, <1>8 DEF Effect, Becomes, FinishRotation
  <1>10. last' \in 0..MaxSequence
    BY <1>2 DEF FinishRotation, Events
  <1>11. Shape' /\ Control'
    BY <1>5, <1>10 DEF Shape, Control, FinishRotation
  <1> QED BY <1>9, <1>11

\* Syncing the active segment syncs the log: the older ones are synced already.
LEMMA SyncEventsKeeps ==
    ASSUME Shape, Control, SyncEvents
    PROVE  Shape' /\ Control' /\ Effect
  <1>1. PICK older, x : Directory(segments, older, x)
    BY DEF Shape, SyncEvents
  <1>2. PICK y : /\ Directory(segments', older, y)
                 /\ y.records = x.records /\ y.synced = Len(x.records)
    BY <1>1, LastSynced DEF SyncEvents
  <1>3. /\ OnStorage(segments') = OnStorage(segments)
        /\ Len(Synced(segments')) = Len(OnStorage(segments))
    BY <1>1, <1>2, DirectoryOutcome
  <1>4. Effect
    BY <1>3 DEF Effect, Becomes, SyncEvents
  <1>5. Shape' /\ Control'
    BY <1>2 DEF Shape, Control, SyncEvents
  <1> QED BY <1>4, <1>5

\* A failed call changes no whole record.
LEMMA CallFailsKeeps ==
    ASSUME Shape, Control, CallFails
    PROVE  Shape' /\ Control' /\ Effect
  <1>1. PICK older, x : Directory(segments, older, x)
    BY DEF Shape, CallFails
  <1>2. segments' \in AfterCrash(segments, TRUE) /\ TRUE \in BOOLEAN
    BY DEF CallFails, AfterCrash, AfterProcessCrash
  <1>3. /\ \E older2, y : Directory(segments', older2, y)
        /\ Becomes(OnStorage(segments), Len(Synced(segments)), acked,
                   OnStorage(segments'), Len(Synced(segments')), acked)
    BY <1>1, <1>2, CrashCutsTheLog
  <1>4. Effect
    BY <1>3 DEF Effect, SyncedCount, CallFails
  <1>5. Shape' /\ Control'
    BY <1>3 DEF Shape, Control, CallFails
  <1> QED BY <1>4, <1>5

\* A crash of an open writer takes at most what no sync had covered.
LEMMA CrashOpenKeeps ==
    ASSUME Shape, Control, CrashOpen
    PROVE  Shape' /\ Control' /\ Effect
  <1>1. PICK older, x : Directory(segments, older, x)
    BY DEF Shape, CrashOpen
  <1>2. segments' \in AfterCrash(segments, TRUE) /\ TRUE \in BOOLEAN
    BY DEF CrashOpen
  <1>3. /\ \E older2, y : Directory(segments', older2, y)
        /\ Becomes(OnStorage(segments), Len(Synced(segments)), acked,
                   OnStorage(segments'), Len(Synced(segments')), acked)
    BY <1>1, <1>2, CrashCutsTheLog
  <1>4. Effect
    BY <1>3 DEF Effect, SyncedCount, CrashOpen
  <1>5. Shape' /\ Control'
    BY <1>3 DEF Shape, Control, CrashOpen
  <1> QED BY <1>4, <1>5

\* The file just created holds no record.
LEMMA CrashCreatingKeeps ==
    ASSUME Shape, Control, CrashCreating
    PROVE  Shape' /\ Control' /\ Effect
  <1>1. PICK old \in AfterCrash(segments, FALSE), new \in {"none", "empty", "partial", "complete"} :
            segments' = IF new = "none" THEN old ELSE Append(old, NewSegment(new, <<>>))
    BY DEF CrashCreating
  <1> DEFINE y == NewSegment(new, <<>>)
  <1>2. new # "none" =>
            y \in Segment /\ y.records = <<>> /\ y.synced = 0 /\ y.synced <= Len(y.records)
    BY FreshSegment, EmptySeq
  <1>3. segments' = IF new = "none" THEN old ELSE Append(old, y)
    BY <1>1
  <1> HIDE DEF y
  <1>4. Control' /\ phase' = "closed" /\ acked' = acked /\ tail' = tail
    BY DEF Control, CrashCreating
  <1>5. CASE segments = <<>>
    <2>1. tail # "refused"
      <3>1. ~ \E older, x : Directory(segments, older, x)
        BY <1>5, DirectoryContents
      <3> QED BY <3>1 DEF Shape
    <2>2. old = <<>>
      BY <1>5 DEF AfterCrash, AfterProcessCrash, AfterPowerLoss
    <2>3. CASE new = "none"
      BY <1>3, <1>4, <1>5, <2>1, <2>2, <2>3 DEF Shape, Effect, Becomes, SyncedCount
    <2>4. CASE new # "none"
      <3>1. segments' = <<y>>
        BY <1>3, <2>2, <2>4
      <3>2. /\ Directory(segments', <<>>, y) /\ OnStorage(segments') = OnStorage(segments)
            /\ Len(Synced(segments')) = SyncedCount
        BY <1>2, <1>5, <2>4, <3>1, FirstSegment DEF SyncedCount
      <3> QED BY <1>4, <3>2 DEF Shape, Effect, Becomes
    <2> QED BY <2>3, <2>4
  <1>6. CASE segments # <<>>
    <2>1. PICK older, x : Directory(segments, older, x) /\ x.synced = Len(x.records)
      BY <1>6 DEF Shape, CrashCreating
    <2>2. /\ \E older2, z : Directory(old, older2, z) /\ z.synced = Len(z.records)
          /\ Becomes(OnStorage(segments), Len(Synced(segments)), acked,
                     OnStorage(old), Len(Synced(old)), acked)
      <3>1. /\ \E older2, z : /\ Directory(old, older2, z)
                              /\ x.synced = Len(x.records) => z.synced = Len(z.records)
            /\ Becomes(OnStorage(segments), Len(Synced(segments)), acked,
                       OnStorage(old), Len(Synced(old)), acked)
        <4> DEFINE w == FALSE
        <4>1. w \in BOOLEAN /\ old \in AfterCrash(segments, w)
          OBVIOUS
        <4> HIDE DEF w
        <4> QED BY <2>1, <4>1, CrashCutsTheLog
      <3> QED BY <2>1, <3>1
    <2>3. PICK older2, z : Directory(old, older2, z) /\ z.synced = Len(z.records)
      BY <2>2
    <2>4. CASE new = "none"
      BY <1>3, <1>4, <2>2, <2>3, <2>4 DEF Shape, Effect, SyncedCount
    <2>5. CASE new # "none"
      <3>1. Directory(segments', old, y)
        BY <1>2, <1>3, <2>3, <2>5, DirectoryExtend
      <3>2. /\ OnStorage(segments') = OnStorage(old) \o <<>>
            /\ Len(Synced(segments')) = Len(OnStorage(old)) + 0
            /\ OnStorage(old) \in Seq(Events)
        BY <1>2, <2>5, <3>1, DirectoryContents
      <3>3. Len(Synced(old)) = Len(OnStorage(old)) /\ Len(OnStorage(old)) \in Nat
        BY <2>3, DirectoryContents
      <3>4. OnStorage(segments') = OnStorage(old) /\ Len(Synced(segments')) = Len(Synced(old))
        BY <3>2, <3>3, ConcatEmptySeq
      <3> QED BY <1>4, <2>2, <3>1, <3>4 DEF Shape, Effect, SyncedCount
    <2> QED BY <2>4, <2>5
  <1> QED BY <1>4, <1>5, <1>6

\* Every step keeps the shape and has one of the allowed effects.
LEMMA NextKeeps ==
    ASSUME JournalInv, [Next]_vars
    PROVE  Shape' /\ Control' /\ Effect
  <1> USE DEF JournalInv
  <1>1. CASE OpenWriter BY <1>1, OpenWriterKeeps
  <1>2. CASE RefuseOpen BY <1>2, RefuseOpenKeeps
  <1>3. CASE RecoverTruncatedTail BY <1>3, RecoverTruncatedTailKeeps
  <1>4. ASSUME NEW e \in Events, AppendEvent(e) PROVE Shape' /\ Control' /\ Effect
    BY <1>4, AppendEventKeeps
  <1>5. ASSUME NEW e \in Events, BeginRotation(e) PROVE Shape' /\ Control' /\ Effect
    BY <1>5, BeginRotationKeeps
  <1>6. CASE FinishRotation BY <1>6, FinishRotationKeeps
  <1>7. CASE SyncEvents BY <1>7, SyncEventsKeeps
  <1>8. CASE CallFails BY <1>8, CallFailsKeeps
  <1>9. CASE CrashOpen BY <1>9, CrashOpenKeeps
  <1>10. CASE CrashCreating BY <1>10, CrashCreatingKeeps
  <1>11. CASE UNCHANGED vars
    BY <1>11 DEF vars, Shape, Control, Effect, Becomes, SyncedCount
  <1> QED
    BY <1>1, <1>2, <1>3, <1>4, <1>5, <1>6, <1>7, <1>8, <1>9, <1>10, <1>11 DEF Next

\* The invariant holds after every step if it held before.
LEMMA JournalInvInductive == JournalInv /\ [Next]_vars => JournalInv'
  <1> SUFFICES ASSUME JournalInv, [Next]_vars PROVE JournalInv'
    OBVIOUS
  <1>1. Shape' /\ Control' /\ Effect
    BY NextKeeps
  <1>2. Acknowledged(OnStorage(segments'), Len(Synced(segments')), acked')
    BY <1>1, AcknowledgedStays DEF JournalInv, Effect
  <1> QED BY <1>1, <1>2 DEF JournalInv, SyncedCount

\* It holds of a journal that was never opened.
LEMMA JournalInvInitial == Init => JournalInv
  <1> SUFFICES ASSUME Init PROVE JournalInv
    OBVIOUS
  <1>1. OnStorage(segments) = <<>> /\ SyncedCount = 0 /\ acked = <<>>
    BY EmptyDirectory DEF Init, SyncedCount
  <1>2. IsPrefix(<<>>, <<>>) /\ <<>> \in Seq(Events) /\ Len(<<>>) = 0
    <2>1. <<>> \in Seq(Events) /\ Len(<<>>) = 0
      BY EmptySeq
    <2> QED BY <2>1 DEF IsPrefix
  <1>3. Acknowledged(OnStorage(segments), SyncedCount, acked)
    BY <1>1, <1>2 DEF Acknowledged
  <1> QED BY <1>3 DEF Init, JournalInv, Shape, Control

\* Every variable of the writer and its files keeps its type, for every segment
\* size and every range of sequences.
THEOREM JournalTypes == Spec => []TypeOK
  <1>1. JournalInv => TypeOK
    BY ShapeTyped DEF JournalInv, TypeOK, Control, Acknowledged
  <1> QED BY <1>1, JournalInvInitial, JournalInvInductive, PTL DEF Spec

\* An event whose sync was acknowledged stays in its place through rotations,
\* failed calls, crashes, torn tails, recoveries and reopenings, for every segment
\* size, every record size and any number of segments.
THEOREM SyncedEventsSurvive == Spec => []AckedEventsSurvive
  <1>1. JournalInv => AckedEventsSurvive
    BY DEF JournalInv, Acknowledged, AckedEventsSurvive
  <1> QED BY <1>1, JournalInvInitial, JournalInvInductive, PTL DEF Spec

\* The directory of segments implements the flat durable log: each step of the
\* writer, of a rotation, a crash or a recovery is an append, a sync, a loss of an
\* unsynced tail, or changes nothing the log shows.
THEOREM SegmentsImplementTheLog == Spec => ImplementsDurableLog
  <1>1. Init => Log!LogInit
    BY EmptyDirectory DEF Init, Log!LogInit, SyncedCount
  <1>2. JournalInv /\ [Next]_vars => [Log!LogNext]_(Log!logVars)
    <2> SUFFICES ASSUME JournalInv, [Next]_vars PROVE [Log!LogNext]_(Log!logVars)
      OBVIOUS
    <2>1. Effect
      BY NextKeeps
    <2>2. OnStorage(segments)' = OnStorage(segments') /\ SyncedCount' = Len(Synced(segments'))
      BY DEF SyncedCount
    <2> QED BY <2>1, <2>2 DEF Effect, Becomes, Log!LogNext, Log!AppendEvent, Log!SyncEvents,
                              Log!LoseTail, Log!logVars
  <1> QED BY <1>1, <1>2, JournalInvInitial, JournalInvInductive, PTL
          DEF Spec, ImplementsDurableLog, Log!LogSpec
=============================================================================
