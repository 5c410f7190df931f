----------------------------- MODULE DurableLog -----------------------------
(***************************************************************************)
(* What an append-only journal promises its owner (trait EventJournal of   *)
(* market-recorder): events are appended in order, a successful sync makes *)
(* everything appended so far durable, and a crash loses at most what was  *)
(* appended after it.                                                      *)
(***************************************************************************)
EXTENDS Sequences, Naturals

CONSTANT Events

VARIABLES
    log,     \* the events on storage, oldest first
    synced   \* how many of them a sync has acknowledged

logVars == <<log, synced>>

LogTypeOK == log \in Seq(Events) /\ synced \in 0..Len(log)

LogInit == log = <<>> /\ synced = 0

AppendEvent(e) == log' = Append(log, e) /\ UNCHANGED synced

SyncEvents == synced' = Len(log) /\ UNCHANGED log

\* What survives is durable from then on.
LoseTail == \E n \in synced..Len(log) : log' = SubSeq(log, 1, n) /\ synced' = n

LogNext == (\E e \in Events : AppendEvent(e)) \/ SyncEvents \/ LoseTail

LogSpec == LogInit /\ [][LogNext]_logVars
=============================================================================
