---------------------------- MODULE MCSttProvider ----------------------------
(* Small instances of SttProvider. *)
EXTENDS SttProvider

Chunk(s)  == [session |-> s, eos |-> FALSE]
Marker(s) == [session |-> s, eos |-> TRUE]

\* Two sessions, each flushed before the next one starts.  A chunk trails the live
\* marker of the first, as AudioProducer allows.
TwoBackfills == <<Chunk(1), Marker(1), Chunk(2), Marker(2)>>
TwoLives     == <<Chunk(1), Marker(1), Chunk(1), Chunk(2), Marker(2)>>

ASSUME TwoAreWellMarked == WellMarked
=============================================================================
