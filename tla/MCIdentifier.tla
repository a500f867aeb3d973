---------------------------- MODULE MCIdentifier ----------------------------
(* Two short lanes: two sessions that overlap, and audio behind a marker. *)
EXTENDS Identifier

Chunk(session, voice) == [eos |-> FALSE, session |-> session, voice |-> voice]
Eos(session) == [eos |-> TRUE, session |-> session, voice |-> "ann"]

TwoLanes == [live     |-> <<Chunk(1, "ann"), Eos(1), Chunk(1, "bob"), Chunk(2, "bob"),
                            Chunk(1, "ann")>>,
             backfill |-> <<Chunk(1, "ann"), Chunk(2, "bob"), Chunk(1, "ann")>>]
=============================================================================
