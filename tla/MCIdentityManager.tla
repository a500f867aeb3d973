-------------------------- MODULE MCIdentityManager --------------------------
(* Small instances of IdentityManager. *)
EXTENDS IdentityManager

Said(ts, source, is_final) == [ts |-> ts, source |-> source, is_final |-> is_final]
Seen(ts, source, speaker)  == [ts |-> ts, source |-> source, speaker |-> speaker]

\* A live final, an interim and a later live final; a speaker near both finals,
\* and one nearer to the second.
MixedTranscripts == <<Said(10, "live", TRUE), Said(11, "live", FALSE),
                      Said(12, "live", TRUE)>>
TwoSpeakers      == <<Seen(11, "live", "ann"), Seen(12, "live", "bob")>>
=============================================================================
