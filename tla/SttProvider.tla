----------------------------- MODULE SttProvider -----------------------------
(***************************************************************************)
(* The stt-provider service (services/stt-provider): for each session it   *)
(* opens one connection to Deepgram, sends the session's backfill audio,   *)
(* then its live audio, and publishes the text that comes back under the   *)
(* tag of the phase.                                                       *)
(*                                                                         *)
(* Two asyncio tasks share its memory: _run_session_loop, whose place in   *)
(* the code is phase, and _drain_events, which turns what Deepgram sends   *)
(* into transcripts.  An action is what lies between two awaits.  The      *)
(* audio is that of AUDIO_STREAM: two subjects, each with a durable pull   *)
(* consumer of this service.                                               *)
(***************************************************************************)
EXTENDS Integers, Sequences

CONSTANTS
    Backfill,     \* what audio-producer publishes under audio.backfill, in order:
                  \* <<[session, eos], ...>>
    Live,         \* and under audio.live
    Faults,       \* what may go wrong: kinds of fault
    MaxFaults     \* bound: how often

Sessions == Nat \ {0}
Marked   == [session : Sessions, eos : BOOLEAN]

ASSUME AudioAssumption == Backfill \in Seq(Marked) /\ Live \in Seq(Marked)

\* A call to NATS that fails, a send that fails, a wait that takes too long, a
\* connection that Deepgram closes, a process that ends.
FaultKinds == {"call", "send", "slow", "drop", "crash"}

ASSUME FaultsAssumption == Faults \subseteq FaultKinds /\ MaxFaults \in Nat

Lanes == {"backfill", "live"}

\* A message is its lane and its place in it.
Messages == {[lane |-> "backfill", seq |-> i] : i \in DOMAIN Backfill}
            \cup {[lane |-> "live", seq |-> i] : i \in DOMAIN Live}
NoMessage == [lane |-> "none", seq |-> 0]

Content(m) == IF m.lane = "backfill" THEN Backfill[m.seq] ELSE Live[m.seq]
Audio == {m \in Messages : ~Content(m).eos}

VARIABLES
    \* the process
    up,        \* it runs
    phase,     \* "idle" (Phase 1), "connect", "backfill" (Phase 2), "flush",
               \* "await" and "live" (Phase 3), "close"
    session,   \* session_id
    hand,      \* the message fetched last, until it is done with
    sent,      \* that message was sent, and its ack is due
    dgClosed,  \* dg_closed
    flushed,   \* finalize_done
    tag,       \* tag_holder[0]
    \* Deepgram
    dg,        \* the connection: "none", "open", "closed"
    line,      \* the audio sent on it, in order
    untexted,  \* its audio that no transcript covers yet
    \* NATS
    stream,    \* message -> "none", "new", "out" (delivered), "again", "acked"
    texts,     \* transcripts published: [of, tag]
    \* observers
    heard,     \* audio that was sent to Deepgram
    skipped,   \* messages acknowledged as another session's: [msg, during]
    faults

memory   == <<phase, session, hand, sent, dgClosed, flushed, tag>>
deepgram == <<dg, line, untexted>>
vars     == <<up, memory, deepgram, stream, texts, heard, skipped, faults>>

Fault(kind) == kind \in Faults /\ faults < MaxFaults /\ faults' = faults + 1

\* msg.ack() reaches the server, or gets lost.
Ack(m) == \/ stream' = [stream EXCEPT ![m] = "acked"] /\ UNCHANGED faults
          \/ UNCHANGED stream /\ Fault("call")

\* A durable consumer hands out those that come again first, then new ones in order.
Deliverable(m) ==
    \/ stream[m] = "again"
    \/ /\ stream[m] = "new"
       /\ \A n \in Messages : n.lane = m.lane =>
             /\ stream[n] # "again"
             /\ n.seq < m.seq => stream[n] # "new"

Fetch(m) == /\ Deliverable(m)
            /\ stream' = [stream EXCEPT ![m] = "out"]
            /\ hand' = m
-----------------------------------------------------------------------------
(* _run_session_loop.                                                      *)

\* Mutant: the session is named once.
NamedOnce(m) == IF session = 0 THEN Content(m).session ELSE session

\* Mutant: the subject of the first message is not understood.
NamedNever(m) == 0

\* The session of the first backfill message is the one to be transcribed.
NewSession(m) == Content(m).session

\* Phase 1 waits for backfill audio, of whatever session.
Detect(m) ==
    /\ up /\ phase = "idle" /\ m.lane = "backfill"
    /\ Fetch(m)
    /\ session' = NewSession(m)
    /\ phase' = "connect"
    /\ UNCHANGED <<up, sent, dgClosed, flushed, tag, deepgram, texts, heard, skipped,
                   faults>>

\* _connect_with_retry succeeds at last.
Connect ==
    /\ up /\ phase = "connect"
    /\ dg' = "open" /\ dgClosed' = FALSE /\ flushed' = FALSE /\ tag' = "backfill"
    /\ phase' = "backfill"
    /\ UNCHANGED <<up, session, hand, sent, line, untexted, stream, texts, heard,
                   skipped, faults>>

\* _fetch_phase: the next message of the lane.
FetchNext(m) ==
    /\ up /\ phase \in Lanes /\ m.lane = phase
    /\ hand = NoMessage /\ ~dgClosed
    /\ Fetch(m)
    /\ UNCHANGED <<up, phase, session, sent, dgClosed, flushed, tag, deepgram, texts,
                   heard, skipped, faults>>

\* The connection is gone: both phases end.
Leave ==
    /\ up /\ phase \in Lanes /\ hand = NoMessage /\ dgClosed
    /\ phase' = "close"
    /\ UNCHANGED <<up, session, hand, sent, dgClosed, flushed, tag, deepgram, stream,
                   texts, heard, skipped, faults>>

\* _send_msgs has the message in hand before it.
InHand == up /\ phase \in Lanes /\ hand # NoMessage /\ ~sent

\* Mutant: no session is told from another.
OfAny(m) == FALSE

OfOther(m) == Content(m).session # session

\* A message of another session is acknowledged and skipped.
Skip ==
    /\ InHand /\ OfOther(hand)
    /\ Ack(hand)
    /\ skipped' = skipped \cup {[msg |-> hand, during |-> session]}
    /\ hand' = NoMessage
    /\ UNCHANGED <<up, phase, session, sent, dgClosed, flushed, tag, deepgram, texts,
                   heard>>

\* Mutant: every EOS marker closes the connection.
AlwaysClose(p, closed) == "close"

\* Where an EOS marker leads from phase p: the connection stays open for the live
\* phase.
AfterEos(p, closed) == IF p = "backfill" /\ ~closed THEN "flush" ELSE "close"

EndOfStream ==
    /\ InHand /\ ~OfOther(hand) /\ Content(hand).eos
    /\ Ack(hand)
    /\ hand' = NoMessage
    /\ phase' = AfterEos(phase, dgClosed)
    /\ dgClosed' = (dgClosed \/ phase = "live")
    /\ UNCHANGED <<up, session, sent, flushed, tag, deepgram, texts, heard, skipped>>

\* send_audio succeeds.
Send ==
    /\ InHand /\ ~OfOther(hand) /\ ~Content(hand).eos
    /\ dg = "open"
    /\ line' = Append(line, hand) /\ untexted' = Append(untexted, hand)
    /\ heard' = heard \cup {hand}
    /\ sent' = TRUE
    /\ UNCHANGED <<up, phase, session, hand, dgClosed, flushed, tag, dg, stream, texts,
                   skipped, faults>>

\* It raises, on a closed connection or otherwise: the message stays
\* unacknowledged and the connection is given up.
SendFails ==
    /\ InHand /\ ~OfOther(hand) /\ ~Content(hand).eos
    /\ \/ dg = "closed" /\ UNCHANGED faults
       \/ dg = "open" /\ Fault("send")
    /\ dgClosed' = TRUE /\ hand' = NoMessage /\ phase' = "close"
    /\ UNCHANGED <<up, session, sent, flushed, tag, deepgram, stream, texts, heard,
                   skipped>>

\* Mutant: a message is not acknowledged after its send.
NeverAcked ==
    /\ up /\ sent
    /\ sent' = FALSE /\ hand' = NoMessage
    /\ UNCHANGED <<up, phase, session, dgClosed, flushed, tag, deepgram, stream, texts,
                   heard, skipped, faults>>

\* The ack after a send; one that raises counts as a failed send.
AckSent ==
    /\ up /\ sent
    /\ sent' = FALSE /\ hand' = NoMessage
    /\ \/ Ack(hand) /\ UNCHANGED <<phase, dgClosed>>
       \/ Fault("call") /\ phase' = "close" /\ dgClosed' = TRUE /\ UNCHANGED stream
    /\ UNCHANGED <<up, session, flushed, tag, deepgram, texts, heard, skipped>>

\* Mutant: the tag is not switched.
SameTag == tag

\* The tag after the flush.
Switched == IF dgClosed THEN tag ELSE "live"

\* _flush_backfill: Deepgram is told to finalize, and the first final event of the
\* connection, whatever it covers, ends the wait; five seconds without any are a
\* fault unless the connection is closed.
Flush ==
    /\ up /\ phase = "flush"
    /\ \/ (flushed \/ untexted = <<>> \/ dg = "closed") /\ UNCHANGED faults
       \/ Fault("slow")
    /\ tag' = Switched
    /\ phase' = "await"
    /\ UNCHANGED <<up, session, hand, sent, dgClosed, flushed, deepgram, stream, texts,
                   heard, skipped>>

\* Phase 3 waits for live audio, of whatever session, and for nothing else.
AwaitLive(m) ==
    /\ up /\ phase = "await" /\ m.lane = "live"
    /\ Fetch(m)
    /\ phase' = "live"
    /\ UNCHANGED <<up, session, sent, dgClosed, flushed, tag, deepgram, texts, heard,
                   skipped, faults>>

\* _close_transcriber: what Deepgram has not sent by now is lost.
Close ==
    /\ up /\ phase = "close"
    /\ dg' = "none" /\ line' = <<>> /\ untexted' = <<>>
    /\ phase' = "idle"
    /\ UNCHANGED <<up, session, hand, sent, dgClosed, flushed, tag, stream, texts, heard,
                   skipped, faults>>
-----------------------------------------------------------------------------
(* _drain_events.                                                          *)

\* A final event covers the oldest audio without text, and is published under
\* the tag of the moment, or that fails and is logged.
Transcribe ==
    /\ up /\ dg = "open" /\ untexted # <<>>
    /\ untexted' = Tail(untexted)
    /\ flushed' = TRUE
    /\ \/ texts' = texts \cup {[of |-> Head(untexted), tag |-> tag]} /\ UNCHANGED faults
       \/ UNCHANGED texts /\ Fault("call")
    /\ UNCHANGED <<up, phase, session, hand, sent, dgClosed, tag, dg, line, stream,
                   heard, skipped>>

\* The events end with the connection.
DrainEnds ==
    /\ up /\ dg = "closed" /\ ~dgClosed
    /\ dgClosed' = TRUE
    /\ UNCHANGED <<up, phase, session, hand, sent, flushed, tag, deepgram, stream,
                   texts, heard, skipped, faults>>
-----------------------------------------------------------------------------
(* The environment.                                                        *)

\* audio-producer publishes the next message of a lane; a session starts when the
\* live audio of those before it has ended.
Publish(m) ==
    /\ stream[m] = "none"
    /\ \A n \in Messages : stream[n] = "none" =>
          /\ n.lane = m.lane => n.seq >= m.seq
          /\ n.lane = "live" => Content(n).session >= Content(m).session
    /\ stream' = [stream EXCEPT ![m] = "new"]
    /\ UNCHANGED <<up, memory, deepgram, texts, heard, skipped, faults>>

\* The ack wait of 30 s is over.  A message that the process has in hand is not
\* held that long, but for a fault.
Redeliver(m) ==
    /\ stream[m] = "out"
    /\ \/ m # hand /\ UNCHANGED faults
       \/ m = hand /\ Fault("slow")
    /\ stream' = [stream EXCEPT ![m] = "again"]
    /\ UNCHANGED <<up, memory, deepgram, texts, heard, skipped>>

\* Deepgram closes the connection, and what it has not answered is lost.
Closes == dg' = "closed" /\ untexted' = <<>> /\ UNCHANGED line

Drop ==
    /\ up /\ dg = "open"
    /\ Closes /\ Fault("drop")
    /\ UNCHANGED <<up, memory, stream, texts, heard, skipped>>

\* It does so by itself when no audio comes for some seconds: an active session
\* has a chunk every 96 ms, one that is over has no more.
IdleClose ==
    /\ up /\ dg = "open" /\ hand = NoMessage /\ phase \in {"await", "live", "backfill"}
    /\ \A m \in Messages : Content(m).session = session =>
          stream[m] \in {"out", "acked"}
    /\ Closes
    /\ UNCHANGED <<up, memory, stream, texts, heard, skipped, faults>>

\* The process ends, by itself when an ack of a skipped message or marker raises.
Crash ==
    /\ up /\ Fault("crash")
    /\ up' = FALSE
    /\ phase' = "idle" /\ session' = 0 /\ hand' = NoMessage /\ sent' = FALSE
    /\ dgClosed' = FALSE /\ flushed' = FALSE /\ tag' = "backfill"
    /\ dg' = "none" /\ line' = <<>> /\ untexted' = <<>>
    /\ UNCHANGED <<stream, texts, heard, skipped>>

Boot == ~up /\ up' = TRUE
        /\ UNCHANGED <<memory, deepgram, stream, texts, heard, skipped, faults>>
-----------------------------------------------------------------------------
Init ==
    /\ up = FALSE
    /\ phase = "idle" /\ session = 0 /\ hand = NoMessage /\ sent = FALSE
    /\ dgClosed = FALSE /\ flushed = FALSE /\ tag = "backfill"
    /\ dg = "none" /\ line = <<>> /\ untexted = <<>>
    /\ stream = [m \in Messages |-> "none"]
    /\ texts = {} /\ heard = {} /\ skipped = {}
    /\ faults = 0

Loop == \/ Connect \/ Leave \/ Skip \/ EndOfStream \/ Send \/ SendFails \/ AckSent
        \/ Flush \/ Close
        \/ \E m \in Messages : Detect(m) \/ FetchNext(m) \/ AwaitLive(m)
Drain == Transcribe \/ DrainEnds
Environment == \/ Drop \/ IdleClose \/ Crash \/ Boot
               \/ \E m \in Messages : Publish(m) \/ Redeliver(m)

Next == Loop \/ Drain \/ Environment

Spec == Init /\ [][Next]_vars

\* Every await ends, Deepgram answers and closes idle connections, messages come
\* again, Docker restarts the container, and a flush ends while its session is
\* active (FlushEndsWhileActive of AudioProducer).
Fairness ==
    /\ WF_vars(Loop) /\ WF_vars(Drain) /\ WF_vars(IdleClose) /\ WF_vars(Boot)
    /\ \A m \in Messages : /\ WF_vars(Redeliver(m))
                           /\ m.lane = "backfill" => WF_vars(Publish(m))

FairSpec == Spec /\ Fairness
-----------------------------------------------------------------------------
(* Properties.                                                             *)

Phases == {"idle", "connect", "backfill", "flush", "await", "live", "close"}

\* Every variable keeps its type, and a connection exists in the phases that use it.
TypeOK ==
    /\ up \in BOOLEAN /\ phase \in Phases /\ session \in Sessions \cup {0}
    /\ hand \in Messages \cup {NoMessage} /\ sent \in BOOLEAN
    /\ dgClosed \in BOOLEAN /\ flushed \in BOOLEAN /\ tag \in Lanes
    /\ dg \in {"none", "open", "closed"} /\ line \in Seq(Audio) /\ untexted \in Seq(Audio)
    /\ dg = "none" <=> phase \in {"idle", "connect"}
    /\ stream \in [Messages -> {"none", "new", "out", "again", "acked"}]
    /\ texts \subseteq [of : Audio, tag : Lanes]
    /\ heard \subseteq Audio
    /\ skipped \subseteq [msg : Messages, during : Sessions]
    /\ faults \in 0 .. MaxFaults

Calm == faults = 0

\* A connection carries one session, and its backfill before its live audio,
\* through any fault.
LineStraight ==
    \A i, j \in DOMAIN line : i < j =>
        /\ Content(line[i]).session = Content(line[j]).session
        /\ line[i].lane = "live" => line[j].lane = "live"

\* When nothing goes wrong it carries a lane in order, each message once.
LineInOrder ==
    Calm => \A i, j \in DOMAIN line :
                i < j /\ line[i].lane = line[j].lane => line[i].seq < line[j].seq

\* The text of live audio never goes out under the backfill tag, not even when
\* the connection closes around the switch.
LiveTaggedLive == \A x \in texts : x.of.lane = "live" => x.tag = "live"

\* What audio-producer publishes when its flushes do not overlap and lose no call: a
\* lane carries one session after the other, a session has its EOS marker in both, and
\* no backfill follows the marker.
WellMarked ==
    /\ \A m, n \in Messages : m.lane = n.lane /\ m.seq < n.seq
                              => Content(m).session <= Content(n).session
    /\ \A m \in Messages, l \in Lanes : m.lane = "backfill" =>
           \E k \in Messages : /\ k.lane = l /\ Content(k).eos
                               /\ Content(k).session = Content(m).session
    /\ \A k, m \in Messages :
           k.lane = "backfill" /\ m.lane = "backfill" /\ Content(k).eos
           /\ Content(k).session = Content(m).session => m.seq <= k.seq

\* What is skipped is stale: of an earlier session than the one transcribed, if the
\* lanes are well marked.
SkippedWereStale ==
    Calm => \A x \in skipped : Content(x.msg).session < x.during

\* Audio that is published before the EOS marker of its session.
Audible(m) == \A n \in Messages : n.lane = m.lane /\ n.seq < m.seq /\ Content(n).eos
                                  => Content(n).session # Content(m).session

\* Audio is never lost: all of a session reaches Deepgram in the end.
AudioTranscribed == \A m \in Audio : Audible(m) => (stream[m] # "none" ~> m \in heard)

\* So it is when no call is lost, no connection drops and no process dies, whatever
\* the interleaving of the lanes, Deepgram's answers and the sessions.
CalmTranscribed == []Calm => AudioTranscribed
=============================================================================
