-------------------------- MODULE SttProvider_proofs --------------------------
(***************************************************************************)
(* Proofs about SttProvider, for all streams and any faults: types, the    *)
(* order of the audio on a connection, the tag of live text, and which     *)
(* messages are skipped.                                                   *)
(***************************************************************************)
EXTENDS SttProvider, TLAPS

(* What the properties rest on.                                              *)

\* A session is named once it was detected.
NamedSession == phase # "idle" => session \in Sessions

\* The message that waits for its ack is in hand, in the phase that sent it.
SentInPhase == sent => phase \in Lanes /\ hand # NoMessage

\* What the process has in hand belongs to its phase.
HandOfPhase ==
    /\ phase \in {"connect", "backfill"} => hand.lane # "live"
    /\ phase = "live" /\ hand # NoMessage => hand.lane = "live"

\* A connection that was given up before the end of a phase is closed.
ClosedIsClosed ==
    dgClosed /\ phase \in {"backfill", "flush", "await", "live"} => dg = "closed"

\* Where live audio can be sent the tag says so.
TagOfPhase == phase \in {"await", "live"} /\ dg = "open" => tag = "live"

\* No audio is left over from an earlier connection.
Unconnected == phase \in {"idle", "connect"} => line = <<>> /\ untexted = <<>>

\* The audio on the connection is the session's, and not live before Phase 3.
LineOfSession ==
    \A i \in DOMAIN line :
        /\ Content(line[i]).session = session
        /\ phase \in {"backfill", "flush", "await"} => line[i].lane # "live"

\* Live audio that waits for its text waits under the live tag.
UntextedTagged == \A i \in DOMAIN untexted : untexted[i].lane = "live" => tag = "live"

ControlInv == NamedSession /\ SentInPhase /\ HandOfPhase /\ ClosedIsClosed
              /\ TagOfPhase
AudioInv   == Unconnected /\ LineOfSession /\ LineStraight /\ UntextedTagged
              /\ LiveTaggedLive

IInv == TypeOK /\ ControlInv /\ AudioInv
-----------------------------------------------------------------------------
(* Messages.                                                                 *)

\* A message has a lane and a content.
LEMMA MessageType ==
    ASSUME NEW m \in Messages
    PROVE  m.lane \in Lanes /\ m # NoMessage /\ Content(m) \in Marked
  BY AudioAssumption DEF Messages, NoMessage, Content, Lanes

\* The operators that actions share keep the types of what they change.
LEMMA AckType ==
    ASSUME TypeOK, NEW m, Ack(m)
    PROVE  /\ stream' \in [Messages -> {"none", "new", "out", "again", "acked"}]
           /\ faults' \in 0 .. MaxFaults
  BY FaultsAssumption DEF TypeOK, Ack, Fault

LEMMA FaultType ==
    ASSUME TypeOK, NEW k, Fault(k)
    PROVE  faults' \in 0 .. MaxFaults
  BY FaultsAssumption DEF TypeOK, Fault
-----------------------------------------------------------------------------
\* The initial states satisfy the invariant.
LEMMA InitInv == Init => IInv
  <1> SUFFICES ASSUME Init PROVE IInv
    OBVIOUS
  <1>1. TypeOK
    <2>1. session \in Sessions \cup {0} /\ faults \in 0 .. MaxFaults
      BY FaultsAssumption DEF Init
    <2>2. phase \in Phases /\ tag \in Lanes /\ dg \in {"none", "open", "closed"}
      BY DEF Init, Phases, Lanes
    <2>3. /\ up \in BOOLEAN /\ sent \in BOOLEAN /\ dgClosed \in BOOLEAN
          /\ flushed \in BOOLEAN
      BY DEF Init
    <2>4. dg = "none" <=> phase \in {"idle", "connect"}
      BY DEF Init
    <2>5. line \in Seq(Audio) /\ untexted \in Seq(Audio)
      BY DEF Init
    <2>6. hand \in Messages \cup {NoMessage}
      BY DEF Init
    <2>7. stream \in [Messages -> {"none", "new", "out", "again", "acked"}]
      BY DEF Init
    <2>8. /\ texts \subseteq [of : Audio, tag : Lanes] /\ heard \subseteq Audio
          /\ skipped \subseteq [msg : Messages, during : Sessions]
      BY DEF Init
    <2> QED
      BY <2>1, <2>2, <2>3, <2>4, <2>5, <2>6, <2>7, <2>8 DEF TypeOK
  <1>2. ControlInv
    BY DEF Init, ControlInv, NamedSession, SentInPhase, HandOfPhase, ClosedIsClosed,
           TagOfPhase, NoMessage
  <1>3. AudioInv
    BY DEF Init, AudioInv, Unconnected, LineOfSession, LineStraight, UntextedTagged,
           LiveTaggedLive
  <1> QED
    BY <1>1, <1>2, <1>3 DEF IInv

\* Every step keeps the types.
LEMMA TypeStep ==
    ASSUME TypeOK, ControlInv, Next
    PROVE  TypeOK'
  <1> USE DEF memory, deepgram
  <1>1. ASSUME NEW m \in Messages, Detect(m) PROVE TypeOK'
    BY <1>1, MessageType DEF Detect, Fetch, NewSession, TypeOK, Phases, Marked, Sessions
  <1>2. CASE Connect
    BY <1>2 DEF Connect, TypeOK, Phases, Lanes
  <1>3. ASSUME NEW m \in Messages, FetchNext(m) PROVE TypeOK'
    BY <1>3 DEF FetchNext, Fetch, TypeOK
  <1>4. CASE Leave
    BY <1>4 DEF Leave, TypeOK, Phases, Lanes
  <1>5. CASE Skip
    <2>1. hand \in Messages /\ session \in Sessions
      BY <1>5 DEF Skip, InHand, TypeOK, ControlInv, NamedSession, Lanes
    <2>2. skipped' \subseteq [msg : Messages, during : Sessions]
      BY <1>5, <2>1 DEF Skip, TypeOK
    <2> QED
      BY <1>5, <2>2, AckType DEF Skip, TypeOK
  <1>6. CASE EndOfStream
    BY <1>6, AckType DEF EndOfStream, InHand, AfterEos, TypeOK, Phases, Lanes
  <1>7. CASE Send
    <2>1. hand \in Audio
      BY <1>7 DEF Send, InHand, TypeOK, Audio
    <2> QED
      BY <1>7, <2>1 DEF Send, TypeOK
  <1>8. CASE SendFails
    BY <1>8, FaultType DEF SendFails, InHand, TypeOK, Phases, Lanes
  <1>9. CASE AckSent
    <2>1. /\ stream' \in [Messages -> {"none", "new", "out", "again", "acked"}]
          /\ faults' \in 0 .. MaxFaults
      BY <1>9, AckType, FaultType DEF AckSent, TypeOK
    <2>2. phase' \in Phases /\ dgClosed' \in BOOLEAN
      BY <1>9 DEF AckSent, TypeOK, Phases
    <2>3. phase \in {"idle", "connect"} <=> phase' \in {"idle", "connect"}
      BY <1>9 DEF AckSent, ControlInv, SentInPhase, Lanes
    <2> QED
      BY <1>9, <2>1, <2>2, <2>3 DEF AckSent, TypeOK
  <1>10. CASE Flush
    BY <1>10, FaultType DEF Flush, Switched, TypeOK, Phases, Lanes
  <1>11. ASSUME NEW m \in Messages, AwaitLive(m) PROVE TypeOK'
    BY <1>11 DEF AwaitLive, Fetch, TypeOK, Phases
  <1>12. CASE Close
    BY <1>12 DEF Close, TypeOK, Phases
  <1>13. CASE Transcribe
    <2>1. Head(untexted) \in Audio /\ Tail(untexted) \in Seq(Audio)
      BY <1>13 DEF Transcribe, TypeOK
    <2>2. texts' \subseteq [of : Audio, tag : Lanes]
      BY <1>13, <2>1 DEF Transcribe, TypeOK
    <2> QED
      BY <1>13, <2>1, <2>2, FaultType DEF Transcribe, TypeOK
  <1>14. CASE DrainEnds
    BY <1>14 DEF DrainEnds, TypeOK
  <1>15. ASSUME NEW m \in Messages, Publish(m) PROVE TypeOK'
    BY <1>15 DEF Publish, TypeOK
  <1>16. ASSUME NEW m \in Messages, Redeliver(m) PROVE TypeOK'
    BY <1>16, FaultType DEF Redeliver, TypeOK
  <1>17. CASE Drop
    BY <1>17, FaultType DEF Drop, Closes, TypeOK
  <1>18. CASE IdleClose
    BY <1>18 DEF IdleClose, Closes, TypeOK
  <1>19. CASE Crash
    <2>1. session' \in Sessions \cup {0} /\ faults' \in 0 .. MaxFaults
      BY <1>19, FaultType DEF Crash
    <2>2. phase' \in Phases /\ tag' \in Lanes /\ dg' \in {"none", "open", "closed"}
      BY <1>19 DEF Crash, Phases, Lanes
    <2>3. /\ up' \in BOOLEAN /\ sent' \in BOOLEAN /\ dgClosed' \in BOOLEAN
          /\ flushed' \in BOOLEAN
      BY <1>19 DEF Crash
    <2>4. line' \in Seq(Audio) /\ untexted' \in Seq(Audio)
      BY <1>19 DEF Crash
    <2>5. dg' = "none" <=> phase' \in {"idle", "connect"}
      BY <1>19 DEF Crash
    <2>6. hand' \in Messages \cup {NoMessage}
      BY <1>19 DEF Crash
    <2>7. stream' = stream /\ texts' = texts /\ heard' = heard /\ skipped' = skipped
      BY <1>19 DEF Crash
    <2> QED
      BY <2>1, <2>2, <2>3, <2>4, <2>5, <2>6, <2>7 DEF TypeOK
  <1>20. CASE Boot
    BY <1>20 DEF Boot, TypeOK
  <1> QED
    BY <1>1, <1>2, <1>3, <1>4, <1>5, <1>6, <1>7, <1>8, <1>9, <1>10, <1>11, <1>12, <1>13,
       <1>14, <1>15, <1>16, <1>17, <1>18, <1>19, <1>20
       DEF Next, Loop, Drain, Environment

\* Every step keeps what ties the tasks' control to the connection and the hand.
LEMMA ControlStep ==
    ASSUME TypeOK, ControlInv, Next
    PROVE  ControlInv'
  <1> USE DEF memory, deepgram, ControlInv, NamedSession, SentInPhase, HandOfPhase,
              ClosedIsClosed, TagOfPhase
  <1>1. ASSUME NEW m \in Messages, Detect(m) PROVE ControlInv'
    BY <1>1, MessageType DEF Detect, Fetch, NewSession, Marked, TypeOK, Lanes
  <1>2. CASE Connect
    BY <1>2 DEF Connect, Lanes
  <1>3. ASSUME NEW m \in Messages, FetchNext(m) PROVE ControlInv'
    BY <1>3, MessageType DEF FetchNext, Fetch, Lanes
  <1>4. CASE Leave
    BY <1>4 DEF Leave, Lanes
  <1>5. CASE Skip
    BY <1>5 DEF Skip, InHand, Lanes, NoMessage
  <1>6. CASE EndOfStream
    BY <1>6 DEF EndOfStream, InHand, AfterEos, Lanes, NoMessage
  <1>7. CASE Send
    BY <1>7 DEF Send, InHand, Lanes
  <1>8. CASE SendFails
    BY <1>8 DEF SendFails, InHand, Lanes, NoMessage
  <1>9. CASE AckSent
    BY <1>9 DEF AckSent, Lanes, NoMessage
  <1>10. CASE Flush
    BY <1>10 DEF Flush, Switched, Lanes
  <1>11. ASSUME NEW m \in Messages, AwaitLive(m) PROVE ControlInv'
    BY <1>11 DEF AwaitLive, Fetch, Lanes
  <1>12. CASE Close
    BY <1>12 DEF Close, Lanes
  <1>13. CASE Transcribe
    BY <1>13 DEF Transcribe, Lanes
  <1>14. CASE DrainEnds
    BY <1>14 DEF DrainEnds, Lanes
  <1>15. ASSUME NEW m \in Messages, Publish(m) \/ Redeliver(m) PROVE ControlInv'
    BY <1>15 DEF Publish, Redeliver, Lanes
  <1>16. CASE Drop \/ IdleClose
    BY <1>16 DEF Drop, IdleClose, Closes, Lanes
  <1>17. CASE Crash
    BY <1>17 DEF Crash, Lanes, NoMessage
  <1>18. CASE Boot
    BY <1>18 DEF Boot, Lanes
  <1> QED
    BY <1>1, <1>2, <1>3, <1>4, <1>5, <1>6, <1>7, <1>8, <1>9, <1>10, <1>11, <1>12, <1>13,
       <1>14, <1>15, <1>16, <1>17, <1>18 DEF Next, Loop, Drain, Environment

\* A step that leaves the connection and the texts alone keeps what is known of
\* the audio, if it neither renames the session nor takes the tag away and does
\* not turn back to an earlier phase.
LEMMA AudioFrame ==
    ASSUME TypeOK, AudioInv, UNCHANGED <<line, untexted, texts>>,
           \/ phase \in {"idle", "connect"}
           \/ UNCHANGED session /\ (tag' = tag \/ tag' = "live"),
           phase' \in {"idle", "connect"} => phase \in {"idle", "connect"},
           phase' \in {"backfill", "flush", "await"} =>
              phase \in {"idle", "connect", "backfill", "flush", "await"}
    PROVE  AudioInv'
  BY DEF AudioInv, Unconnected, LineOfSession, LineStraight, UntextedTagged,
         LiveTaggedLive, TypeOK, Content

\* Every step keeps what is known of the audio.
LEMMA AudioStep ==
    ASSUME TypeOK, ControlInv, AudioInv, Next
    PROVE  AudioInv'
  <1> USE DEF memory, deepgram
  <1>1. CASE Send
    <2> DEFINE n == Len(line)
    <2>1. /\ line \in Seq(Audio) /\ untexted \in Seq(Audio)
          /\ line' = Append(line, hand) /\ untexted' = Append(untexted, hand)
          /\ UNCHANGED <<phase, session, tag, texts>>
          /\ hand \in Audio
      BY <1>1 DEF Send, InHand, TypeOK, Audio
    <2>2. /\ phase \in {"backfill", "live"} /\ Content(hand).session = session
          /\ phase = "backfill" => hand.lane # "live"
          /\ phase = "live" => hand.lane = "live" /\ tag = "live"
      BY <1>1 DEF Send, InHand, OfOther, ControlInv, HandOfPhase, TagOfPhase, Lanes
    <2>3. /\ DOMAIN line = 1 .. n /\ DOMAIN line' = 1 .. n + 1 /\ n \in Nat
          /\ \A i \in 1 .. n : line'[i] = line[i]
          /\ line'[n + 1] = hand
      BY <2>1
    <2>4. LineOfSession'
      <3> SUFFICES ASSUME NEW i \in 1 .. n + 1
                   PROVE  /\ Content(line'[i]).session = session
                          /\ phase \in {"backfill", "flush", "await"} =>
                                line'[i].lane # "live"
        BY <2>1, <2>3 DEF LineOfSession, Content
      <3>1. CASE i = n + 1
        BY <3>1, <2>2, <2>3
      <3>2. CASE i \in 1 .. n
        BY <3>2, <2>3 DEF AudioInv, LineOfSession
      <3> QED
        BY <3>1, <3>2, <2>3
    <2>5. LineStraight'
      <3> SUFFICES ASSUME NEW i \in 1 .. n + 1, NEW j \in 1 .. n + 1, i < j
                   PROVE  /\ Content(line'[i]).session = Content(line'[j]).session
                          /\ line'[i].lane = "live" => line'[j].lane = "live"
        BY <2>3 DEF LineStraight, Content
      <3>1. i \in 1 .. n /\ line'[i] = line[i] /\ Content(line[i]).session = session
        BY <2>3 DEF AudioInv, LineOfSession
      <3>2. CASE j = n + 1
        BY <3>1, <3>2, <2>2, <2>3 DEF AudioInv, LineOfSession
      <3>3. CASE j \in 1 .. n
        BY <3>1, <3>3, <2>3 DEF AudioInv, LineStraight
      <3> QED
        BY <3>2, <3>3, <2>3
    <2>6. UntextedTagged'
      BY <2>1, <2>2 DEF AudioInv, UntextedTagged
    <2>7. Unconnected' /\ LiveTaggedLive'
      BY <2>1, <2>2 DEF AudioInv, Unconnected, LiveTaggedLive
    <2> QED
      BY <2>4, <2>5, <2>6, <2>7 DEF AudioInv
  <1>2. CASE Transcribe
    <2>1. /\ untexted \in Seq(Audio) /\ untexted # <<>> /\ untexted' = Tail(untexted)
          /\ UNCHANGED <<phase, session, tag, line>>
      BY <1>2 DEF Transcribe, TypeOK
    <2>2. UntextedTagged'
      BY <2>1 DEF AudioInv, UntextedTagged
    <2>3. Head(untexted).lane = "live" => tag = "live"
      BY <2>1 DEF AudioInv, UntextedTagged
    <2>4. LiveTaggedLive'
      BY <1>2, <2>3 DEF Transcribe, AudioInv, LiveTaggedLive
    <2>5. Unconnected'
      BY <2>1 DEF AudioInv, Unconnected
    <2> QED
      BY <2>1, <2>2, <2>4, <2>5
         DEF AudioInv, LineOfSession, LineStraight, Content
  <1>3. CASE Close \/ Crash
    BY <1>3 DEF Close, Crash, AudioInv, Unconnected, LineOfSession, LineStraight,
                UntextedTagged, LiveTaggedLive
  <1>4. CASE Drop \/ IdleClose
    BY <1>4 DEF Drop, IdleClose, Closes, AudioInv, Unconnected, LineOfSession,
                LineStraight, UntextedTagged, LiveTaggedLive, Content
  <1>5. ASSUME NEW m \in Messages, Detect(m) PROVE AudioInv'
    BY <1>5, AudioFrame DEF Detect
  <1>6. CASE Connect
    BY <1>6, AudioFrame DEF Connect
  <1>7. ASSUME NEW m \in Messages, FetchNext(m) PROVE AudioInv'
    BY <1>7, AudioFrame DEF FetchNext
  <1>8. CASE Leave
    BY <1>8, AudioFrame DEF Leave, Lanes
  <1>9. CASE Skip
    BY <1>9, AudioFrame DEF Skip
  <1>10. CASE EndOfStream
    BY <1>10, AudioFrame DEF EndOfStream, InHand, AfterEos, Lanes
  <1>11. CASE SendFails
    BY <1>11, AudioFrame DEF SendFails, InHand, Lanes
  <1>12. CASE AckSent
    BY <1>12, AudioFrame DEF AckSent
  <1>13. CASE Flush
    BY <1>13, AudioFrame DEF Flush, Switched
  <1>14. ASSUME NEW m \in Messages, AwaitLive(m) PROVE AudioInv'
    BY <1>14, AudioFrame DEF AwaitLive
  <1>15. CASE DrainEnds
    BY <1>15, AudioFrame DEF DrainEnds
  <1>16. ASSUME NEW m \in Messages, Publish(m) \/ Redeliver(m) PROVE AudioInv'
    BY <1>16, AudioFrame DEF Publish, Redeliver
  <1>17. CASE Boot
    BY <1>17, AudioFrame DEF Boot
  <1> QED
    BY <1>1, <1>2, <1>3, <1>4, <1>5, <1>6, <1>7, <1>8, <1>9, <1>10, <1>11, <1>12, <1>13,
       <1>14, <1>15, <1>16, <1>17 DEF Next, Loop, Drain, Environment

\* The invariant holds in every behaviour.
LEMMA Invariant == Spec => []IInv
  <1>1. IInv /\ [Next]_vars => IInv'
    <2> SUFFICES ASSUME IInv, [Next]_vars PROVE IInv'
      OBVIOUS
    <2>1. CASE Next
      BY <2>1, TypeStep, ControlStep, AudioStep DEF IInv
    <2>2. CASE UNCHANGED vars
      BY <2>2 DEF vars, memory, deepgram, IInv, TypeOK, ControlInv, NamedSession,
                  SentInPhase, HandOfPhase, ClosedIsClosed, TagOfPhase, AudioInv,
                  Unconnected, LineOfSession, LineStraight, UntextedTagged,
                  LiveTaggedLive, Content
    <2> QED
      BY <2>1, <2>2
  <1> QED
    BY InitInv, <1>1, PTL DEF Spec
-----------------------------------------------------------------------------
\* Every variable of SttProvider keeps its type.
THEOREM TypeCorrect == Spec => []TypeOK
  BY Invariant, PTL DEF IInv

\* Whatever fails, a Deepgram connection carries the audio of one session only, and
\* no backfill after live audio: the session loop's filter and its phases suffice.
THEOREM ConnectionStraight == Spec => []LineStraight
  BY Invariant, PTL DEF IInv, AudioInv

\* Whatever fails, text of live audio is published as live: by the time live audio
\* can be sent, _flush_backfill has switched the tag that _drain_events reads.
THEOREM LiveTagged == Spec => []LiveTaggedLive
  BY Invariant, PTL DEF IInv, AudioInv
-----------------------------------------------------------------------------
(* The order of a lane when nothing goes wrong.                              *)

Delivered(m) == stream[m] \in {"out", "acked"}

\* Outside the phases that receive, the process has nothing in hand.
HandIdle == phase \notin {"connect", "backfill", "live"} => hand = NoMessage

\* A lane is published in order,
Published == \A m, n \in Messages :
                 m.lane = n.lane /\ m.seq < n.seq /\ stream[m] = "none" => stream[n] = "none"
\* and delivered in order, one message at a time:
InOrder == \A m, n \in Messages :
               m.lane = n.lane /\ m.seq < n.seq /\ Delivered(n) => Delivered(m)
\* what is out is what the process has in hand, and nothing comes again;
OutInHand == \A m \in Messages : (stream[m] = "out" <=> m = hand) /\ stream[m] # "again"
\* it is the last message of its lane so far;
HandLast == \A n \in Messages :
                hand # NoMessage /\ n.lane = hand.lane /\ Delivered(n) => n.seq <= hand.seq
\* Deepgram closes a connection when its session is over;
ClosedDone == dg = "closed" => \A m \in Messages :
                                   Content(m).session = session => stream[m] = "acked"
\* and what was sent is acknowledged, or about to be.
LineAcked == \A i \in DOMAIN line : stream[line[i]] = "acked" \/ (sent /\ line[i] = hand)

LaneInv  == Published /\ OutInHand /\ InOrder /\ HandLast
CalmInv  == LaneInv /\ ClosedDone /\ LineAcked /\ LineInOrder
OrderInv == HandIdle /\ (Calm => CalmInv)

NoFault == Calm /\ \A kind \in FaultKinds : ~Fault(kind)

LEMMA InitOrder == Init => OrderInv
  <1> SUFFICES ASSUME Init PROVE OrderInv
    OBVIOUS
  <1>1. HandIdle /\ Published /\ HandLast /\ ClosedDone
    BY DEF Init, HandIdle, Published, HandLast, ClosedDone
  <1>2. OutInHand
    BY MessageType DEF Init, OutInHand
  <1>3. InOrder /\ LineAcked /\ LineInOrder
    BY DEF Init, InOrder, Delivered, LineAcked, LineInOrder
  <1> QED
    BY <1>1, <1>2, <1>3 DEF OrderInv, CalmInv, LaneInv

\* Faults are counted: a step to a calm state was calm.
LEMMA CalmStep ==
    ASSUME TypeOK, [Next]_vars, Calm'
    PROVE  NoFault
  <1>a. faults \in Nat
    BY FaultsAssumption DEF TypeOK
  <1>1. faults' = faults \/ faults' = faults + 1
    <2>1. Loop => faults' = faults \/ faults' = faults + 1
      BY DEF Loop, Connect, Leave, Skip, EndOfStream, Send, SendFails, AckSent, Flush, Close, Detect,
             FetchNext, AwaitLive, Ack, Fault
    <2>2. Drain \/ Environment \/ UNCHANGED vars => faults' = faults \/ faults' = faults + 1
      BY DEF Drain, Transcribe, DrainEnds, Environment, Drop, IdleClose, Crash, Boot, Publish, Redeliver,
             Fault, vars
    <2> QED
      BY <2>1, <2>2 DEF Next
  <1>2. faults = 0 /\ faults' = faults
    BY <1>a, <1>1 DEF Calm
  <1> QED
    BY <1>2 DEF NoFault, Calm, Fault

\* What a calm step does to the messages and the line: it delivers one, acknowledges the one in hand,
\* sends it, publishes one, or closes the connection.
Delivers(m) == /\ hand = NoMessage /\ ~sent /\ Deliverable(m) /\ hand' = m
               /\ stream' = [stream EXCEPT ![m] = "out"]
               /\ UNCHANGED <<line, sent, dg>> /\ (session' = session \/ dg = "none")
Acks        == /\ hand # NoMessage /\ hand' = NoMessage /\ ~sent'
               /\ stream' = [stream EXCEPT ![hand] = "acked"]
               /\ UNCHANGED <<line, dg, session>>
Sends       == /\ hand # NoMessage /\ ~sent /\ sent' /\ line' = Append(line, hand)
               /\ UNCHANGED <<hand, stream, dg, session>>
Publishes(m) == Publish(m) /\ UNCHANGED <<hand, sent, line, dg, session>>
Ends        == IdleClose /\ UNCHANGED <<hand, sent, line, stream, session>>
Rests       == /\ UNCHANGED <<hand, sent, stream>> /\ line' \in {line, <<>>}
               /\ dg' # "closed" \/ UNCHANGED <<dg, session>>

\* A message is fetched when nothing is in hand.
LEMMA FetchDelivers ==
    ASSUME IInv, HandIdle, NEW m \in Messages, Detect(m) \/ FetchNext(m) \/ AwaitLive(m)
    PROVE  Delivers(m)
  <1>a. SentInPhase /\ (dg = "none" <=> phase \in {"idle", "connect"})
    BY DEF IInv, ControlInv, TypeOK
  <1>1. hand = NoMessage
    BY DEF Detect, FetchNext, AwaitLive, HandIdle
  <1>2. ~sent
    BY <1>a, <1>1 DEF SentInPhase
  <1> QED
    BY <1>a, <1>1, <1>2 DEF Detect, FetchNext, AwaitLive, Fetch, Delivers, deepgram

LEMMA CalmKinds ==
    ASSUME IInv, HandIdle, ClosedDone, OutInHand, NoFault, [Next]_vars
    PROVE  \/ \E m \in Messages : Delivers(m) \/ Publishes(m)
           \/ Acks \/ Sends \/ Ends \/ Rests
  <1> USE DEF memory, deepgram
  <1>a. /\ TypeOK /\ SentInPhase /\ hand \in Messages \cup {NoMessage} /\ sent \in BOOLEAN
        /\ dg = "none" <=> phase \in {"idle", "connect"}
        /\ \A kind \in {"call", "send", "slow", "drop", "crash"} : ~Fault(kind)
    BY DEF IInv, ControlInv, TypeOK, NoFault, FaultKinds
  <1>1. ASSUME NEW m \in Messages, Detect(m) \/ FetchNext(m) \/ AwaitLive(m) PROVE Delivers(m)
    BY <1>1, FetchDelivers
  <1>2. CASE Skip \/ EndOfStream \/ AckSent
    <2>1. hand # NoMessage /\ hand' = NoMessage /\ ~sent'
      BY <1>2, <1>a DEF Skip, EndOfStream, AckSent, InHand, SentInPhase
    <2>2. stream' = [stream EXCEPT ![hand] = "acked"]
      BY <1>2, <1>a DEF Skip, EndOfStream, AckSent, Ack
    <2>3. UNCHANGED <<line, dg, session>>
      BY <1>2 DEF Skip, EndOfStream, AckSent
    <2> QED
      BY <2>1, <2>2, <2>3 DEF Acks
  <1>3. CASE Send
    BY <1>3 DEF Send, InHand, Sends
  <1>4. ~SendFails
    <2>1. SendFails => hand \in Messages /\ stream[hand] = "acked" /\ stream[hand] = "out"
      BY <1>a DEF SendFails, InHand, OfOther, ClosedDone, OutInHand
    <2> QED
      BY <2>1
  <1>5. CASE Connect \/ Leave \/ Flush \/ Close
    BY <1>5, <1>a DEF Connect, Leave, Flush, Close, Rests
  <1>6. CASE Drain
    BY <1>6 DEF Drain, Transcribe, DrainEnds, Rests
  <1>7. ASSUME NEW m \in Messages, Publish(m) PROVE Publishes(m)
    BY <1>7 DEF Publish, Publishes
  <1>8. ASSUME NEW m \in Messages, Redeliver(m) PROVE FALSE
    BY <1>8, <1>a DEF Redeliver, OutInHand
  <1>9. ~Drop /\ ~Crash
    BY <1>a DEF Drop, Crash
  <1>10. CASE IdleClose
    BY <1>10 DEF IdleClose, Closes, Ends
  <1>11. CASE Boot \/ UNCHANGED vars
    BY <1>11 DEF Boot, vars, Rests
  <1> QED
    BY <1>1, <1>2, <1>3, <1>4, <1>5, <1>6, <1>7, <1>8, <1>9, <1>10, <1>11 DEF Next, Loop, Environment

\* A message is known by its lane and its place.
LEMMA SameMessage ==
    ASSUME NEW m \in Messages, NEW n \in Messages, m.lane = n.lane
    PROVE  m.seq \in Nat /\ n.seq \in Nat /\ (m.seq = n.seq => m = n)
  <1>1. Messages \subseteq [lane : Lanes, seq : Nat]
    BY AudioAssumption DEF Messages, Lanes
  <1> QED
    BY <1>1

\* The consumer delivers the first message of its lane that is new.
LEMMA DeliversFirst ==
    ASSUME TypeOK, Published, OutInHand, NEW m \in Messages, Delivers(m)
    PROVE  /\ stream[m] = "new"
           /\ \A n \in Messages : n.lane = m.lane /\ n.seq < m.seq => Delivered(n)
  <1>1. stream[m] = "new"
    BY DEF Delivers, Deliverable, OutInHand
  <1>2. \A n \in Messages : n.lane = m.lane /\ n.seq < m.seq =>
           stream[n] # "new" /\ stream[n] # "none" /\ stream[n] # "again"
    BY <1>1 DEF Delivers, Deliverable, Published, OutInHand
  <1> QED
    BY <1>1, <1>2 DEF TypeOK, Delivered

LEMMA CalmDelivers ==
    ASSUME IInv, Calm, CalmInv, NEW m \in Messages, Delivers(m)
    PROVE  CalmInv'
  <1>a. /\ stream \in [Messages -> {"none", "new", "out", "again", "acked"}]
        /\ hand = NoMessage /\ hand' = m /\ stream' = [stream EXCEPT ![m] = "out"]
        /\ UNCHANGED <<line, sent, dg>> /\ ~sent
    BY DEF IInv, TypeOK, Delivers
  <1>b. /\ stream[m] = "new" /\ m # NoMessage
        /\ \A n \in Messages : n.lane = m.lane /\ n.seq < m.seq => Delivered(n)
    BY DeliversFirst, MessageType DEF IInv, CalmInv, LaneInv
  <1>c. \A n \in Messages : Delivered(n)' <=> Delivered(n) \/ n = m
    BY <1>a DEF Delivered
  <1>1. OutInHand'
    <2>1. \A n \in Messages : n # NoMessage
      BY MessageType
    <2> QED
      BY <1>a, <2>1 DEF CalmInv, LaneInv, OutInHand
  <1>2. InOrder'
    BY <1>b, <1>c DEF CalmInv, LaneInv, InOrder
  <1>3. HandLast'
    <2> SUFFICES ASSUME NEW n \in Messages, n.lane = m.lane, Delivered(n)' PROVE n.seq <= m.seq
      BY <1>a DEF HandLast
    <2>1. CASE n = m
      BY <2>1, SameMessage
    <2>2. CASE Delivered(n)
      <3>1. ~(m.seq < n.seq)
        BY <2>2, <1>b DEF CalmInv, LaneInv, InOrder, Delivered
      <3> QED
        BY <3>1, SameMessage
    <2> QED
      BY <1>c, <2>1, <2>2
  <1>4. ClosedDone'
    <2> SUFFICES ASSUME dg = "closed", NEW n \in Messages, Content(n).session = session'
                 PROVE  stream'[n] = "acked"
      BY <1>a DEF ClosedDone, Content
    <2>1. session' = session
      BY DEF Delivers
    <2>2. stream[n] = "acked"
      BY <2>1 DEF CalmInv, ClosedDone
    <2> QED
      BY <1>a, <1>b, <2>2
  <1>5. LineAcked'
    <2>1. line \in Seq(Messages)
      BY DEF IInv, TypeOK, Audio
    <2> QED
      BY <1>a, <1>b, <2>1 DEF CalmInv, LineAcked
  <1>6. LineInOrder'
    BY <1>a DEF CalmInv, LineInOrder
  <1>7. Published'
    BY <1>a, <1>b DEF CalmInv, LaneInv, Published
  <1> QED
    BY <1>1, <1>2, <1>3, <1>4, <1>5, <1>6, <1>7 DEF CalmInv, LaneInv

LEMMA CalmAcks ==
    ASSUME IInv, Calm, CalmInv, Acks
    PROVE  CalmInv'
  <1>a. /\ stream \in [Messages -> {"none", "new", "out", "again", "acked"}]
        /\ hand \in Messages /\ hand' = NoMessage /\ stream' = [stream EXCEPT ![hand] = "acked"]
        /\ UNCHANGED <<line, dg, session>> /\ stream[hand] = "out"
    BY DEF IInv, TypeOK, Acks, CalmInv, LaneInv, OutInHand
  <1>c. \A n \in Messages : Delivered(n)' <=> Delivered(n)
    BY <1>a DEF Delivered
  <1>1. OutInHand'
    <2>1. \A n \in Messages : n # NoMessage
      BY MessageType
    <2> QED
      BY <1>a, <2>1 DEF CalmInv, LaneInv, OutInHand
  <1>2. InOrder' /\ HandLast'
    BY <1>a, <1>c DEF CalmInv, LaneInv, InOrder, HandLast
  <1>3. ClosedDone'
    BY <1>a DEF CalmInv, ClosedDone, Content
  <1>4. LineAcked'
    <2>1. line \in Seq(Messages)
      BY DEF IInv, TypeOK, Audio
    <2> QED
      BY <1>a, <2>1 DEF CalmInv, LineAcked
  <1>5. LineInOrder' /\ Published'
    BY <1>a DEF CalmInv, LineInOrder, LaneInv, Published
  <1> QED
    BY <1>1, <1>2, <1>3, <1>4, <1>5 DEF CalmInv, LaneInv

\* What is sent follows what was sent of its lane.
LEMMA CalmSends ==
    ASSUME IInv, Calm, CalmInv, Sends
    PROVE  CalmInv'
  <1> DEFINE n == Len(line)
  <1>a. /\ hand \in Messages /\ line \in Seq(Messages) /\ line' = Append(line, hand)
        /\ UNCHANGED <<hand, stream, dg, session>> /\ ~sent /\ sent' /\ stream[hand] = "out"
    BY DEF IInv, TypeOK, Sends, CalmInv, LaneInv, OutInHand, Audio
  <1>b. /\ DOMAIN line = 1 .. n /\ DOMAIN line' = 1 .. n + 1 /\ n \in Nat
        /\ \A i \in 1 .. n : line'[i] = line[i] /\ line[i] \in Messages
        /\ line'[n + 1] = hand
    BY <1>a
  <1>c. \A i \in 1 .. n : stream[line[i]] = "acked"
    BY <1>a, <1>b DEF CalmInv, LineAcked
  <1>1. LaneInv' /\ ClosedDone'
    BY <1>a DEF CalmInv, LaneInv, Published, OutInHand, InOrder, HandLast, ClosedDone, Delivered, Content
  <1>2. LineAcked'
    BY <1>a, <1>b, <1>c DEF LineAcked
  <1>3. LineInOrder'
    <2> SUFFICES ASSUME NEW i \in 1 .. n + 1, NEW j \in 1 .. n + 1, i < j, line'[i].lane = line'[j].lane
                 PROVE  line'[i].seq < line'[j].seq
      BY <1>b DEF LineInOrder
    <2>1. i \in 1 .. n
      BY <1>b
    <2>2. CASE j \in 1 .. n
      BY <1>b, <2>1, <2>2 DEF CalmInv, LineInOrder
    <2>3. CASE j = n + 1
      <3>1. line[i].lane = hand.lane /\ stream[line[i]] = "acked" /\ line[i] # hand
        BY <1>a, <1>b, <1>c, <2>1, <2>3
      <3>2. line[i].seq <= hand.seq
        BY <1>a, <1>b, <2>1, <3>1, MessageType DEF CalmInv, LaneInv, HandLast, Delivered
      <3>3. line[i].seq < hand.seq
        BY <1>a, <1>b, <2>1, <3>1, <3>2, SameMessage
      <3> QED
        BY <1>b, <2>1, <2>3, <3>3
    <2> QED
      BY <1>b, <2>2, <2>3
  <1> QED
    BY <1>1, <1>2, <1>3 DEF CalmInv

\* What is published is the first message of its lane that was not.
LEMMA PublishedStep ==
    ASSUME Published, stream \in [Messages -> {"none", "new", "out", "again", "acked"}],
           NEW p \in Messages, Publish(p)
    PROVE  Published'
  <1> SUFFICES ASSUME NEW m \in Messages, NEW n \in Messages, m.lane = n.lane, m.seq < n.seq,
                      stream'[m] = "none"
               PROVE  stream'[n] = "none"
    BY DEF Published
  <1>1. /\ stream' = [stream EXCEPT ![p] = "new"]
        /\ \A q \in Messages : stream[q] = "none" /\ q.lane = p.lane => q.seq >= p.seq
    BY DEF Publish
  <1>2. m # p /\ stream[m] = "none" /\ stream[n] = "none"
    BY <1>1 DEF Published
  <1>3. n # p
    BY <1>1, <1>2, SameMessage
  <1> QED
    BY <1>1, <1>2, <1>3

LEMMA CalmRests ==
    ASSUME IInv, Calm, CalmInv, (\E m \in Messages : Publishes(m)) \/ Ends \/ Rests
    PROVE  CalmInv'
  <1>a. stream \in [Messages -> {"none", "new", "out", "again", "acked"}] /\ line \in Seq(Messages)
    BY DEF IInv, TypeOK, Audio
  <1>b. /\ UNCHANGED <<hand, sent>> /\ (line' = line \/ line' = <<>>)
        /\ \A n \in Messages : \/ stream'[n] = stream[n]
                               \/ stream[n] = "none" /\ stream'[n] = "new"
    BY <1>a DEF Publishes, Publish, Ends, Rests
  <1>c. \A n \in Messages : Delivered(n)' <=> Delivered(n)
    BY <1>b DEF Delivered
  <1>1. OutInHand' /\ InOrder' /\ HandLast'
    BY <1>b, <1>c DEF CalmInv, LaneInv, OutInHand, InOrder, HandLast
  <1>2. ClosedDone'
    <2> SUFFICES ASSUME dg' = "closed", NEW n \in Messages, Content(n).session = session'
                 PROVE  stream'[n] = "acked"
      BY DEF ClosedDone, Content
    <2>1. session' = session
      BY DEF Publishes, Ends, Rests
    <2>2. CASE dg = "closed"
      BY <1>b, <2>1, <2>2 DEF CalmInv, ClosedDone
    <2>3. CASE Ends
      <3>1. hand = NoMessage /\ stream[n] \in {"out", "acked"} /\ stream' = stream
        BY <2>1, <2>3 DEF Ends, IdleClose
      <3> QED
        BY <3>1, MessageType DEF CalmInv, LaneInv, OutInHand
    <2> QED
      BY <2>2, <2>3 DEF Publishes, Rests
  <1>3. LineAcked'
    <2>1. \A n \in Messages : stream[n] = "acked" => stream'[n] = "acked"
      BY <1>b
    <2>2. CASE line' = line
      BY <1>a, <1>b, <2>1, <2>2 DEF CalmInv, LineAcked
    <2>3. CASE line' = <<>>
      BY <2>3 DEF LineAcked
    <2> QED
      BY <1>b, <2>2, <2>3
  <1>4. LineInOrder'
    BY <1>b DEF CalmInv, LineInOrder
  <1>5. Published'
    <2>1. CASE stream' = stream
      BY <2>1 DEF CalmInv, LaneInv, Published
    <2>2. ASSUME NEW p \in Messages, Publishes(p) PROVE Published'
      BY <1>a, <2>2, PublishedStep DEF CalmInv, LaneInv, Publishes
    <2> QED
      BY <2>1, <2>2 DEF Ends, Rests
  <1> QED
    BY <1>1, <1>2, <1>3, <1>4, <1>5 DEF CalmInv, LaneInv

\* Whatever fails, nothing is in hand between the phases that receive.
LEMMA HandIdleStep == ASSUME IInv, HandIdle, [Next]_vars PROVE HandIdle'
  <1> USE DEF memory, deepgram
  <1>a. TypeOK /\ SentInPhase
    BY DEF IInv, ControlInv
  <1>1. ASSUME NEW m \in Messages, Detect(m) \/ FetchNext(m) \/ AwaitLive(m) PROVE HandIdle'
    BY <1>1 DEF Detect, FetchNext, AwaitLive, HandIdle, Lanes
  <1>2. CASE Connect \/ Leave \/ Send \/ Flush \/ Close
    BY <1>2 DEF Connect, Leave, Send, InHand, Flush, Close, HandIdle, Lanes
  <1>3. CASE Skip \/ EndOfStream \/ SendFails \/ AckSent \/ Crash
    BY <1>3 DEF Skip, EndOfStream, SendFails, AckSent, Crash, HandIdle
  <1>4. CASE Drain \/ Drop \/ IdleClose \/ Boot \/ UNCHANGED vars
    BY <1>4 DEF Drain, Transcribe, DrainEnds, Drop, IdleClose, Boot, vars, HandIdle
  <1>5. ASSUME NEW m \in Messages, Publish(m) \/ Redeliver(m) PROVE HandIdle'
    BY <1>5 DEF Publish, Redeliver, HandIdle
  <1> QED
    BY <1>1, <1>2, <1>3, <1>4, <1>5 DEF Next, Loop, Environment

LEMMA OrderStep == IInv /\ OrderInv /\ [Next]_vars => OrderInv'
  <1> SUFFICES ASSUME IInv, OrderInv, [Next]_vars PROVE OrderInv'
    OBVIOUS
  <1>1. HandIdle'
    BY HandIdleStep DEF OrderInv
  <1>2. ASSUME Calm' PROVE CalmInv'
    <2>1. NoFault /\ Calm /\ CalmInv /\ HandIdle
      BY <1>2, CalmStep DEF IInv, OrderInv, NoFault
    <2> QED
      BY <2>1, CalmKinds, CalmDelivers, CalmAcks, CalmSends, CalmRests DEF CalmInv, LaneInv
  <1> QED
    BY <1>1, <1>2 DEF OrderInv

\* When nothing goes wrong a connection carries each lane in order, each message once: it is fetched once,
\* sent once, and Deepgram's idle timeout never meets a message that is still to be sent.
THEOREM LaneInOrder == Spec => []LineInOrder
  <1>1. OrderInv => LineInOrder
    BY DEF OrderInv, CalmInv, LineInOrder
  <1> QED
    BY <1>1, InitOrder, OrderStep, Invariant, PTL DEF Spec
-----------------------------------------------------------------------------
(* What is skipped when nothing goes wrong.                                  *)

\* The marker of the session is still to be handled in lane l.
Ahead(l) == \E k \in Messages : /\ k.lane = l /\ Content(k).eos /\ Content(k).session = session
                                /\ stream[k] # "acked"

SentAudio == sent => ~Content(hand).eos
NotNewer  == hand # NoMessage => Content(hand).session <= session
MarkersAhead ==
    /\ phase \in {"connect", "backfill"} => Ahead("backfill")
    /\ phase \in {"connect", "backfill", "flush", "await", "live"} => Ahead("live")
\* The backfill to come is of later sessions, and no live message has been delivered ahead of it.
LaterAhead == phase \in {"flush", "await", "live"} =>
                  \A m \in Messages : m.lane = "backfill" /\ ~Delivered(m)
                                      => session < Content(m).session
LiveBehind == \A m, n \in Messages :
                  n.lane = "live" /\ Delivered(n) /\ m.lane = "backfill" /\ ~Delivered(m)
                  => Content(n).session < Content(m).session

AheadInv == NotNewer /\ MarkersAhead /\ LaterAhead /\ LiveBehind /\ SkippedWereStale
StaleInv == SentAudio /\ (Calm => AheadInv)

LEMMA InitStale == Init => StaleInv
  BY DEF Init, StaleInv, AheadInv, SentAudio, NotNewer, MarkersAhead, LaterAhead, LiveBehind,
         Delivered, SkippedWereStale

LEMMA SentAudioStep == ASSUME IInv, SentAudio, [Next]_vars PROVE SentAudio'
  <1> USE DEF memory, deepgram, SentAudio, Content
  <1>a. SentInPhase
    BY DEF IInv, ControlInv
  <1>1. ASSUME NEW m \in Messages, Detect(m) \/ FetchNext(m) \/ AwaitLive(m) PROVE ~sent' \/ UNCHANGED <<hand, sent>>
    <2>1. Detect(m) => ~sent
      BY <1>a DEF SentInPhase, Detect, Lanes
    <2>2. FetchNext(m) => ~sent
      BY <1>a DEF SentInPhase, FetchNext
    <2>3. AwaitLive(m) => ~sent
      BY <1>a DEF SentInPhase, AwaitLive, Lanes
    <2> QED
      BY <1>1, <2>1, <2>2, <2>3 DEF Detect, FetchNext, AwaitLive
  <1>2. Send => SentAudio'
    BY DEF Send
  <1>3. EndOfStream \/ Skip \/ SendFails => ~sent'
    BY DEF EndOfStream, Skip, SendFails, InHand
  <1>4. AckSent \/ Crash => ~sent'
    BY DEF AckSent, Crash
  <1>5. Connect \/ Leave \/ Flush \/ Close \/ Drain \/ Drop \/ IdleClose \/ Boot \/ UNCHANGED vars
        => UNCHANGED <<hand, sent>>
    BY DEF Connect, Leave, Flush, Close, Drain, Transcribe, DrainEnds, Drop, IdleClose, Boot, vars
  <1>6. \A m \in Messages : Publish(m) \/ Redeliver(m) => UNCHANGED <<hand, sent>>
    BY DEF Publish, Redeliver
  <1> QED
    BY <1>1, <1>2, <1>3, <1>4, <1>5, <1>6 DEF Next, Loop, Environment

\* Nothing is delivered beyond a marker that is still to be handled.
LEMMA NotBeyond ==
    ASSUME WellMarked, IInv, LaneInv, NEW m \in Messages, Delivers(m), NEW k \in Messages,
           k.lane = m.lane, stream[k] # "acked"
    PROVE  Content(m).session <= Content(k).session
  <1>1. ~Delivered(k)
    BY MessageType DEF LaneInv, OutInHand, Delivers, Delivered
  <1>2. ~(k.seq < m.seq)
    BY <1>1, DeliversFirst DEF IInv, LaneInv
  <1>3. m.seq < k.seq \/ m = k
    BY <1>2, SameMessage
  <1>4. Content(m).session \in Nat
    BY MessageType DEF Marked, Sessions
  <1> QED
    BY <1>3, <1>4 DEF WellMarked

\* A delivery of the lane's next message.
LEMMA DeliversOne ==
    ASSUME IInv, LaneInv, NEW m \in Messages, Delivers(m)
    PROVE  /\ hand' = m /\ ~Delivered(m)
           /\ \A n \in Messages : /\ Delivered(n)' <=> Delivered(n) \/ n = m
                                  /\ stream'[n] = "acked" => stream[n] = "acked" /\ n # m
  <1>1. stream \in [Messages -> {"none", "new", "out", "again", "acked"}]
    BY DEF IInv, TypeOK
  <1>2. stream[m] = "new"
    BY DeliversFirst DEF IInv, LaneInv
  <1> QED
    BY <1>1, <1>2 DEF Delivers, Delivered

LEMMA AheadDetect ==
    ASSUME WellMarked, IInv, LaneInv, Calm, AheadInv, NEW m \in Messages, Delivers(m), Detect(m)
    PROVE  AheadInv'
  <1>a. /\ m.lane = "backfill" /\ session' = Content(m).session /\ phase' = "connect"
        /\ skipped' = skipped /\ hand' = m /\ ~Delivered(m) /\ Content(m).session \in Nat
        /\ \A n \in Messages : /\ Delivered(n)' <=> Delivered(n) \/ n = m
                               /\ stream'[n] = "acked" => stream[n] = "acked" /\ n # m
    BY DeliversOne, MessageType DEF Detect, NewSession, Marked, Sessions
  <1>1. NotNewer' /\ LaterAhead' /\ SkippedWereStale'
    BY <1>a DEF NotNewer, LaterAhead, AheadInv, SkippedWereStale, Content
  <1>2. LiveBehind'
    BY <1>a DEF AheadInv, LiveBehind, Content
  <1>3. ASSUME NEW l \in Lanes PROVE Ahead(l)'
    <2>1. PICK k \in Messages : k.lane = l /\ Content(k).eos /\ Content(k).session = Content(m).session
      BY <1>a DEF WellMarked
    <2>2. stream'[k] # "acked"
      <3> SUFFICES ASSUME stream[k] = "acked", k # m PROVE FALSE
        BY <1>a
      <3>1. Delivered(k)
        BY DEF Delivered
      <3>2. CASE l = "live"
        BY <1>a, <2>1, <3>1, <3>2 DEF AheadInv, LiveBehind
      <3>3. CASE l = "backfill"
        <4>1. m.seq <= k.seq
          BY <1>a, <2>1, <3>3 DEF WellMarked
        <4>2. m.seq < k.seq
          BY <1>a, <2>1, <3>3, <4>1, SameMessage
        <4> QED
          BY <1>a, <2>1, <3>1, <3>3, <4>2 DEF LaneInv, InOrder
      <3> QED
        BY <3>2, <3>3 DEF Lanes
    <2> QED
      BY <1>a, <2>1, <2>2 DEF Ahead, Content
  <1> QED
    BY <1>1, <1>2, <1>3 DEF AheadInv, MarkersAhead, Lanes

LEMMA AheadFetch ==
    ASSUME WellMarked, IInv, LaneInv, Calm, AheadInv, NEW m \in Messages, Delivers(m),
           FetchNext(m) \/ AwaitLive(m)
    PROVE  AheadInv'
  <1>a. /\ session' = session /\ skipped' = skipped /\ hand' = m /\ ~Delivered(m)
        /\ \A n \in Messages : /\ Delivered(n)' <=> Delivered(n) \/ n = m
                               /\ stream'[n] = "acked" => stream[n] = "acked" /\ n # m
    BY DeliversOne DEF FetchNext, AwaitLive
  <1>b. \/ m.lane = "backfill" /\ phase = "backfill" /\ phase' = "backfill"
        \/ m.lane = "live" /\ phase \in {"await", "live"} /\ phase' = "live"
    BY DEF FetchNext, AwaitLive, Lanes
  <1>1. Ahead(m.lane) /\ Ahead("live")
    BY <1>b DEF AheadInv, MarkersAhead
  <1>2. Content(m).session <= session
    <2>1. PICK k \in Messages : k.lane = m.lane /\ Content(k).session = session /\ stream[k] # "acked"
      BY <1>1 DEF Ahead
    <2> QED
      BY <2>1, NotBeyond
  <1>3. NotNewer'
    BY <1>a, <1>2 DEF NotNewer, Content
  <1>4. MarkersAhead'
    <2>1. \A l \in Lanes : Ahead(l) => Ahead(l)'
      BY <1>a DEF Ahead, Content
    <2> QED
      BY <1>b, <1>1, <2>1 DEF MarkersAhead, Lanes
  <1>5. LaterAhead'
    BY <1>a, <1>b DEF AheadInv, LaterAhead, Content
  <1>6. LiveBehind'
    <2> SUFFICES ASSUME NEW p \in Messages, NEW n \in Messages, n.lane = "live", Delivered(n)',
                        p.lane = "backfill", ~Delivered(p)'
                 PROVE  Content(n).session < Content(p).session
      BY DEF LiveBehind, Content
    <2>1. ~Delivered(p)
      BY <1>a
    <2>2. CASE Delivered(n)
      BY <2>1, <2>2 DEF AheadInv, LiveBehind
    <2>3. CASE n = m
      <3>1. phase \in {"await", "live"}
        BY <1>b, <2>3
      <3>2. session < Content(p).session
        BY <2>1, <3>1 DEF AheadInv, LaterAhead
      <3>3. Content(m).session \in Nat /\ Content(p).session \in Nat /\ session \in Nat
        BY MessageType DEF Marked, Sessions, IInv, TypeOK
      <3> QED
        BY <1>2, <2>3, <3>2, <3>3
    <2> QED
      BY <1>a, <2>2, <2>3
  <1>7. SkippedWereStale'
    BY <1>a DEF AheadInv, SkippedWereStale, Content
  <1> QED
    BY <1>3, <1>4, <1>5, <1>6, <1>7 DEF AheadInv

\* The message in hand is done with: a stale one is skipped, a marker ends its lane, audio was sent.
LEMMA AheadAcks ==
    ASSUME WellMarked, IInv, LaneInv, Calm, NoFault, SentAudio, AheadInv, Skip \/ EndOfStream \/ AckSent
    PROVE  AheadInv'
  <1>a. /\ SentInPhase /\ HandOfPhase
        /\ stream \in [Messages -> {"none", "new", "out", "again", "acked"}]
        /\ hand \in Messages \cup {NoMessage} /\ session \in Nat
        /\ \A kind \in {"call", "send", "slow", "drop", "crash"} : ~Fault(kind)
    BY DEF IInv, ControlInv, TypeOK, NoFault, FaultKinds, Sessions
  <1>b. hand \in Messages /\ phase \in Lanes /\ Content(hand).session <= session
    BY <1>a DEF Skip, EndOfStream, AckSent, InHand, SentInPhase, AheadInv, NotNewer
  <1>c. hand' = NoMessage /\ session' = session /\ stream' = [stream EXCEPT ![hand] = "acked"]
    BY <1>a DEF Skip, EndOfStream, AckSent, Ack
  <1>d. stream[hand] = "out"
    BY <1>b DEF LaneInv, OutInHand
  <1>e. \A n \in Messages : /\ Delivered(n)' <=> Delivered(n)
                            /\ n # hand => stream'[n] = stream[n]
    BY <1>a, <1>b, <1>c, <1>d DEF Delivered
  <1>1. NotNewer' /\ LiveBehind'
    BY <1>c, <1>e DEF NotNewer, AheadInv, LiveBehind, Content
  <1>2. SkippedWereStale'
    <2>1. CASE Skip
      <3>1. Content(hand).session < session
        BY <1>a, <1>b, <2>1, MessageType DEF Skip, OfOther, Marked, Sessions
      <3> QED
        BY <2>1, <3>1 DEF Skip, AheadInv, SkippedWereStale, Content
    <2>2. CASE EndOfStream \/ AckSent
      BY <2>2 DEF EndOfStream, AckSent, AheadInv, SkippedWereStale, Content
    <2> QED
      BY <2>1, <2>2
  \* A marker of the session that is not the one in hand stays ahead.
  <1>3. ASSUME NEW l \in Lanes, Ahead(l), Content(hand).eos => Content(hand).session # session \/ hand.lane # l
        PROVE  Ahead(l)'
    BY <1>3, <1>c, <1>e DEF Ahead, Content
  <1>4. CASE Skip \/ AckSent
    <2>1. phase' = phase /\ (Content(hand).eos => Content(hand).session # session)
      BY <1>4, <1>a DEF Skip, OfOther, AckSent, SentAudio
    <2>2. MarkersAhead'
      BY <1>3, <2>1 DEF AheadInv, MarkersAhead, Lanes
    <2>3. LaterAhead'
      BY <1>c, <1>e, <2>1 DEF AheadInv, LaterAhead, Content
    <2> QED
      BY <1>1, <1>2, <2>2, <2>3 DEF AheadInv
  <1>5. CASE EndOfStream
    <2>1. CASE phase' = "close"
      BY <1>1, <1>2, <2>1 DEF AheadInv, MarkersAhead, LaterAhead
    <2>2. CASE phase = "backfill" /\ phase' = "flush"
      <3>1. hand.lane = "backfill" /\ Content(hand).eos /\ Content(hand).session = session
        <4>1. hand.lane \in Lanes /\ hand.lane # "live"
          BY <1>a, <1>b, <2>2 DEF HandOfPhase, Messages, Lanes
        <4> QED
          BY <1>5, <4>1 DEF EndOfStream, OfOther, Lanes
      <3>2. MarkersAhead'
        BY <1>3, <2>2, <3>1 DEF AheadInv, MarkersAhead, Lanes
      <3>3. LaterAhead'
        <4> SUFFICES ASSUME NEW m \in Messages, m.lane = "backfill", ~Delivered(m)
                     PROVE  session < Content(m).session
          BY <1>c, <1>e DEF LaterAhead, Content
        <4>1. Delivered(hand) /\ m # hand
          BY <1>d DEF Delivered
        <4>2. ~(m.seq < hand.seq)
          BY <1>b, <3>1, <4>1 DEF LaneInv, InOrder
        <4>3. hand.seq < m.seq
          BY <1>b, <3>1, <4>1, <4>2, SameMessage
        <4>4. Content(hand).session <= Content(m).session /\ Content(hand).session # Content(m).session
          <5>1. ~(m.seq <= hand.seq)
            BY <1>b, <3>1, <4>3, SameMessage
          <5> QED
            BY <1>b, <3>1, <4>3, <5>1 DEF WellMarked
        <4>5. Content(m).session \in Nat
          BY MessageType DEF Marked, Sessions
        <4> QED
          BY <1>a, <3>1, <4>4, <4>5
      <3> QED
        BY <1>1, <1>2, <3>2, <3>3 DEF AheadInv
    <2> QED
      BY <1>b, <1>5, <2>1, <2>2 DEF EndOfStream, AfterEos
  <1> QED
    BY <1>4, <1>5

\* No other step handles a message.
LEMMA AheadRests ==
    ASSUME IInv, Calm, AheadInv,
           \/ Connect \/ Leave \/ Send \/ Flush \/ Close \/ Drain \/ IdleClose \/ Boot \/ UNCHANGED vars
           \/ \E m \in Messages : Publish(m)
    PROVE  AheadInv'
  <1> USE DEF memory, deepgram
  <1>1. UNCHANGED <<hand, session, skipped>>
    BY DEF Connect, Leave, Send, Flush, Close, Drain, Transcribe, DrainEnds, IdleClose, Boot, Publish, vars
  <1>2. \A n \in Messages : /\ Delivered(n)' <=> Delivered(n)
                            /\ stream'[n] = "acked" => stream[n] = "acked"
    <2>1. CASE stream' = stream
      BY <2>1 DEF Delivered
    <2>2. ASSUME NEW m \in Messages, Publish(m)
          PROVE  \A n \in Messages : /\ Delivered(n)' <=> Delivered(n)
                                     /\ stream'[n] = "acked" => stream[n] = "acked"
      BY <2>2 DEF Publish, Delivered, IInv, TypeOK
    <2> QED
      BY <2>1, <2>2 DEF Connect, Leave, Send, Flush, Close, Drain, Transcribe, DrainEnds, IdleClose, Boot, vars
  <1>3. \/ phase' = phase
        \/ phase = "connect" /\ phase' = "backfill"
        \/ phase = "flush" /\ phase' = "await"
        \/ phase' \in {"close", "idle"}
    BY DEF Connect, Leave, Send, Flush, Close, Drain, Transcribe, DrainEnds, IdleClose, Boot, Publish, vars
  <1>4. \A l \in Lanes : Ahead(l) => Ahead(l)'
    BY <1>1, <1>2 DEF Ahead, Content
  <1>5. MarkersAhead'
    BY <1>3, <1>4 DEF AheadInv, MarkersAhead, Lanes
  <1>6. LaterAhead' /\ LiveBehind'
    BY <1>1, <1>2, <1>3 DEF AheadInv, LaterAhead, LiveBehind, Content
  <1>7. NotNewer' /\ SkippedWereStale'
    BY <1>1 DEF AheadInv, NotNewer, SkippedWereStale, Content
  <1> QED
    BY <1>5, <1>6, <1>7 DEF AheadInv

LEMMA StaleStep == ASSUME WellMarked PROVE IInv /\ OrderInv /\ StaleInv /\ [Next]_vars => StaleInv'
  <1> SUFFICES ASSUME IInv, OrderInv, StaleInv, [Next]_vars PROVE StaleInv'
    OBVIOUS
  <1>1. SentAudio'
    BY SentAudioStep DEF StaleInv
  <1>2. ASSUME Calm' PROVE AheadInv'
    <2>1. NoFault /\ Calm /\ HandIdle /\ CalmInv /\ LaneInv /\ SentAudio /\ AheadInv
      BY <1>2, CalmStep DEF IInv, OrderInv, CalmInv, StaleInv, NoFault
    <2>2. ASSUME NEW m \in Messages, Detect(m) \/ FetchNext(m) \/ AwaitLive(m) PROVE AheadInv'
      BY <2>1, <2>2, FetchDelivers, AheadDetect, AheadFetch
    <2>3. CASE Skip \/ EndOfStream \/ AckSent
      BY <2>1, <2>3, AheadAcks
    <2>4. CASE \/ Connect \/ Leave \/ Send \/ Flush \/ Close \/ Drain \/ IdleClose \/ Boot \/ UNCHANGED vars
               \/ \E m \in Messages : Publish(m)
      BY <2>1, <2>4, AheadRests
    <2>5. ~SendFails
      <3>1. SendFails => hand \in Messages /\ stream[hand] = "acked" /\ stream[hand] = "out"
        BY <2>1 DEF SendFails, InHand, OfOther, CalmInv, ClosedDone, LaneInv, OutInHand, NoFault, FaultKinds,
                    IInv, TypeOK
      <3> QED
        BY <3>1
    <2>6. \A m \in Messages : ~Redeliver(m)
      BY <2>1 DEF Redeliver, LaneInv, OutInHand, NoFault, FaultKinds
    <2>7. ~Drop /\ ~Crash
      BY <2>1 DEF Drop, Crash, NoFault, FaultKinds
    <2> QED
      BY <2>2, <2>3, <2>4, <2>5, <2>6, <2>7 DEF Next, Loop, Environment
  <1> QED
    BY <1>1, <1>2 DEF StaleInv

\* When nothing goes wrong a message is acknowledged without being transcribed only when it is of an
\* earlier session than the one transcribed: the wait for live audio, which takes a message of any session,
\* never meets one of a later session before the marker of its own.
THEOREM SkippedAreStale == ASSUME WellMarked PROVE Spec => []SkippedWereStale
  <1>1. StaleInv => SkippedWereStale
    BY DEF StaleInv, AheadInv, SkippedWereStale
  <1>2. IInv /\ OrderInv /\ StaleInv /\ [Next]_vars => StaleInv'
    BY StaleStep
  <1> QED
    BY <1>1, <1>2, InitStale, InitOrder, OrderStep, Invariant, PTL DEF Spec
=============================================================================
