----------------------- MODULE GatewayTranscripts_proofs -----------------------
(***************************************************************************)
(* Proofs about GatewayTranscripts, for any clients, texts, limit and      *)
(* faults: under which session a text is stored and how often, what a      *)
(* client is spared of missing, and how many clients are connected.        *)
(***************************************************************************)
EXTENDS GatewayTranscripts, FiniteSetTheorems, TLAPS

(* The limit on clients.                                                     *)

ConnectionsOK == IsFiniteSet(connections) /\ DOMAIN at = Clients /\ overlap \in BOOLEAN

\* If clients were let in one at a time, the one being accepted still has its place.
PlaceKept ==
    ~overlap =>
        /\ Cardinality(connections) <= MAX_WS_CONNECTIONS
        /\ \A c, d \in Clients : at[c] = "accept" /\ at[d] = "accept" => c = d
        /\ \A c \in Clients : at[c] = "accept" => Cardinality(connections) < MAX_WS_CONNECTIONS

LimitInv == ConnectionsOK /\ PlaceKept

\* Nobody new is accepted, and nobody joins.
Fewer ==
    /\ connections' \subseteq connections /\ DOMAIN at' = Clients /\ UNCHANGED overlap
    /\ \A c \in Clients : at'[c] = "accept" => at[c] = "accept"

LEMMA FewerKeeps == LimitInv /\ Fewer => LimitInv'
<1> SUFFICES ASSUME LimitInv, Fewer PROVE LimitInv'
  OBVIOUS
<1>1. IsFiniteSet(connections') /\ Cardinality(connections') <= Cardinality(connections)
      /\ Cardinality(connections) \in Nat /\ Cardinality(connections') \in Nat
  BY FS_Subset, FS_CardinalityType DEF LimitInv, ConnectionsOK, Fewer
<1>2. MAX_WS_CONNECTIONS \in Nat
  BY LimitsAssumption
<1>3. QED
  BY <1>1, <1>2 DEF LimitInv, ConnectionsOK, PlaceKept, Fewer

LEMMA ConnectKeeps == \A c \in Clients : LimitInv /\ Connect(c) => LimitInv'
<1> SUFFICES ASSUME NEW c \in Clients, LimitInv, Connect(c) PROVE LimitInv'
  OBVIOUS
<1>1. CASE Full /\ at' = [at EXCEPT ![c] = "closed"] /\ UNCHANGED overlap
  BY <1>1, FewerKeeps DEF Connect, Fewer, LimitInv, ConnectionsOK
<1>2. CASE /\ ~Full /\ at' = [at EXCEPT ![c] = "accept"]
           /\ overlap' = (overlap \/ \E d \in Clients : at[d] = "accept")
  <2>1. UNCHANGED connections /\ Cardinality(connections) \in Nat /\ MAX_WS_CONNECTIONS \in Nat
    BY FS_CardinalityType, LimitsAssumption DEF Connect, LimitInv, ConnectionsOK
  <2>2. Cardinality(connections) < MAX_WS_CONNECTIONS
    BY <1>2, <2>1 DEF Full
  <2>3. ConnectionsOK'
    BY <1>2, <2>1 DEF LimitInv, ConnectionsOK
  <2>4. ASSUME ~overlap' PROVE \A d \in Clients : at'[d] = "accept" => d = c
    BY <1>2, <2>4 DEF LimitInv, ConnectionsOK
  <2>5. QED
    BY <2>1, <2>2, <2>3, <2>4 DEF LimitInv, PlaceKept
<1>3. QED
  BY <1>1, <1>2 DEF Connect

LEMMA AcceptedKeeps == \A c \in Clients : LimitInv /\ Accepted(c) => LimitInv'
<1> SUFFICES ASSUME NEW c \in Clients, LimitInv, Accepted(c) PROVE LimitInv'
  OBVIOUS
<1>1. /\ at[c] = "accept" /\ connections' = connections \cup {c} /\ UNCHANGED overlap
      /\ DOMAIN at' = Clients /\ at'[c] # "accept" /\ \A d \in Clients \ {c} : at'[d] = at[d]
  BY DEF Accepted, LimitInv, ConnectionsOK
<1>2. IsFiniteSet(connections') /\ Cardinality(connections) \in Nat
      /\ Cardinality(connections') \in Nat /\ Cardinality(connections') <= Cardinality(connections) + 1
  <2>1. IsFiniteSet(connections) /\ Cardinality(connections) \in Nat
    BY FS_CardinalityType DEF LimitInv, ConnectionsOK
  <2>2. /\ IsFiniteSet(connections \cup {c})
        /\ \/ Cardinality(connections \cup {c}) = Cardinality(connections)
           \/ Cardinality(connections \cup {c}) = Cardinality(connections) + 1
    BY <2>1, FS_AddElement
  <2>3. QED
    BY <1>1, <2>1, <2>2
<1>3. ConnectionsOK'
  BY <1>1, <1>2, Zenon DEF LimitInv, ConnectionsOK
<1>4. PlaceKept'
  <2> SUFFICES ASSUME ~overlap
               PROVE  /\ Cardinality(connections') <= MAX_WS_CONNECTIONS
                      /\ \A d \in Clients : at'[d] # "accept"
    BY <1>1 DEF PlaceKept
  <2>1. Cardinality(connections) < MAX_WS_CONNECTIONS
    BY <1>1 DEF LimitInv, PlaceKept
  <2>2. \A d \in Clients : at'[d] # "accept"
    BY <1>1 DEF LimitInv, PlaceKept
  <2>3. QED
    BY <1>2, <2>1, <2>2, LimitsAssumption
<1>5. QED
  BY <1>3, <1>4 DEF LimitInv

\* Unless two clients pass the check at once, no more than MAX_WS_CONNECTIONS are
\* connected.
THEOREM LimitHolds == Spec => []LimitKept
<1>1. Init => LimitInv
  <2> SUFFICES ASSUME Init PROVE LimitInv
    OBVIOUS
  <2>1. IsFiniteSet(connections) /\ Cardinality(connections) = 0
    BY FS_EmptySet DEF Init
  <2>2. ConnectionsOK
    BY <2>1 DEF Init, ConnectionsOK
  <2>3. \A c \in Clients : at[c] # "accept"
    BY DEF Init
  <2>4. 0 <= MAX_WS_CONNECTIONS
    BY LimitsAssumption
  <2>5. QED
    BY <2>1, <2>2, <2>3, <2>4 DEF LimitInv, PlaceKept
<1>2. LimitInv /\ [Next]_vars => LimitInv'
  <2> SUFFICES ASSUME LimitInv, [Next]_vars PROVE LimitInv'
    OBVIOUS
  <2>1. DOMAIN at = Clients
    BY DEF LimitInv, ConnectionsOK
  <2>3. ASSUME SessionChange \/ PullLoop \/ SlowBroadcast \/ (\E t \in Ids : Speak(t))
               \/ UNCHANGED vars
        PROVE  Fewer
    BY <2>1, <2>3 DEF SessionChange, PullLoop, SlowBroadcast, Speak, Fetch, SendTo,
                      Broadcasted, Stored, client, vars, Fewer
  <2>5. ASSUME NEW c \in Clients, Greeted(c) \/ Query(c) \/ Replay(c) \/ Disconnect(c) \/ Leave(c)
        PROVE  Fewer
    BY <2>1, <2>5 DEF Greeted, Query, Replay, Disconnect, Leave, Close, Fewer
  <2>6. CASE Crash
    <3>1. Fewer
      BY <2>1, <2>6 DEF Crash, Close, Fewer
    <3>2. QED
      BY <3>1, FewerKeeps
  <2>7. QED
    BY <2>3, <2>5, <2>6, FewerKeeps, ConnectKeeps, AcceptedKeeps DEF Next, Endpoint
<1>3. LimitInv => LimitKept
  BY DEF LimitInv, PlaceKept, LimitKept
<1>4. QED
  BY <1>1, <1>2, <1>3, PTL DEF Spec
-----------------------------------------------------------------------------
(* Types.                                                                    *)

RawStates == {"none", "new", "out", "again", "acked"}
Places    == {"away", "accept", "greet", "query", "replay", "live", "closed"}
Segments  == [t : Ids, s : Sessions]

SessionType == active \in Sessions \cup {NoSession}
SinceType   == since \in [Ids -> SUBSET (Sessions \cup {NoSession})]
RawType     == raw \in [Ids -> RawStates]
PullType    == pull \in [at : {"idle", "send", "store"}, t : Ids \cup {NoText},
                         to : SUBSET Clients, s : Sessions \cup {NoSession}]
\* What is delivered is in hand.
HandType    == /\ pull.at # "idle" => pull.t \in Ids /\ raw[pull.t] \in {"out", "again"}
               /\ \A t \in Ids : raw[t] = "out" => pull.at # "idle" /\ pull.t = t
               /\ pull.at = "store" <=> pull.s \in Sessions
StoreType   == segments \in Seq(Segments) /\ replay \in [Clients -> SUBSET DOMAIN segments]
ClientType  == /\ at \in [Clients -> Places] /\ gone \subseteq Clients
               /\ connections \subseteq Clients
               /\ want \in [Clients -> Sessions \cup {NoSession}]
               /\ seen \in [Clients -> SUBSET Ids] /\ hidden \in [Clients -> Ids \cup {NoText}]
CountType   == faults \in 0 .. MaxFaults /\ overlap \in BOOLEAN

TypeInv == /\ SessionType /\ SinceType /\ RawType /\ PullType /\ HandType
           /\ StoreType /\ ClientType /\ CountType

LEMMA TypeInvTypeOK == TypeInv => TypeOK
<1> SUFFICES ASSUME TypeInv PROVE TypeOK
  OBVIOUS
<1>1. /\ pull.at \in {"idle", "send", "store"} /\ pull.to \subseteq Clients
      /\ overlap \in BOOLEAN
  BY DEF TypeInv, PullType, CountType
<1>2. QED
  BY <1>1, Zenon DEF TypeInv, SessionType, SinceType, RawType, HandType, StoreType, ClientType,
     CountType, RawStates, Places, Segments, TypeOK

LEMMA NumberedApart == NoText \notin Ids /\ NoSession \notin Sessions /\ DOMAIN Texts = Ids
<1>1. Ids = 1 .. Len(Texts)
  BY LimitsAssumption DEF Ids
<1>2. QED
  BY <1>1, LimitsAssumption DEF NoText, NoSession, Sessions, Ids

\* What an ack does, or its loss.
LEMMA AckResult ==
    ASSUME RawType, CountType, SinceType, NEW t \in Ids, Ack(t)
    PROVE  /\ RawType' /\ SinceType' /\ faults' \in 0 .. MaxFaults
           /\ \A u \in Ids : u # t => raw'[u] = raw[u]
           /\ \/ raw'[t] = "acked" /\ faults' = faults
              \/ raw'[t] = "again" /\ faults' = faults + 1
<1>1. CASE Acked(t) /\ UNCHANGED faults
  BY <1>1 DEF Acked, RawType, RawStates, SinceType, CountType
<1>2. CASE raw' = [raw EXCEPT ![t] = "again"] /\ Fault /\ UNCHANGED since
  BY <1>2, LimitsAssumption DEF RawType, RawStates, SinceType, CountType, Fault
<1>3. QED
  BY <1>1, <1>2 DEF Ack

\* A segment is committed after the others.
LEMMA CommitResult ==
    ASSUME StoreType, NEW e \in Segments, segments' = Append(segments, e)
    PROVE  /\ segments' \in Seq(Segments) /\ DOMAIN segments = 1 .. Len(segments)
           /\ Len(segments) \in Nat
           /\ DOMAIN segments' = DOMAIN segments \cup {Len(segments) + 1}
           /\ \A i \in DOMAIN segments : segments'[i] = segments[i]
           /\ segments'[Len(segments) + 1] = e
           /\ Len(segments) + 1 \notin DOMAIN segments
<1> HIDE DEF Segments
<1>1. /\ segments' \in Seq(Segments) /\ DOMAIN segments = 1 .. Len(segments)
      /\ Len(segments) \in Nat /\ Len(segments') = Len(segments) + 1
      /\ DOMAIN segments' = 1 .. Len(segments')
      /\ \A i \in 1 .. Len(segments) : segments'[i] = segments[i]
      /\ segments'[Len(segments) + 1] = e
  BY DEF StoreType
<1>2. 1 .. Len(segments) + 1 = (1 .. Len(segments)) \cup {Len(segments) + 1}
  BY <1>1
<1>3. QED
  BY <1>1, <1>2

\* Steps that leave the texts in hand alone, and those that leave the clients alone.
LEMMA HandStays ==
    ASSUME TypeInv, UNCHANGED <<active, raw, pull, since>>
    PROVE  SessionType' /\ SinceType' /\ RawType' /\ PullType' /\ HandType'
  BY Zenon DEF TypeInv, SessionType, SinceType, RawType, PullType, HandType

LEMMA StoreStays ==
    ASSUME TypeInv, UNCHANGED <<segments, replay>> PROVE StoreType'
  BY Zenon DEF TypeInv, StoreType

LEMMA ClientsStay ==
    ASSUME TypeInv, UNCHANGED <<at, gone, connections, want, seen, hidden>> PROVE ClientType'
  BY Zenon DEF TypeInv, ClientType

LEMMA BecomesTypes ==
    ASSUME TypeInv, NEW s \in Sessions \cup {NoSession}, Becomes(s)
    PROVE  SessionType' /\ SinceType'
<1>1. SessionType'
  BY DEF Becomes, SessionType
<1>2. SinceType'
  BY DEF Becomes, TypeInv, SinceType
<1>3. QED
  BY <1>1, <1>2

LEMMA SessionTypes == ASSUME TypeInv, SessionChange PROVE TypeInv'
<1>1. UNCHANGED <<raw, pull, segments, client, faults>>
  BY DEF SessionChange
<1>2. SessionType' /\ SinceType'
  BY BecomesTypes DEF SessionChange
<1>3. RawType' /\ PullType' /\ HandType' /\ CountType'
  BY <1>1, Zenon DEF TypeInv, RawType, PullType, HandType, CountType, client
<1>4. QED
  BY <1>1, <1>2, <1>3, StoreStays, ClientsStay DEF TypeInv, client

LEMMA SpeakTypes == ASSUME TypeInv, NEW t \in Ids, Speak(t) PROVE TypeInv'
<1>1. /\ raw[t] = "none" /\ raw' = [raw EXCEPT ![t] = "new"]
      /\ since' = [since EXCEPT ![t] = {active}]
      /\ UNCHANGED <<active, pull, segments, client, faults>>
  BY DEF Speak
<1>2. SessionType' /\ RawType' /\ SinceType'
  BY <1>1 DEF TypeInv, SessionType, SinceType, RawType, RawStates
<1>3. PullType' /\ HandType'
  BY <1>1 DEF TypeInv, PullType, HandType, RawType
<1>4. CountType'
  BY <1>1, Zenon DEF TypeInv, CountType, client
<1>5. QED
  BY <1>1, <1>2, <1>3, <1>4, StoreStays, ClientsStay DEF TypeInv, client

LEMMA FetchTypes ==
    ASSUME TypeInv, NEW t \in Ids, Fetch(t)
    PROVE  TypeInv' /\ pull'.at = "send" /\ pull'.t = t /\ pull'.to = connections
<1>1. /\ pull.at = "idle" /\ raw' = [raw EXCEPT ![t] = "out"]
      /\ pull' = [at |-> "send", t |-> t, to |-> connections, s |-> NoSession]
      /\ UNCHANGED <<active, segments, client, faults, since>>
  BY DEF Fetch
<1>2. SessionType' /\ SinceType' /\ RawType' /\ CountType'
  BY <1>1, Zenon DEF TypeInv, SessionType, SinceType, CountType, client, RawType, RawStates
<1>3. PullType' /\ pull'.at = "send" /\ pull'.t = t /\ pull'.to = connections
  BY <1>1 DEF PullType, TypeInv, ClientType
<1>4. HandType'
  BY <1>1, NumberedApart DEF TypeInv, HandType, RawType
<1>5. QED
  BY <1>1, <1>2, <1>3, <1>4, StoreStays, ClientsStay DEF TypeInv, client

LEMMA SendTypes ==
    ASSUME TypeInv, NEW c \in Clients, SendTo(c)
    PROVE  TypeInv' /\ pull'.at = "send" /\ pull'.t = pull.t /\ pull'.to = pull.to \ {c}
<1>1. /\ pull.at = "send" /\ pull' = [pull EXCEPT !.to = @ \ {c}]
      /\ UNCHANGED <<active, raw, segments, at, gone, want, replay, overlap, hidden,
                     faults, since>>
      /\ \/ connections' = connections \ {c} /\ UNCHANGED seen
         \/ seen' = [seen EXCEPT ![c] = @ \cup {pull.t}] /\ UNCHANGED connections
  BY DEF SendTo
<1>2. /\ PullType' /\ pull'.at = "send" /\ pull'.t = pull.t /\ pull'.to = pull.to \ {c}
      /\ pull'.s = pull.s
  BY <1>1 DEF TypeInv, PullType
<1>3. HandType'
  BY <1>1, <1>2 DEF TypeInv, HandType
<1>4. SessionType' /\ SinceType' /\ RawType' /\ CountType'
  BY <1>1, Zenon DEF TypeInv, SessionType, SinceType, RawType, CountType
<1>5. ClientType'
  BY <1>1 DEF TypeInv, ClientType, HandType
<1>6. QED
  BY <1>1, <1>2, <1>3, <1>4, <1>5, StoreStays DEF TypeInv

\* The hand is empty, and the text that was in it is acknowledged or comes again.
LEMMA EmptyHand ==
    ASSUME TypeInv, pull.at # "idle", pull' = NoPull,
           raw' \in [Ids -> RawStates], raw'[pull.t] \in {"acked", "again"},
           \A u \in Ids : u # pull.t => raw'[u] = raw[u]
    PROVE  PullType' /\ HandType' /\ RawType'
<1>1. PullType'
  BY DEF PullType, NoPull
<1>2. pull'.at = "idle" /\ pull'.s = NoSession
  BY DEF NoPull
<1>3. \A t \in Ids : raw'[t] # "out"
  BY DEF TypeInv, HandType
<1>4. QED
  BY <1>1, <1>2, <1>3, NumberedApart DEF HandType, RawType

LEMMA BroadcastedTypes ==
    ASSUME TypeInv, Broadcasted
    PROVE  /\ TypeInv' /\ pull.at = "send" /\ pull.to = {} /\ pull.t \in Ids
           /\ \/ /\ pull'.at = "store" /\ pull'.t = pull.t /\ UNCHANGED <<raw, faults, since>>
                 /\ Texts[pull.t] /\ pull'.s = active
              \/ /\ pull'.at = "idle" /\ Ack(pull.t)
                 /\ ~Texts[pull.t] \/ active = NoSession
<1>1. /\ pull.at = "send" /\ pull.to = {} /\ pull.t \in Ids
      /\ UNCHANGED <<active, segments, client>>
  BY DEF Broadcasted, TypeInv, HandType
<1>2. CASE /\ StoreUnder(pull.t) # NoSession
           /\ pull' = [pull EXCEPT !.at = "store", !.s = StoreUnder(pull.t)]
           /\ UNCHANGED <<raw, faults, since>>
  <2>1. StoreUnder(pull.t) = active /\ active \in Sessions /\ Texts[pull.t]
    BY <1>2 DEF StoreUnder, TypeInv, SessionType
  <2>2. /\ PullType' /\ pull'.at = "store" /\ pull'.t = pull.t /\ pull'.s \in Sessions
        /\ pull'.s = active
    BY <1>2, <2>1 DEF TypeInv, PullType
  <2>3. HandType'
    BY <1>1, <1>2, <2>2 DEF TypeInv, HandType
  <2>4. SessionType' /\ SinceType' /\ RawType' /\ CountType'
    BY <1>1, <1>2, Zenon DEF TypeInv, SessionType, SinceType, RawType, CountType, client
  <2>5. QED
    BY <1>1, <1>2, <2>1, <2>2, <2>3, <2>4, StoreStays, ClientsStay DEF TypeInv, client
<1>3. CASE StoreUnder(pull.t) = NoSession /\ pull' = NoPull /\ Ack(pull.t)
  <2>0. ~Texts[pull.t] \/ active = NoSession
    BY <1>3 DEF StoreUnder
  <2>1. /\ RawType' /\ SinceType' /\ faults' \in 0 .. MaxFaults /\ raw'[pull.t] \in {"acked", "again"}
        /\ \A u \in Ids : u # pull.t => raw'[u] = raw[u]
    BY <1>1, <1>3, AckResult DEF TypeInv
  <2>2. PullType' /\ HandType' /\ pull'.at = "idle"
    BY <1>1, <1>3, <2>1, EmptyHand DEF RawType, NoPull
  <2>3. SessionType' /\ CountType'
    BY <1>1, <2>1, Zenon DEF TypeInv, SessionType, CountType, client
  <2>4. QED
    BY <1>1, <1>3, <2>0, <2>1, <2>2, <2>3, StoreStays, ClientsStay DEF TypeInv, client
<1>4. QED
  BY <1>2, <1>3 DEF Broadcasted

\* The text in hand is committed and acknowledged, or the statement failed.
LEMMA StoredTypes ==
    ASSUME TypeInv, Stored
    PROVE  LET e == [t |-> pull.t, s |-> pull.s]
           IN  /\ TypeInv' /\ pull.at = "store" /\ pull.t \in Ids /\ pull' = NoPull
               /\ pull.s \in Sessions /\ e \in Segments
               /\ UNCHANGED <<active, client>>
               /\ \/ segments' = Append(segments, e) /\ Ack(pull.t)
                  \/ UNCHANGED segments /\ Acked(pull.t) /\ faults' = faults + 1
<1> DEFINE e == [t |-> pull.t, s |-> pull.s]
<1>1. /\ pull.at = "store" /\ pull.t \in Ids /\ pull' = NoPull /\ pull.s \in Sessions
      /\ UNCHANGED <<active, client>>
      /\ \/ segments' = Append(segments, e) /\ Ack(pull.t)
         \/ Fault /\ UNCHANGED segments /\ Acked(pull.t)
  BY DEF Stored, TypeInv, HandType
<1>2. e \in Segments
  BY <1>1 DEF Segments
<1> HIDE DEF e
<1>3. /\ RawType' /\ SinceType' /\ faults' \in 0 .. MaxFaults
      /\ raw'[pull.t] \in {"acked", "again"}
      /\ \A u \in Ids : u # pull.t => raw'[u] = raw[u]
  <2>1. CASE Ack(pull.t)
    BY <1>1, <2>1, AckResult DEF TypeInv
  <2>2. CASE Fault /\ Acked(pull.t)
    <3>1. faults' \in 0 .. MaxFaults
      BY <2>2, LimitsAssumption DEF TypeInv, CountType, Fault
    <3>2. RawType' /\ SinceType' /\ raw'[pull.t] = "acked"
          /\ \A u \in Ids : u # pull.t => raw'[u] = raw[u]
      BY <1>1, <2>2 DEF Acked, TypeInv, RawType, RawStates, SinceType
    <3>3. QED
      BY <3>1, <3>2
  <2>3. QED
    BY <1>1, <2>1, <2>2
<1>4. PullType' /\ HandType'
  BY <1>1, <1>3, EmptyHand DEF RawType
<1>5. SessionType' /\ CountType' /\ ClientType'
  BY <1>1, <1>3, Zenon DEF TypeInv, SessionType, CountType, ClientType, client
<1>6. StoreType'
  <2>1. CASE segments' = Append(segments, e)
    <3>1. segments' \in Seq(Segments) /\ DOMAIN segments \subseteq DOMAIN segments'
      BY <1>2, <2>1, CommitResult DEF TypeInv
    <3>2. replay' = replay /\ replay \in [Clients -> SUBSET DOMAIN segments]
      BY <1>1 DEF TypeInv, StoreType, client
    <3>3. replay \in [Clients -> SUBSET DOMAIN segments']
      <4>1. SUBSET DOMAIN segments \subseteq SUBSET DOMAIN segments'
        BY <3>1
      <4>2. QED
        BY <3>2, <4>1
    <3>4. QED
      BY <3>1, <3>2, <3>3 DEF StoreType
  <2>2. CASE UNCHANGED segments
    BY <1>1, <2>2, StoreStays DEF client
  <2>3. QED
    BY <1>1, <2>1, <2>2
<1>7. QED
  BY <1>1, <1>2, <1>3, <1>4, <1>5, <1>6 DEF TypeInv, Fault, e

LEMMA SlowTypes ==
    ASSUME TypeInv, SlowBroadcast
    PROVE  /\ TypeInv' /\ pull.t \in Ids /\ raw'[pull.t] = "again" /\ faults' = faults + 1
           /\ \A u \in Ids : u # pull.t => raw'[u] = raw[u]
<1>1. /\ pull.at # "idle" /\ raw[pull.t] = "out" /\ pull.t \in Ids
      /\ raw' = [raw EXCEPT ![pull.t] = "again"] /\ Fault
      /\ UNCHANGED <<active, pull, segments, client, since>>
  BY DEF SlowBroadcast, TypeInv, HandType
<1>2. /\ RawType' /\ raw'[pull.t] = "again" /\ \A u \in Ids : u # pull.t => raw'[u] = raw[u]
  BY <1>1 DEF TypeInv, RawType, RawStates
<1>3. PullType' /\ HandType'
  BY <1>1, <1>2 DEF TypeInv, PullType, HandType
<1>4. faults' \in 0 .. MaxFaults /\ faults' = faults + 1
  BY <1>1, LimitsAssumption DEF TypeInv, CountType, Fault
<1>5. SessionType' /\ SinceType' /\ CountType'
  BY <1>1, <1>4, Zenon DEF TypeInv, SessionType, SinceType, CountType, client
<1>6. QED
  BY <1>1, <1>2, <1>3, <1>4, <1>5, StoreStays, ClientsStay DEF TypeInv, client

\* What closing clients does to each of them.
LEMMA CloseResult ==
    ASSUME TypeInv, NEW cs \in SUBSET Clients, Close(cs)
    PROVE  /\ at' \in [Clients -> Places] /\ gone' \subseteq Clients
           /\ want' \in [Clients -> Sessions \cup {NoSession}]
           /\ seen' \in [Clients -> SUBSET Ids] /\ hidden' \in [Clients -> Ids \cup {NoText}]
           /\ replay' \in [Clients -> SUBSET DOMAIN segments]
           /\ \A c \in cs : at'[c] = "closed" /\ want'[c] = NoSession /\ replay'[c] = {}
           /\ \A c \in Clients \ cs :
                 /\ at'[c] = at[c] /\ want'[c] = want[c] /\ replay'[c] = replay[c]
                 /\ seen'[c] = seen[c] /\ hidden'[c] = hidden[c] /\ (c \in gone' <=> c \in gone)
<1>1. /\ at \in [Clients -> Places] /\ gone \subseteq Clients
      /\ want \in [Clients -> Sessions \cup {NoSession}]
      /\ seen \in [Clients -> SUBSET Ids] /\ hidden \in [Clients -> Ids \cup {NoText}]
      /\ replay \in [Clients -> SUBSET DOMAIN segments] /\ "closed" \in Places
  BY DEF TypeInv, ClientType, StoreType, Places
<1>2. /\ at' \in [Clients -> Places] /\ gone' \subseteq Clients
      /\ want' \in [Clients -> Sessions \cup {NoSession}]
  BY <1>1 DEF Close
<1>3. /\ seen' \in [Clients -> SUBSET Ids] /\ hidden' \in [Clients -> Ids \cup {NoText}]
      /\ replay' \in [Clients -> SUBSET DOMAIN segments]
  BY <1>1 DEF Close
<1>4. QED
  BY <1>2, <1>3 DEF Close

LEMMA CrashTypes == ASSUME TypeInv, Crash PROVE TypeInv'
<1> DEFINE cs == {c \in Clients : at[c] # "away"}
<1>1. /\ pull' = NoPull /\ Close(cs) /\ connections' = {} /\ cs \in SUBSET Clients
      /\ raw' = [t \in Ids |-> IF raw[t] = "out" THEN "again" ELSE raw[t]]
      /\ UNCHANGED <<segments, overlap>> /\ Fault /\ Becomes(NoSession)
  BY DEF Crash
<1> HIDE DEF cs
<1>2. faults' \in 0 .. MaxFaults
  BY <1>1, LimitsAssumption DEF TypeInv, CountType, Fault
<1>3. ClientType' /\ replay' \in [Clients -> SUBSET DOMAIN segments]
  BY <1>1, CloseResult DEF ClientType
<1>4. SessionType' /\ SinceType'
  BY <1>1, BecomesTypes
<1>9. CountType' /\ StoreType'
  BY <1>1, <1>2, <1>3, Zenon DEF TypeInv, CountType, StoreType
<1>5. RawType' /\ \A t \in Ids : raw'[t] # "out"
  BY <1>1 DEF TypeInv, RawType, RawStates
<1>6. PullType'
  BY <1>1 DEF PullType, NoPull
<1>7. HandType'
  BY <1>1, <1>5, NumberedApart DEF HandType, NoPull
<1>8. QED
  BY <1>3, <1>4, <1>5, <1>6, <1>7, <1>9 DEF TypeInv

\* What one endpoint does to its client.
LEMMA EndpointTypes ==
    ASSUME TypeInv, NEW c \in Clients, Endpoint(c) \/ Leave(c)
    PROVE  TypeInv' /\ UNCHANGED <<active, raw, pull, segments, since>>
<1>1. UNCHANGED <<active, raw, pull, segments, since>>
  BY DEF Endpoint, Leave, Connect, Accepted, Greeted, Query, Replay, Disconnect
<1>2. faults' \in 0 .. MaxFaults
  BY LimitsAssumption DEF Endpoint, Leave, Connect, Accepted, Greeted, Query, Replay,
     Disconnect, Fault, TypeInv, CountType
<1>3. overlap' \in BOOLEAN
  BY DEF Endpoint, Leave, Connect, Accepted, Greeted, Query, Replay, Disconnect,
     TypeInv, CountType
<1>4. /\ at \in [Clients -> Places] /\ gone \subseteq Clients /\ connections \subseteq Clients
      /\ want \in [Clients -> Sessions \cup {NoSession}]
      /\ seen \in [Clients -> SUBSET Ids] /\ hidden \in [Clients -> Ids \cup {NoText}]
      /\ replay \in [Clients -> SUBSET DOMAIN segments]
  BY DEF TypeInv, ClientType, StoreType
<1>5. CASE Connect(c)
  <2>1. at' \in [Clients -> Places] /\ UNCHANGED <<gone, connections, want, replay, seen, hidden>>
    BY <1>4, <1>5 DEF Connect, Places
  <2>2. ClientType' /\ StoreType'
    BY <1>1, <2>1, Zenon DEF TypeInv, ClientType, StoreType
  <2>3. QED
    BY <1>1, <1>2, <1>3, <2>2, HandStays DEF TypeInv, CountType
<1>6. CASE Accepted(c)
  <2>1. at' \in [Clients -> Places] /\ UNCHANGED <<gone, want, replay, seen>>
    BY <1>4, <1>6 DEF Accepted, Places
  <2>2. hidden' \in [Clients -> Ids \cup {NoText}] /\ connections' \subseteq Clients
    BY <1>4, <1>6 DEF Accepted, TypeInv, PullType
  <2>3. ClientType' /\ StoreType'
    BY <1>1, <2>1, <2>2, Zenon DEF TypeInv, ClientType, StoreType
  <2>4. QED
    BY <1>1, <1>2, <1>3, <2>3, HandStays DEF TypeInv, CountType
<1>7. CASE Greeted(c)
  <2>1. CASE Close({c})
    <3>1. UNCHANGED connections /\ {c} \in SUBSET Clients
      BY <1>7 DEF Greeted
    <3>2. /\ at' \in [Clients -> Places] /\ gone' \subseteq Clients
          /\ want' \in [Clients -> Sessions \cup {NoSession}]
          /\ seen' \in [Clients -> SUBSET Ids] /\ hidden' \in [Clients -> Ids \cup {NoText}]
          /\ replay' \in [Clients -> SUBSET DOMAIN segments]
      BY <2>1, <3>1, CloseResult
    <3>3. ClientType' /\ StoreType'
      BY <1>1, <3>1, <3>2, Zenon DEF TypeInv, ClientType, StoreType
    <3>4. QED
      BY <1>1, <1>2, <1>3, <3>3, HandStays DEF TypeInv, CountType
  <2>2. CASE /\ at' = [at EXCEPT ![c] = "query"] /\ want' = [want EXCEPT ![c] = active]
             /\ UNCHANGED <<gone, replay, seen, hidden>>
    <3>1. at' \in [Clients -> Places] /\ want' \in [Clients -> Sessions \cup {NoSession}]
      BY <1>4, <2>2 DEF Places, TypeInv, SessionType
    <3>2. UNCHANGED connections
      BY <1>7 DEF Greeted
    <3>3. ClientType' /\ StoreType'
      BY <1>1, <2>2, <3>1, <3>2, Zenon DEF TypeInv, ClientType, StoreType
    <3>4. QED
      BY <1>1, <1>2, <1>3, <3>3, HandStays DEF TypeInv, CountType
  <2>3. QED
    BY <1>7, <2>1, <2>2 DEF Greeted
<1>8. CASE Query(c)
  <2>1. StoredOf(want[c]) \in SUBSET DOMAIN segments
    BY DEF StoredOf
  <2>2. /\ at' \in [Clients -> Places] /\ want' \in [Clients -> Sessions \cup {NoSession}]
        /\ replay' \in [Clients -> SUBSET DOMAIN segments]
        /\ UNCHANGED <<gone, connections, seen, hidden>>
    BY <1>4, <1>8, <2>1 DEF Query, Places
  <2>3. ClientType' /\ StoreType'
    BY <1>1, <2>2, Zenon DEF TypeInv, ClientType, StoreType
  <2>4. QED
    BY <1>1, <1>2, <1>3, <2>3, HandStays DEF TypeInv, CountType
<1>9. CASE Replay(c)
  <2>1. UNCHANGED <<gone, connections, want, hidden>>
    BY <1>9 DEF Replay
  <2>2. \A i \in replay[c] : segments[i].t \in Ids
    <3>1. \A i \in DOMAIN segments : segments[i] \in Segments
      BY DEF TypeInv, StoreType
    <3>2. QED
      BY <1>4, <3>1 DEF Segments
  <2>3. /\ at' \in [Clients -> Places] /\ seen' \in [Clients -> SUBSET Ids]
        /\ replay' \in [Clients -> SUBSET DOMAIN segments]
    BY <1>4, <1>9, <2>2 DEF Replay, Places
  <2>4. ClientType' /\ StoreType'
    BY <1>1, <2>1, <2>3, Zenon DEF TypeInv, ClientType, StoreType
  <2>5. QED
    BY <1>1, <1>2, <1>3, <2>4, HandStays DEF TypeInv, CountType
<1>10. CASE Disconnect(c)
  <2>1. Close({c}) /\ connections' \subseteq Clients /\ {c} \in SUBSET Clients
    BY <1>4, <1>10 DEF Disconnect
  <2>2. /\ at' \in [Clients -> Places] /\ gone' \subseteq Clients
        /\ want' \in [Clients -> Sessions \cup {NoSession}]
        /\ seen' \in [Clients -> SUBSET Ids] /\ hidden' \in [Clients -> Ids \cup {NoText}]
        /\ replay' \in [Clients -> SUBSET DOMAIN segments]
    BY <2>1, CloseResult
  <2>3. ClientType' /\ StoreType'
    BY <1>1, <2>1, <2>2, Zenon DEF TypeInv, ClientType, StoreType
  <2>4. QED
    BY <1>1, <1>2, <1>3, <2>3, HandStays DEF TypeInv, CountType
<1>11. CASE Leave(c)
  <2>1. gone' \subseteq Clients /\ UNCHANGED <<at, connections, want, replay, seen, hidden>>
    BY <1>4, <1>11 DEF Leave
  <2>2. ClientType' /\ StoreType'
    BY <1>1, <2>1, Zenon DEF TypeInv, ClientType, StoreType
  <2>3. QED
    BY <1>1, <1>2, <1>3, <2>2, HandStays DEF TypeInv, CountType
<1>12. QED
  BY <1>5, <1>6, <1>7, <1>8, <1>9, <1>10, <1>11 DEF Endpoint

LEMMA InitTypeInv == Init => TypeInv
<1> SUFFICES ASSUME Init PROVE TypeInv
  OBVIOUS
<1>1. SessionType /\ SinceType /\ RawType
  BY DEF Init, SessionType, SinceType, RawType, RawStates
<1>6. CountType
  <2>1. 0 \in 0 .. MaxFaults
    BY LimitsAssumption
  <2>2. QED
    BY <2>1, Zenon DEF Init, CountType
<1>2. PullType
  BY DEF Init, PullType, NoPull
<1>3. HandType
  BY NumberedApart DEF Init, HandType, NoPull
<1>4. ClientType
  BY DEF Init, ClientType, Places
<1>5. StoreType
  BY DEF Init, StoreType
<1>7. QED
  BY <1>1, <1>2, <1>3, <1>4, <1>5, <1>6 DEF TypeInv

LEMMA NextTypeInv == TypeInv /\ [Next]_vars => TypeInv'
<1> SUFFICES ASSUME TypeInv, [Next]_vars PROVE TypeInv'
  OBVIOUS
<1>1. CASE UNCHANGED vars
  <2>1. CountType'
    BY <1>1, Zenon DEF TypeInv, CountType, vars, client
  <2>2. QED
    BY <1>1, <2>1, HandStays, StoreStays, ClientsStay DEF TypeInv, vars, client
<1>2. QED
  BY <1>1, SessionTypes, SpeakTypes, FetchTypes, SendTypes, BroadcastedTypes, StoredTypes,
     SlowTypes, CrashTypes, EndpointTypes DEF Next, PullLoop

\* Every variable has its type, and what is delivered is in hand until it is
\* acknowledged or due again.
THEOREM TypeCorrect == Spec => []TypeOK
<1>1. Spec => []TypeInv
  BY InitTypeInv, NextTypeInv, PTL DEF Spec
<1>2. QED
  BY <1>1, TypeInvTypeOK, PTL
-----------------------------------------------------------------------------
(* How often a text is stored.                                               *)

\* The segments of a text.
Copies(t) == {i \in DOMAIN segments : segments[i].t = t}

\* A text is committed before it is acknowledged, and committed again only for a fault.
OnceInv == \A t \in Ids : Cardinality(Copies(t)) <= faults + (IF raw[t] = "acked" THEN 1 ELSE 0)

LEMMA CopiesFinite ==
    ASSUME StoreType, NEW t
    PROVE  IsFiniteSet(Copies(t)) /\ Cardinality(Copies(t)) \in Nat
<1>1. IsFiniteSet(DOMAIN segments)
  <2>1. DOMAIN segments = 1 .. Len(segments) /\ Len(segments) \in Nat
    BY DEF StoreType
  <2>2. IsFiniteSet(1 .. Len(segments))
    BY <2>1, FS_Interval
  <2>3. QED
    BY <2>1, <2>2
<1>2. Copies(t) \subseteq DOMAIN segments
  BY DEF Copies
<1>3. QED
  BY <1>1, <1>2, FS_Subset, FS_CardinalityType

\* A step that commits nothing, and takes back an ack for a fault only.
LEMMA OnceStays ==
    ASSUME TypeInv, TypeInv', OnceInv, UNCHANGED segments, faults <= faults',
           \A t \in Ids : raw[t] = "acked" => raw'[t] = "acked" \/ faults < faults'
    PROVE  OnceInv'
<1> SUFFICES ASSUME NEW t \in Ids
             PROVE  Cardinality(Copies(t)') <= faults' + (IF raw'[t] = "acked" THEN 1 ELSE 0)
  BY DEF OnceInv
<1>1. Copies(t)' = Copies(t) /\ Cardinality(Copies(t)) \in Nat
  BY CopiesFinite DEF Copies, TypeInv
<1>2. Cardinality(Copies(t)) <= faults + (IF raw[t] = "acked" THEN 1 ELSE 0)
  BY DEF OnceInv
<1>3. faults \in Nat /\ faults' \in Nat
  BY LimitsAssumption DEF TypeInv, CountType
<1>4. QED
  BY <1>1, <1>2, <1>3

LEMMA CommitsOnce == ASSUME TypeInv, OnceInv, Stored PROVE OnceInv'
<1> DEFINE e == [t |-> pull.t, s |-> pull.s]
<1>1. /\ TypeInv' /\ pull.at = "store" /\ pull.t \in Ids /\ e \in Segments
      /\ \/ segments' = Append(segments, e) /\ Ack(pull.t)
         \/ /\ UNCHANGED segments /\ raw' = [raw EXCEPT ![pull.t] = "acked"]
            /\ faults' = faults + 1
  BY StoredTypes DEF Acked
<1>2. e.t = pull.t
  OBVIOUS
<1> HIDE DEF e
<1>3. faults \in Nat /\ faults' \in Nat
  BY <1>1, LimitsAssumption DEF TypeInv, CountType
<1>4. CASE segments' = Append(segments, e) /\ Ack(pull.t)
  <2>1. /\ raw[pull.t] # "acked" /\ \A u \in Ids : u # pull.t => raw'[u] = raw[u]
        /\ \/ raw'[pull.t] = "acked" /\ faults' = faults
           \/ raw'[pull.t] = "again" /\ faults' = faults + 1
    BY <1>1, <1>4, AckResult DEF TypeInv, HandType
  <2>2. /\ DOMAIN segments' = DOMAIN segments \cup {Len(segments) + 1}
        /\ \A i \in DOMAIN segments : segments'[i] = segments[i]
        /\ segments'[Len(segments) + 1] = e
        /\ Len(segments) + 1 \notin DOMAIN segments
    BY <1>1, <1>4, CommitResult DEF TypeInv
  <2>3. ASSUME NEW t \in Ids
        PROVE  Cardinality(Copies(t)') <= faults' + (IF raw'[t] = "acked" THEN 1 ELSE 0)
    <3>1. IsFiniteSet(Copies(t)) /\ Cardinality(Copies(t)) \in Nat
      BY CopiesFinite DEF TypeInv
    <3>2. Cardinality(Copies(t)) <= faults + (IF raw[t] = "acked" THEN 1 ELSE 0)
      BY DEF OnceInv
    <3>3. CASE t = pull.t
      <4>1. Copies(t)' = Copies(t) \cup {Len(segments) + 1} /\ Len(segments) + 1 \notin Copies(t)
        BY <1>2, <2>2, <3>3 DEF Copies
      <4>2. Cardinality(Copies(t) \cup {Len(segments) + 1}) = Cardinality(Copies(t)) + 1
        BY <3>1, <4>1, FS_AddElement
      <4>3. QED
        BY <1>3, <2>1, <3>1, <3>2, <3>3, <4>1, <4>2
    <3>4. CASE t # pull.t
      <4>1. Copies(t)' = Copies(t)
        BY <1>2, <2>2, <3>4 DEF Copies
      <4>2. QED
        BY <1>3, <2>1, <3>1, <3>2, <3>4, <4>1
    <3>5. QED
      BY <3>3, <3>4
  <2>4. QED
    BY <2>3 DEF OnceInv
<1>5. CASE /\ UNCHANGED segments /\ raw' = [raw EXCEPT ![pull.t] = "acked"]
           /\ faults' = faults + 1
  <2>1. \A t \in Ids : raw[t] = "acked" => raw'[t] = "acked"
    BY <1>5 DEF TypeInv, RawType
  <2>2. QED
    BY <1>1, <1>3, <1>5, <2>1, OnceStays
<1>6. QED
  BY <1>1, <1>4, <1>5

LEMMA BroadcastsOnce == ASSUME TypeInv, OnceInv, Broadcasted PROVE OnceInv'
<1>1. /\ TypeInv' /\ pull.at = "send" /\ pull.t \in Ids /\ raw[pull.t] # "acked"
      /\ UNCHANGED segments
      /\ UNCHANGED <<raw, faults>> \/ Ack(pull.t)
  BY BroadcastedTypes DEF Broadcasted, TypeInv, HandType
<1>2. faults \in Nat
  BY LimitsAssumption DEF TypeInv, CountType
<1>3. CASE UNCHANGED <<raw, faults>>
  BY <1>1, <1>2, <1>3, OnceStays
<1>4. CASE Ack(pull.t)
  <2>1. /\ \A u \in Ids : u # pull.t => raw'[u] = raw[u]
        /\ faults' = faults \/ faults' = faults + 1
    BY <1>1, <1>4, AckResult DEF TypeInv
  <2>2. faults <= faults' /\ \A t \in Ids : raw[t] = "acked" => raw'[t] = "acked"
    BY <1>1, <1>2, <2>1
  <2>3. QED
    BY <1>1, <2>2, OnceStays
<1>5. QED
  BY <1>1, <1>3, <1>4

LEMMA NextOnce == TypeInv /\ OnceInv /\ [Next]_vars => OnceInv'
<1> SUFFICES ASSUME TypeInv, OnceInv, [Next]_vars PROVE OnceInv'
  OBVIOUS
<1>1. TypeInv' /\ faults \in Nat
  BY NextTypeInv, LimitsAssumption DEF TypeInv, CountType
<1>2. CASE SessionChange \/ UNCHANGED vars
  <2>1. UNCHANGED <<raw, segments, faults>>
    BY <1>2 DEF SessionChange, vars
  <2>2. QED
    BY <1>1, <2>1, OnceStays
<1>3. ASSUME NEW t \in Ids, Speak(t) \/ Fetch(t) PROVE OnceInv'
  <2>1. /\ raw[t] # "acked" /\ \A u \in Ids : u # t => raw'[u] = raw[u]
        /\ UNCHANGED <<segments, faults>>
    BY <1>3 DEF Speak, Fetch, TypeInv, RawType
  <2>2. \A u \in Ids : raw[u] = "acked" => raw'[u] = "acked"
    BY <2>1
  <2>3. QED
    BY <1>1, <2>1, <2>2, OnceStays
<1>4. ASSUME NEW c \in Clients, SendTo(c) \/ Endpoint(c) \/ Leave(c) PROVE OnceInv'
  <2>1. UNCHANGED <<raw, segments>>
    BY <1>4, EndpointTypes DEF SendTo
  <2>2. faults <= faults'
    BY <1>1, <1>4 DEF SendTo, Endpoint, Leave, Connect, Accepted, Greeted, Query, Replay,
       Disconnect, Fault
  <2>3. QED
    BY <1>1, <2>1, <2>2, OnceStays
<1>5. CASE Broadcasted
  BY <1>5, BroadcastsOnce
<1>6. CASE Stored
  BY <1>6, CommitsOnce
<1>7. CASE SlowBroadcast \/ Crash
  <2>1. UNCHANGED segments /\ faults' = faults + 1
    BY <1>7 DEF SlowBroadcast, Crash, Fault
  <2>2. QED
    BY <1>1, <2>1, OnceStays
<1>8. QED
  BY <1>2, <1>3, <1>4, <1>5, <1>6, <1>7 DEF Next, PullLoop

\* A text is stored once, and again only for a call that failed, a slow broadcast or
\* the end of the process between its commit and its ack.
THEOREM TextsStoredOnce == Spec => []StoredOnce
<1>1. Init => OnceInv
  <2> SUFFICES ASSUME Init, NEW t \in Ids
               PROVE  Cardinality(Copies(t)) <= faults + (IF raw[t] = "acked" THEN 1 ELSE 0)
    BY DEF OnceInv
  <2>1. Copies(t) = {} /\ faults = 0
    BY DEF Init, Copies
  <2>2. QED
    BY <2>1, FS_EmptySet
<1>2. TypeInv /\ OnceInv => StoredOnce
  <2> SUFFICES ASSUME TypeInv, OnceInv, NEW t \in Ids
               PROVE  Cardinality(Copies(t)) <= 1 + faults
    BY DEF StoredOnce, Copies
  <2>1. faults \in Nat /\ Cardinality(Copies(t)) \in Nat
    BY CopiesFinite, LimitsAssumption DEF TypeInv, CountType
  <2>2. QED
    BY <2>1 DEF OnceInv
<1>3. Spec => []TypeInv
  BY InitTypeInv, NextTypeInv, PTL DEF Spec
<1>4. Spec => []OnceInv
  BY <1>1, NextOnce, <1>3, PTL DEF Spec
<1>5. QED
  BY <1>2, <1>3, <1>4, PTL
-----------------------------------------------------------------------------
(* The session of a text.                                                    *)

Published(t) == raw[t] \notin {"none", "acked"}

\* What is active now was active since any text under way was published, and so was the
\* session that the text in hand is to be stored under.
FiledInv ==
    /\ \A t \in Ids : Published(t) => active \in since[t]
    /\ pull.at = "store" => Texts[pull.t] /\ pull.s \in since[pull.t]

\* The history of a text grows while it is under way.
SinceGrows == \A t \in Ids : Published(t)' => Published(t) /\ since[t] \subseteq since'[t]

LEMMA FiledKept ==
    ASSUME TypeInv, TypeInv', FiledInv, SinceGrows, UNCHANGED active,
           pull'.at = "store" => pull.at = "store" /\ pull'.t = pull.t /\ pull'.s = pull.s
    PROVE  FiledInv'
<1>1. \A t \in Ids : Published(t)' => active' \in since'[t]
  BY DEF FiledInv, SinceGrows
<1>2. ASSUME pull'.at = "store" PROVE Texts[pull'.t] /\ pull'.s \in since'[pull'.t]
  <2>1. pull'.t \in Ids /\ \A t \in Ids : t = pull'.t => Published(t)'
    BY <1>2 DEF TypeInv, HandType, Published
  <2>2. since[pull'.t] \subseteq since'[pull'.t]
    BY <2>1 DEF SinceGrows
  <2>3. QED
    BY <1>2, <2>2 DEF FiledInv
<1>3. QED
  BY <1>1, <1>2 DEF FiledInv

LEMMA BecomesFiles ==
    ASSUME TypeInv, TypeInv', FiledInv, NEW s \in Sessions \cup {NoSession}, Becomes(s),
           \A t \in Ids : Published(t)' => Published(t),
           pull'.at = "store" => UNCHANGED pull
    PROVE  FiledInv'
<1>1. \A t \in Ids : Published(t) => since'[t] = since[t] \cup {s} /\ active' = s
  BY DEF Becomes, Published
<1>2. \A t \in Ids : Published(t)' => active' \in since'[t]
  BY <1>1
<1>3. ASSUME pull'.at = "store" PROVE Texts[pull'.t] /\ pull'.s \in since'[pull'.t]
  <2>1. pull.at = "store" /\ pull' = pull /\ pull.t \in Ids /\ Published(pull.t)
    BY <1>3 DEF TypeInv, HandType, Published
  <2>2. QED
    BY <1>1, <2>1 DEF FiledInv
<1>4. QED
  BY <1>2, <1>3 DEF FiledInv

\* An ack, and its loss, leave the other texts alone.
LEMMA AckFiles ==
    ASSUME TypeInv, NEW t \in Ids, Published(t), Ack(t) \/ Acked(t)
    PROVE  SinceGrows
<1>1. CASE Acked(t)
  BY <1>1 DEF Acked, SinceGrows, Published, TypeInv, RawType, SinceType
<1>2. CASE raw' = [raw EXCEPT ![t] = "again"] /\ UNCHANGED since
  BY <1>2 DEF SinceGrows, Published, TypeInv, RawType
<1>3. QED
  BY <1>1, <1>2 DEF Ack

LEMMA NextFiled == TypeInv /\ FiledInv /\ [Next]_vars => FiledInv'
<1> SUFFICES ASSUME TypeInv, FiledInv, [Next]_vars PROVE FiledInv'
  OBVIOUS
<1>0. TypeInv'
  BY NextTypeInv
<1>1. CASE SessionChange
  BY <1>0, <1>1, BecomesFiles DEF SessionChange, Published
<1>2. ASSUME NEW t \in Ids, Speak(t) PROVE FiledInv'
  <2>1. /\ raw[t] = "none" /\ raw' = [raw EXCEPT ![t] = "new"]
        /\ since' = [since EXCEPT ![t] = {active}] /\ UNCHANGED <<active, pull>>
    BY <1>2 DEF Speak
  <2>2. \A u \in Ids : Published(u)' => active \in since'[u]
    BY <2>1 DEF FiledInv, Published, TypeInv, RawType, SinceType
  <2>3. ASSUME pull.at = "store" PROVE pull.s \in since'[pull.t]
    <3>1. pull.t \in Ids /\ raw[pull.t] # "none"
      BY <2>3 DEF TypeInv, HandType
    <3>2. QED
      BY <2>1, <2>3, <3>1 DEF FiledInv, TypeInv, SinceType
  <2>4. QED
    BY <2>1, <2>2, <2>3 DEF FiledInv
<1>3. ASSUME NEW t \in Ids, Fetch(t) PROVE FiledInv'
  <2>1. /\ raw[t] \in {"again", "new"} /\ raw' = [raw EXCEPT ![t] = "out"]
        /\ UNCHANGED <<active, since>> /\ pull'.at = "send"
    BY <1>3 DEF Fetch
  <2>2. SinceGrows
    BY <2>1 DEF SinceGrows, Published, TypeInv, RawType
  <2>3. QED
    BY <1>0, <2>1, <2>2, FiledKept
<1>4. ASSUME NEW c \in Clients, SendTo(c) PROVE FiledInv'
  <2>1. UNCHANGED <<active, raw, since>> /\ pull'.at = "send"
    BY <1>4, SendTypes DEF SendTo
  <2>2. QED
    BY <1>0, <2>1, FiledKept DEF SinceGrows, Published
<1>5. CASE Broadcasted
  <2>1. /\ pull.t \in Ids /\ Published(pull.t) /\ UNCHANGED active
        /\ \/ /\ pull'.at = "store" /\ pull'.t = pull.t /\ UNCHANGED <<raw, since>>
              /\ Texts[pull.t] /\ pull'.s = active
           \/ pull'.at = "idle" /\ Ack(pull.t)
    BY <1>5, BroadcastedTypes DEF Broadcasted, TypeInv, HandType, Published
  <2>2. CASE pull'.at = "idle" /\ Ack(pull.t)
    BY <1>0, <2>1, <2>2, AckFiles, FiledKept
  <2>3. CASE pull'.at = "store"
    BY <2>1, <2>3 DEF FiledInv, Published
  <2>4. QED
    BY <2>1, <2>2, <2>3
<1>6. CASE Stored
  <2>1. /\ pull.t \in Ids /\ Published(pull.t) /\ UNCHANGED active /\ pull'.at = "idle"
        /\ Ack(pull.t) \/ Acked(pull.t)
    BY <1>6, StoredTypes DEF TypeInv, HandType, Published, NoPull
  <2>2. QED
    BY <1>0, <2>1, AckFiles, FiledKept
<1>7. CASE SlowBroadcast
  <2>1. UNCHANGED <<active, pull, since>> /\ raw' = [raw EXCEPT ![pull.t] = "again"]
        /\ raw[pull.t] = "out"
    BY <1>7 DEF SlowBroadcast
  <2>2. SinceGrows
    BY <2>1 DEF SinceGrows, Published, TypeInv, RawType
  <2>3. QED
    BY <1>0, <2>1, <2>2, FiledKept
<1>8. CASE Crash
  <2>1. Becomes(NoSession) /\ pull'.at = "idle"
        /\ raw' = [t \in Ids |-> IF raw[t] = "out" THEN "again" ELSE raw[t]]
    BY <1>8 DEF Crash, NoPull
  <2>2. \A t \in Ids : Published(t)' => Published(t)
    BY <2>1 DEF Published
  <2>3. QED
    BY <1>0, <2>1, <2>2, BecomesFiles
<1>9. CASE (\E c \in Clients : Endpoint(c) \/ Leave(c)) \/ UNCHANGED vars
  <2>1. UNCHANGED <<active, raw, pull, since>>
    BY <1>9, EndpointTypes DEF vars
  <2>2. QED
    BY <1>0, <2>1, FiledKept DEF SinceGrows, Published
<1>10. QED
  BY <1>1, <1>2, <1>3, <1>4, <1>5, <1>6, <1>7, <1>8, <1>9 DEF Next, PullLoop

\* What a step does to text t.
FiledStep(t) ==
    /\ \A i \in DOMAIN segments' \ DOMAIN segments :
          segments'[i].t = t => segments'[i].s \in since[t]
    /\ Texts[t] /\ raw[t] # "acked" /\ raw'[t] = "acked"
          => t \in StoredTexts' \/ NoSession \in since[t] \/ faults' > faults

\* Only an ack makes a text done, and only a commit adds a segment.
LEMMA FiledSteps ==
    ASSUME TypeInv, FiledInv, [Next]_vars, NEW t \in Ids
    PROVE  FiledStep(t)
<1>0. faults \in Nat
  BY LimitsAssumption DEF TypeInv, CountType
<1>1. ASSUME UNCHANGED segments, raw'[t] = "acked" => raw[t] = "acked" PROVE FiledStep(t)
  BY <1>1 DEF FiledStep
<1>2. CASE Broadcasted
  <2>1. /\ pull.t \in Ids /\ UNCHANGED segments /\ Published(pull.t)
        /\ \/ UNCHANGED raw
           \/ Ack(pull.t) /\ (~Texts[pull.t] \/ active = NoSession)
    BY <1>2, BroadcastedTypes DEF Broadcasted, TypeInv, HandType, Published
  <2>2. CASE UNCHANGED raw
    BY <1>1, <2>1, <2>2
  <2>3. CASE Ack(pull.t) /\ (~Texts[pull.t] \/ active = NoSession)
    <3>1. \A u \in Ids : u # pull.t => raw'[u] = raw[u]
      BY <2>1, <2>3, AckResult DEF TypeInv
    <3>2. CASE t # pull.t
      BY <1>1, <2>1, <3>1, <3>2
    <3>3. CASE t = pull.t
      <4>1. Texts[t] => NoSession \in since[t]
        BY <2>1, <2>3, <3>3 DEF FiledInv
      <4>2. QED
        BY <2>1, <4>1 DEF FiledStep
    <3>4. QED
      BY <3>2, <3>3
  <2>4. QED
    BY <2>1, <2>2, <2>3
<1>3. CASE Stored
  <2> DEFINE e == [t |-> pull.t, s |-> pull.s]
  <2>1. /\ pull.at = "store" /\ pull.t \in Ids /\ e \in Segments /\ e.t = pull.t /\ e.s = pull.s
        /\ \/ segments' = Append(segments, e) /\ Ack(pull.t)
           \/ UNCHANGED segments /\ Acked(pull.t) /\ faults' = faults + 1
    BY <1>3, StoredTypes
  <2>2. pull.s \in since[pull.t]
    BY <2>1 DEF FiledInv
  <2> HIDE DEF e
  <2>3. CASE segments' = Append(segments, e) /\ Ack(pull.t)
    <3>1. /\ DOMAIN segments' = DOMAIN segments \cup {Len(segments) + 1}
          /\ segments'[Len(segments) + 1] = e
      BY <2>1, <2>3, CommitResult DEF TypeInv
    <3>2. \A i \in DOMAIN segments' \ DOMAIN segments :
            segments'[i].t = t => segments'[i].s \in since[t]
      BY <2>1, <2>2, <3>1
    <3>3. pull.t \in StoredTexts'
      BY <2>1, <3>1 DEF StoredTexts
    <3>4. \A u \in Ids : u # pull.t => raw'[u] = raw[u]
      BY <2>1, <2>3, AckResult DEF TypeInv
    <3>5. QED
      BY <3>2, <3>3, <3>4 DEF FiledStep
  <2>4. CASE UNCHANGED segments /\ faults' = faults + 1
    BY <1>0, <2>4 DEF FiledStep
  <2>5. QED
    BY <2>1, <2>3, <2>4
<1>4. CASE SessionChange \/ UNCHANGED vars
  BY <1>1, <1>4 DEF SessionChange, vars
<1>5. ASSUME NEW u \in Ids, Speak(u) \/ Fetch(u) PROVE FiledStep(t)
  <2>1. UNCHANGED segments /\ (raw'[t] = "acked" => raw[t] = "acked")
    BY <1>5 DEF Speak, Fetch, TypeInv, RawType
  <2>2. QED
    BY <1>1, <2>1
<1>6. ASSUME NEW c \in Clients, SendTo(c) \/ Endpoint(c) \/ Leave(c) PROVE FiledStep(t)
  <2>1. UNCHANGED <<raw, segments>>
    BY <1>6, EndpointTypes DEF SendTo
  <2>2. QED
    BY <1>1, <2>1
<1>7. CASE SlowBroadcast \/ Crash
  <2>1. UNCHANGED segments /\ (raw'[t] = "acked" => raw[t] = "acked")
    BY <1>7 DEF SlowBroadcast, Crash, TypeInv, RawType
  <2>2. QED
    BY <1>1, <2>1
<1>8. QED
  BY <1>2, <1>3, <1>4, <1>5, <1>6, <1>7 DEF Next, PullLoop

\* However the active session changes while a text is under way: the text is stored only
\* under a session that was active at some time since it was published, and a final text
\* is not acknowledged unstored, unless no session was active at some time since then or
\* its statement fails.
THEOREM TextsFiledInTime == Spec => FiledInTime
<1>1. Init => FiledInv
  BY DEF Init, FiledInv, Published, NoPull
<1>2. TypeInv /\ FiledInv /\ [Next]_vars => [\A t \in Ids : FiledStep(t)]_vars
  BY FiledSteps
<1>3. Spec => []TypeInv
  BY InitTypeInv, NextTypeInv, PTL DEF Spec
<1>4. Spec => []FiledInv
  BY <1>1, NextFiled, <1>3, PTL DEF Spec
<1>5. Spec => [][\A t \in Ids : FiledStep(t)]_vars
  BY <1>2, <1>3, <1>4, PTL DEF Spec
<1>6. QED
  BY <1>5 DEF FiledInTime, FiledStep
-----------------------------------------------------------------------------
(* What a client misses.                                                     *)

InRoom     == {"greet", "query", "replay", "live"}
Present(c) == at[c] \in InRoom /\ c \notin gone
Got(c, t)  == t \in seen[c] \cup {hidden[c]}

\* A client that is present is in the broadcast, has got the text in hand or is about to,
\* and has got what is stored of its session or is about to.
ClientInv(c) ==
    /\ Present(c) => c \in connections
    /\ Present(c) /\ pull.at # "idle" =>
          Got(c, pull.t) \/ (pull.at = "send" /\ c \in pull.to)
    /\ at[c] \in {"away", "accept", "greet", "closed"} => want[c] = NoSession
    /\ Present(c) /\ at[c] \in {"replay", "live"} =>
          \A i \in DOMAIN segments : segments[i].s = want[c] =>
              Got(c, segments[i].t) \/ i \in replay[c]
    /\ at[c] # "replay" => replay[c] = {}

ReplayInv == \A c \in Clients : ClientInv(c)

\* Nothing of the client changes but that it may join the broadcast.
Untouched(c) ==
    /\ at'[c] = at[c] /\ want'[c] = want[c] /\ replay'[c] = replay[c]
    /\ seen'[c] = seen[c] /\ hidden'[c] = hidden[c] /\ (c \in gone' <=> c \in gone)
    /\ c \in connections => c \in connections'

LEMMA UntouchedStays ==
    ASSUME NEW c, ClientInv(c), Untouched(c), UNCHANGED <<pull, segments>>
    PROVE  ClientInv(c)'
  BY DEF ClientInv, Untouched, Present, Got

LEMMA AllStay ==
    ASSUME ReplayInv, UNCHANGED <<client, pull, segments>> PROVE ReplayInv'
  BY DEF ReplayInv, ClientInv, Present, Got, client

\* The broadcast of a text to all that are present.
LEMMA FetchReaches == ASSUME TypeInv, ReplayInv, NEW t \in Ids, Fetch(t) PROVE ReplayInv'
<1>1. /\ pull'.at = "send" /\ pull'.to = connections
      /\ UNCHANGED <<segments, client>>
  BY FetchTypes DEF Fetch
<1>2. ASSUME NEW c \in Clients PROVE ClientInv(c)'
  <2>1. ClientInv(c)
    BY DEF ReplayInv
  <2>2. QED
    BY <1>1, <2>1 DEF ClientInv, Present, Got, client
<1>3. QED
  BY <1>2 DEF ReplayInv

LEMMA SendReaches == ASSUME TypeInv, ReplayInv, NEW d \in Clients, SendTo(d) PROVE ReplayInv'
<1>1. /\ pull.at = "send" /\ pull'.at = "send" /\ pull'.t = pull.t /\ pull'.to = pull.to \ {d}
      /\ UNCHANGED <<segments, at, gone, want, replay, hidden>>
      /\ \/ Dead(d) /\ connections' = connections \ {d} /\ UNCHANGED seen
         \/ seen' = [seen EXCEPT ![d] = @ \cup {pull.t}] /\ UNCHANGED connections
  BY SendTypes DEF SendTo
<1>2. ASSUME NEW c \in Clients PROVE ClientInv(c)'
  <2>1. ClientInv(c)
    BY DEF ReplayInv
  <2>2. CASE c # d
    <3>1. seen'[c] = seen[c] /\ (c \in connections => c \in connections')
      BY <1>1, <2>2 DEF TypeInv, ClientType
    <3>2. QED
      BY <1>1, <2>1, <2>2, <3>1 DEF ClientInv, Present, Got
  <2>3. CASE c = d /\ Dead(d) /\ UNCHANGED seen
    <3>1. ~Present(c)
      BY <2>3 DEF Dead, Present, InRoom
    <3>2. QED
      BY <1>1, <2>1, <2>3, <3>1 DEF ClientInv, Present
  <2>4. CASE c = d /\ seen' = [seen EXCEPT ![d] = @ \cup {pull.t}] /\ UNCHANGED connections
    <3>1. seen'[c] = seen[c] \cup {pull.t}
      BY <2>4 DEF TypeInv, ClientType
    <3>2. QED
      BY <1>1, <2>1, <2>4, <3>1 DEF ClientInv, Present, Got
  <2>5. QED
    BY <1>1, <2>2, <2>3, <2>4
<1>3. QED
  BY <1>2 DEF ReplayInv

LEMMA BroadcastReached == ASSUME TypeInv, ReplayInv, Broadcasted PROVE ReplayInv'
<1>1. /\ pull.at = "send" /\ pull.to = {} /\ UNCHANGED <<segments, client>>
      /\ pull'.at # "idle" => pull'.t = pull.t
  BY BroadcastedTypes DEF Broadcasted
<1>2. ASSUME NEW c \in Clients PROVE ClientInv(c)'
  <2>1. ClientInv(c)
    BY DEF ReplayInv
  <2>2. QED
    BY <1>1, <2>1 DEF ClientInv, Present, Got, client
<1>3. QED
  BY <1>2 DEF ReplayInv

\* What is committed was broadcast to all that are present.
LEMMA CommitReached == ASSUME TypeInv, ReplayInv, Stored PROVE ReplayInv'
<1> DEFINE e == [t |-> pull.t, s |-> pull.s]
<1>1. /\ pull.at = "store" /\ pull' = NoPull /\ e \in Segments
      /\ UNCHANGED <<active, client>>
      /\ segments' = Append(segments, e) \/ UNCHANGED segments
  BY StoredTypes
<1>2. e.t = pull.t /\ pull'.at = "idle"
  BY <1>1 DEF NoPull
<1> HIDE DEF e
<1>3. ASSUME NEW c \in Clients PROVE ClientInv(c)'
  <2>1. ClientInv(c)
    BY DEF ReplayInv
  <2>2. Present(c) => Got(c, e.t)
    BY <1>1, <1>2, <2>1 DEF ClientInv
  <2>3. ASSUME Present(c), at[c] \in {"replay", "live"}, NEW i \in DOMAIN segments',
               segments'[i].s = want[c]
        PROVE  Got(c, segments'[i].t) \/ i \in replay[c]
    <3>1. CASE segments' = Append(segments, e)
      <4>1. /\ DOMAIN segments' = DOMAIN segments \cup {Len(segments) + 1}
            /\ \A j \in DOMAIN segments : segments'[j] = segments[j]
            /\ segments'[Len(segments) + 1] = e
        BY <1>1, <3>1, CommitResult DEF TypeInv
      <4>2. QED
        BY <2>1, <2>2, <2>3, <4>1 DEF ClientInv
    <3>2. CASE UNCHANGED segments
      BY <2>1, <2>3, <3>2 DEF ClientInv
    <3>3. QED
      BY <1>1, <3>1, <3>2
  <2>4. UNCHANGED <<at, gone, connections, want, replay, seen, hidden>>
    BY <1>1 DEF client
  <2>5. QED
    BY <1>2, <2>1, <2>3, <2>4 DEF ClientInv, Present, Got
<1>4. QED
  BY <1>3 DEF ReplayInv

LEMMA CrashReached == ASSUME TypeInv, ReplayInv, Crash PROVE ReplayInv'
<1> DEFINE cs == {c \in Clients : at[c] # "away"}
<1>1. pull' = NoPull /\ Close(cs) /\ cs \in SUBSET Clients
  BY DEF Crash
<1> HIDE DEF cs
<1>2. /\ \A c \in cs : at'[c] = "closed" /\ want'[c] = NoSession /\ replay'[c] = {}
      /\ \A c \in Clients \ cs : /\ at'[c] = at[c] /\ want'[c] = want[c]
                                 /\ replay'[c] = replay[c]
  BY <1>1, CloseResult
<1>3. ASSUME NEW c \in Clients PROVE ClientInv(c)'
  <2>1. at'[c] \in {"away", "closed"} /\ want'[c] = NoSession /\ replay'[c] = {}
    <3>1. CASE c \in cs
      BY <1>2, <3>1
    <3>2. CASE c \notin cs
      BY <1>2, <3>2 DEF ReplayInv, ClientInv, cs
    <3>3. QED
      BY <3>1, <3>2
  <2>2. QED
    BY <2>1 DEF ClientInv, Present, InRoom
<1>4. QED
  BY <1>3 DEF ReplayInv

\* What an endpoint does to its client,
LEMMA ClosedClient ==
    ASSUME TypeInv, NEW c \in Clients, Close({c}) PROVE ClientInv(c)'
<1>1. at'[c] = "closed" /\ want'[c] = NoSession /\ replay'[c] = {}
  BY CloseResult
<1>2. QED
  BY <1>1 DEF ClientInv, Present, InRoom

LEMMA EndpointReaches ==
    ASSUME TypeInv, NEW c \in Clients, ClientInv(c), Endpoint(c) \/ Leave(c)
    PROVE  ClientInv(c)'
<1>1. UNCHANGED <<pull, segments>>
  BY EndpointTypes
<1>2. /\ DOMAIN at = Clients /\ DOMAIN want = Clients /\ DOMAIN replay = Clients
      /\ DOMAIN seen = Clients /\ DOMAIN hidden = Clients
  BY DEF TypeInv, ClientType, StoreType
<1>3. CASE Connect(c)
  <2>1. at[c] = "away" /\ at'[c] \in {"accept", "closed"} /\ UNCHANGED <<want, replay>>
    BY <1>2, <1>3 DEF Connect
  <2>2. QED
    BY <2>1 DEF ClientInv, Present, InRoom
<1>4. CASE Accepted(c)
  <2>1. /\ at[c] = "accept" /\ at'[c] \in {"greet", "live"} /\ UNCHANGED <<want, replay>>
        /\ c \in connections' /\ hidden'[c] = pull.t
    BY <1>2, <1>4 DEF Accepted
  <2>2. want[c] = NoSession /\ replay[c] = {}
    BY <2>1 DEF ClientInv
  <2>3. \A i \in DOMAIN segments : segments[i].s # NoSession
    <3>1. \A i \in DOMAIN segments : segments[i] \in Segments
      BY DEF TypeInv, StoreType
    <3>2. QED
      BY <3>1, NumberedApart DEF Segments
  <2>4. QED
    BY <1>1, <2>1, <2>2, <2>3 DEF ClientInv, Present, Got
<1>5. CASE Greeted(c)
  <2>1. CASE Close({c})
    BY <2>1, ClosedClient
  <2>2. CASE /\ at' = [at EXCEPT ![c] = "query"] /\ want' = [want EXCEPT ![c] = active]
             /\ UNCHANGED <<gone, replay, seen, hidden>>
    <3>1. /\ at[c] = "greet" /\ at'[c] = "query" /\ UNCHANGED connections
      BY <1>2, <1>5, <2>2 DEF Greeted
    <3>2. QED
      BY <1>1, <2>2, <3>1 DEF ClientInv, Present, Got, InRoom
  <2>3. QED
    BY <1>5, <2>1, <2>2 DEF Greeted
<1>6. CASE Query(c)
  <2>1. at[c] = "query" /\ UNCHANGED <<gone, connections, seen, hidden>>
    BY <1>6 DEF Query
  <2>2. CASE /\ replay' = [replay EXCEPT ![c] = StoredOf(want[c])]
             /\ at' = [at EXCEPT ![c] = "replay"] /\ UNCHANGED want
    <3>1. at'[c] = "replay" /\ replay'[c] = StoredOf(want[c])
      BY <1>2, <2>2
    <3>2. QED
      BY <1>1, <2>1, <2>2, <3>1 DEF ClientInv, Present, Got, InRoom, StoredOf
  <2>3. CASE /\ at' = [at EXCEPT ![c] = "live"] /\ want' = [want EXCEPT ![c] = NoSession]
             /\ UNCHANGED replay
    <3>1. at'[c] = "live" /\ want'[c] = NoSession
      BY <1>2, <2>3
    <3>2. \A i \in DOMAIN segments : segments[i].s # NoSession
      <4>1. \A i \in DOMAIN segments : segments[i] \in Segments
        BY DEF TypeInv, StoreType
      <4>2. QED
        BY <4>1, NumberedApart DEF Segments
    <3>3. QED
      BY <1>1, <2>1, <2>3, <3>1, <3>2 DEF ClientInv, Present, Got, InRoom
  <2>4. QED
    BY <1>6, <2>2, <2>3 DEF Query
<1>7. CASE Replay(c)
  <2>1. at[c] = "replay" /\ UNCHANGED <<gone, connections, want, hidden>>
    BY <1>7 DEF Replay
  <2>2. ASSUME NEW i \in replay[c], c \notin gone, UNCHANGED at,
               seen' = [seen EXCEPT ![c] = @ \cup {segments[i].t}],
               replay' = [replay EXCEPT ![c] = @ \ {i}]
        PROVE  ClientInv(c)'
    <3>1. seen'[c] = seen[c] \cup {segments[i].t} /\ replay'[c] = replay[c] \ {i}
      BY <1>2, <2>2
    <3>2. QED
      BY <1>1, <2>1, <2>2, <3>1 DEF ClientInv, Present, Got, InRoom
  <2>3. CASE /\ c \in gone \/ replay[c] = {}
             /\ at' = [at EXCEPT ![c] = "live"]
             /\ replay' = [replay EXCEPT ![c] = {}] /\ UNCHANGED seen
    <3>1. at'[c] = "live" /\ replay'[c] = {}
      BY <1>2, <2>3
    <3>2. QED
      BY <1>1, <2>1, <2>3, <3>1 DEF ClientInv, Present, Got, InRoom
  <2>4. QED
    BY <1>7, <2>2, <2>3 DEF Replay
<1>8. CASE Disconnect(c)
  BY <1>8, ClosedClient DEF Disconnect
<1>9. CASE Leave(c)
  <2>1. c \in gone' /\ UNCHANGED <<at, connections, want, replay, seen, hidden>>
    BY <1>9 DEF Leave
  <2>2. QED
    BY <2>1 DEF ClientInv, Present, InRoom
<1>10. QED
  BY <1>3, <1>4, <1>5, <1>6, <1>7, <1>8, <1>9 DEF Endpoint

\* and to the others: nothing.
LEMMA EndpointSpares ==
    ASSUME TypeInv, NEW d \in Clients, Endpoint(d) \/ Leave(d), NEW c \in Clients, c # d
    PROVE  Untouched(c)
<1>1. /\ DOMAIN at = Clients /\ DOMAIN want = Clients /\ DOMAIN replay = Clients
      /\ DOMAIN seen = Clients /\ DOMAIN hidden = Clients
  BY DEF TypeInv, ClientType, StoreType
<1>2. CASE Connect(d) \/ Accepted(d) \/ Query(d) \/ Replay(d) \/ Leave(d)
  BY <1>1, <1>2 DEF Connect, Accepted, Query, Replay, Leave, Untouched
<1>3. CASE Greeted(d) \/ Disconnect(d)
  <2>1. CASE Close({d})
    <3>1. {d} \in SUBSET Clients /\ c \in Clients \ {d}
      OBVIOUS
    <3>2. /\ at'[c] = at[c] /\ want'[c] = want[c] /\ replay'[c] = replay[c]
          /\ seen'[c] = seen[c] /\ hidden'[c] = hidden[c] /\ (c \in gone' <=> c \in gone)
      BY <2>1, <3>1, CloseResult
    <3>3. c \in connections => c \in connections'
      BY <1>3 DEF Greeted, Disconnect
    <3>4. QED
      BY <3>2, <3>3 DEF Untouched
  <2>2. CASE Greeted(d) /\ ~Close({d})
    BY <1>1, <2>2 DEF Greeted, Untouched
  <2>3. QED
    BY <1>3, <2>1, <2>2 DEF Disconnect
<1>4. QED
  BY <1>2, <1>3 DEF Endpoint

LEMMA NextReplay == TypeInv /\ ReplayInv /\ [Next]_vars => ReplayInv'
<1> SUFFICES ASSUME TypeInv, ReplayInv, [Next]_vars PROVE ReplayInv'
  OBVIOUS
<1>1. CASE SessionChange \/ SlowBroadcast \/ (\E t \in Ids : Speak(t)) \/ UNCHANGED vars
  BY <1>1, AllStay DEF SessionChange, SlowBroadcast, Speak, vars
<1>2. ASSUME NEW d \in Clients, Endpoint(d) \/ Leave(d) PROVE ReplayInv'
  <2>1. UNCHANGED <<pull, segments>>
    BY <1>2, EndpointTypes
  <2>2. ASSUME NEW c \in Clients PROVE ClientInv(c)'
    BY <1>2, <2>1, EndpointReaches, EndpointSpares, UntouchedStays DEF ReplayInv
  <2>3. QED
    BY <2>2 DEF ReplayInv
<1>3. QED
  BY <1>1, <1>2, FetchReaches, SendReaches, BroadcastReached, CommitReached, CrashReached
     DEF Next, PullLoop

\* A client that was replayed its session has got all that is stored of it, but for the
\* text in hand when it came, whatever is broadcast and stored during its replay.
THEOREM ReplaysComplete == Spec => []ReplayComplete
<1>1. Init => ReplayInv
  BY DEF Init, ReplayInv, ClientInv, Present, InRoom
<1>2. ReplayInv => ReplayComplete
  BY DEF ReplayInv, ClientInv, Present, InRoom, Got, ReplayComplete
<1>3. Spec => []TypeInv
  BY InitTypeInv, NextTypeInv, PTL DEF Spec
<1>4. Spec => []ReplayInv
  BY <1>1, NextReplay, <1>3, PTL DEF Spec
<1>5. QED
  BY <1>2, <1>4, PTL
=============================================================================
