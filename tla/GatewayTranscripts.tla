-------------------------- MODULE GatewayTranscripts --------------------------
(***************************************************************************)
(* The transcripts of the api-gateway (services/api-gateway): _pull_loop   *)
(* reads transcript.raw with a durable consumer, broadcasts every text to  *)
(* the WebSocket clients, and stores the final ones under the session that *)
(* is active; websocket_endpoint lets clients in, replays what is stored   *)
(* of the active session, and leaves the rest to the broadcast.            *)
(*                                                                         *)
(* An action is what lies between two awaits.  The active session is that  *)
(* of GatewaySessions: between any two steps it changes, to any session,   *)
(* as lost events, failing writes and late reads of the key have it.       *)
(***************************************************************************)
EXTENDS Integers, Sequences, FiniteSets

CONSTANTS
    Clients,
    Texts,               \* <<is_final, ...>>, in the order of the stream
    MaxSessions,         \* bound: sessions that may be active
    MAX_WS_CONNECTIONS,
    MaxFaults            \* bound: failing calls, slow broadcasts, clients that leave,
                         \* ends of the process

ASSUME LimitsAssumption ==
    /\ Texts \in Seq(BOOLEAN) /\ {MaxSessions, MaxFaults} \subseteq Nat
    /\ MAX_WS_CONNECTIONS \in Nat \ {0}

Ids    == DOMAIN Texts
NoText == 0
Sessions  == 1 .. MaxSessions
NoSession == 0

VARIABLES
    active,      \* _active_session_id
    raw,         \* text -> "none", "new", "out" (delivered), "again" (its ack was
                 \* lost or late: it comes again, in any order), "acked"
    pull,        \* _pull_loop: [at : "idle", "send" or "store", t, to : clients still
                 \* to be sent to, s : the session to store under]
    segments,    \* transcript_segments: <<[t, s], ...>>
    at,          \* client -> where its endpoint is: "away", "accept", "greet",
                 \* "query", "replay", "live", "closed"
    gone,        \* clients that closed their side
    connections, \* active_connections
    want,        \* client -> the session it is replayed
    replay,      \* client -> segments still to be replayed
    seen,        \* client -> the set of texts it got
    faults,
    overlap,     \* two clients were let in at once
    hidden,      \* client -> the text that was in hand when it was connected
    since        \* text under way -> what was active at some time since it was published

client  == <<at, gone, connections, want, replay, seen, overlap, hidden>>
vars == <<active, raw, pull, segments, client, faults, since>>

Fault == faults < MaxFaults /\ faults' = faults + 1
NoPull == [at |-> "idle", t |-> NoText, to |-> {}, s |-> NoSession]

\* A client is closed; what it was sent no longer matters.
Close(cs) ==
    /\ at' = [c \in Clients |-> IF c \in cs THEN "closed" ELSE at[c]]
    /\ gone' = gone \ cs
    /\ want' = [c \in Clients |-> IF c \in cs THEN NoSession ELSE want[c]]
    /\ replay' = [c \in Clients |-> IF c \in cs THEN {} ELSE replay[c]]
    /\ seen' = [c \in Clients |-> IF c \in cs THEN {} ELSE seen[c]]
    /\ hidden' = [c \in Clients |-> IF c \in cs THEN NoText ELSE hidden[c]]
-----------------------------------------------------------------------------
\* The active session becomes s, for every text that is under way.
Becomes(s) ==
    /\ active' = s
    /\ since' = [t \in Ids |-> IF raw[t] \in {"none", "acked"} THEN {}
                                ELSE since[t] \cup {s}]

\* _handle_session_db and _kv_connect.  An event may be lost or its write fail, and the
\* key is read before and applied after events: an older session may come back.
SessionChange ==
    /\ \E s \in Sessions \cup {NoSession} : s # active /\ Becomes(s)
    /\ UNCHANGED <<raw, pull, segments, client, faults>>

\* stt-provider publishes its next text.
Speak(t) ==
    /\ raw[t] = "none" /\ \A u \in Ids : u < t => raw[u] # "none"
    /\ raw' = [raw EXCEPT ![t] = "new"]
    /\ since' = [since EXCEPT ![t] = {active}]
    /\ UNCHANGED <<active, pull, segments, client, faults>>
-----------------------------------------------------------------------------
(* _pull_loop.                                                             *)

\* The next text is taken, and goes to those who are connected at that moment.
Fetch(t) ==
    /\ pull.at = "idle"
    /\ raw[t] = "again" \/ (raw[t] = "new" /\ \A u \in Ids : u < t => raw[u] # "new")
    /\ raw' = [raw EXCEPT ![t] = "out"]
    /\ pull' = [at |-> "send", t |-> t, to |-> connections, s |-> NoSession]
    /\ UNCHANGED <<active, segments, client, faults, since>>

\* The other side is closed, or the endpoint of this side has ended.
Dead(c) == c \in gone \/ at[c] = "closed"

\* One client is sent the text; one that is gone raises, and is disconnected.
SendTo(c) ==
    /\ pull.at = "send" /\ c \in pull.to
    /\ pull' = [pull EXCEPT !.to = @ \ {c}]
    /\ IF Dead(c) THEN connections' = connections \ {c} /\ UNCHANGED seen
       ELSE seen' = [seen EXCEPT ![c] = @ \cup {pull.t}] /\ UNCHANGED connections
    /\ UNCHANGED <<active, raw, segments, at, gone, want, replay, overlap,
                   hidden, faults, since>>

\* The text is done.
Acked(t) == raw' = [raw EXCEPT ![t] = "acked"] /\ since' = [since EXCEPT ![t] = {}]

\* The ack arrives, or is lost: then the text comes again.
Ack(t) == \/ Acked(t) /\ UNCHANGED faults
          \/ raw' = [raw EXCEPT ![t] = "again"] /\ Fault /\ UNCHANGED since

\* Mutant: the session of the last segment is kept.
LastSession(t) == IF ~Texts[t] THEN NoSession
                  ELSE IF segments # <<>> THEN segments[Len(segments)].s ELSE active

\* Final texts are stored if a session is active.
StoreUnder(t) == IF Texts[t] THEN active ELSE NoSession

\* After the last send, the text is stored, or acknowledged at once.
Broadcasted ==
    /\ pull.at = "send" /\ pull.to = {}
    /\ \/ /\ StoreUnder(pull.t) # NoSession
          /\ pull' = [pull EXCEPT !.at = "store", !.s = StoreUnder(pull.t)]
          /\ UNCHANGED <<raw, faults, since>>
       \/ StoreUnder(pull.t) = NoSession /\ pull' = NoPull /\ Ack(pull.t)
    /\ UNCHANGED <<active, segments, client>>

\* Mutant: a text is acknowledged only when the statement fails.
AckFailures ==
    /\ pull.at = "store"
    /\ pull' = NoPull
    /\ segments' = Append(segments, [t |-> pull.t, s |-> pull.s])
    /\ raw' = [raw EXCEPT ![pull.t] = "again"]
    /\ Len(segments) < 3
    /\ UNCHANGED <<active, client, faults, since>>

\* _persist_segment: committed, or failed and logged; acknowledged either way.
Stored ==
    /\ pull.at = "store"
    /\ pull' = NoPull
    /\ \/ segments' = Append(segments, [t |-> pull.t, s |-> pull.s]) /\ Ack(pull.t)
       \/ Fault /\ UNCHANGED segments /\ Acked(pull.t)
    /\ UNCHANGED <<active, client>>

\* The ack wait goes by before a slow client has taken the text.
SlowBroadcast ==
    /\ pull.at # "idle" /\ raw[pull.t] = "out" /\ Fault
    /\ raw' = [raw EXCEPT ![pull.t] = "again"]
    /\ UNCHANGED <<active, pull, segments, client, since>>
-----------------------------------------------------------------------------
(* websocket_endpoint.                                                     *)

\* Mutant: one client too many passes.
FullTooLate == Cardinality(connections) > MAX_WS_CONNECTIONS

Full == Cardinality(connections) >= MAX_WS_CONNECTIONS

\* The limit is checked, then the client is awaited.
Connect(c) ==
    /\ at[c] = "away"
    /\ \/ /\ Full
          /\ at' = [at EXCEPT ![c] = "closed"]
          /\ UNCHANGED overlap
       \/ /\ ~Full
          /\ at' = [at EXCEPT ![c] = "accept"]
          /\ overlap' = (overlap \/ \E d \in Clients : at[d] = "accept")
    /\ UNCHANGED <<active, raw, pull, segments, gone, connections, want,
                   replay, seen, hidden, faults, since>>

\* Mutant: a client joins the broadcast when its replay has begun.
JoinLater(c) ==
    /\ at[c] = "accept"
    /\ at' = [at EXCEPT ![c] = IF active = NoSession THEN "live" ELSE "greet"]
    /\ hidden' = [hidden EXCEPT ![c] = pull.t]
    /\ UNCHANGED <<active, raw, pull, segments, gone, connections, want,
                   replay, seen, overlap, faults, since>>

\* ConnectionManager.connect: it joins the broadcast, before the replay.
Accepted(c) ==
    /\ at[c] = "accept"
    /\ connections' = connections \cup {c}
    /\ at' = [at EXCEPT ![c] = IF active = NoSession THEN "live" ELSE "greet"]
    /\ hidden' = [hidden EXCEPT ![c] = pull.t]
    /\ UNCHANGED <<active, raw, pull, segments, gone, want, replay, seen,
                   overlap, faults, since>>

\* replay_start is sent; the session is read again after that.  If the client is
\* gone the endpoint raises, and its entry stays until a broadcast fails.
Greeted(c) ==
    /\ at[c] = "greet"
    /\ \/ c \in gone /\ Close({c})
       \/ /\ c \notin gone
          /\ at' = [at EXCEPT ![c] = "query"] /\ want' = [want EXCEPT ![c] = active]
          /\ UNCHANGED <<gone, replay, seen, hidden>>
    /\ UNCHANGED <<active, raw, pull, segments, connections, overlap, faults, since>>

StoredOf(s) == {i \in DOMAIN segments : segments[i].s = s}

\* _replay_session_transcript: the query, which may fail,
Query(c) ==
    /\ at[c] = "query"
    /\ \/ /\ replay' = [replay EXCEPT ![c] = StoredOf(want[c])]
          /\ at' = [at EXCEPT ![c] = "replay"]
          /\ UNCHANGED <<want, faults>>
       \/ /\ Fault
          /\ at' = [at EXCEPT ![c] = "live"] /\ want' = [want EXCEPT ![c] = NoSession]
          /\ UNCHANGED replay
    /\ UNCHANGED <<active, raw, pull, segments, gone, connections, seen,
                   overlap, hidden, since>>

\* one segment after the other, in the order of their ids, and the end, or the
\* exception of a client gone.
Replay(c) ==
    /\ at[c] = "replay"
    /\ \/ /\ c \notin gone
          /\ \E i \in replay[c] :
                /\ \A j \in replay[c] : i <= j
                /\ seen' = [seen EXCEPT ![c] = @ \cup {segments[i].t}]
                /\ replay' = [replay EXCEPT ![c] = @ \ {i}]
          /\ UNCHANGED at
       \/ /\ c \in gone \/ replay[c] = {}
          /\ at' = [at EXCEPT ![c] = "live"]
          /\ replay' = [replay EXCEPT ![c] = {}] /\ UNCHANGED seen
    /\ UNCHANGED <<active, raw, pull, segments, gone, connections, want,
                   overlap, hidden, faults, since>>

\* The client closes its side at any time.
Leave(c) ==
    /\ at[c] \notin {"away", "closed"} /\ c \notin gone
    /\ Fault
    /\ gone' = gone \cup {c}
    /\ UNCHANGED <<active, raw, pull, segments, at, connections, want,
                   replay, seen, overlap, hidden, since>>

\* receive_text raises.
Disconnect(c) ==
    /\ at[c] = "live" /\ c \in gone
    /\ Close({c})
    /\ connections' = connections \ {c}
    /\ UNCHANGED <<active, raw, pull, segments, overlap, faults, since>>

\* The process ends and is restarted: its clients are closed, a text in hand comes
\* again, and no session is active.
Crash ==
    /\ Fault
    /\ pull' = NoPull
    /\ raw' = [t \in Ids |-> IF raw[t] = "out" THEN "again" ELSE raw[t]]
    /\ Close({c \in Clients : at[c] # "away"})
    /\ connections' = {}
    /\ Becomes(NoSession)
    /\ UNCHANGED <<segments, overlap>>
-----------------------------------------------------------------------------
Init ==
    /\ active = NoSession
    /\ raw = [t \in Ids |-> "none"]
    /\ pull = NoPull /\ segments = <<>>
    /\ at = [c \in Clients |-> "away"] /\ gone = {} /\ connections = {}
    /\ want = [c \in Clients |-> NoSession] /\ replay = [c \in Clients |-> {}]
    /\ seen = [c \in Clients |-> {}]
    /\ faults = 0 /\ overlap = FALSE /\ hidden = [c \in Clients |-> NoText]
    /\ since = [t \in Ids |-> {}]

PullLoop == \/ \E t \in Ids : Fetch(t)
            \/ \E c \in Clients : SendTo(c)
            \/ Broadcasted
            \/ Stored

Endpoint(c) == \/ Connect(c) \/ Accepted(c) \/ Greeted(c) \/ Query(c)
               \/ Replay(c) \/ Disconnect(c)

Next == \/ SessionChange \/ PullLoop \/ SlowBroadcast \/ Crash
        \/ \E t \in Ids : Speak(t)
        \/ \E c \in Clients : Endpoint(c) \/ Leave(c)

Spec == Init /\ [][Next]_vars

-----------------------------------------------------------------------------
\* Every variable has its type, and what is delivered is in hand until it is
\* acknowledged or due again.
TypeOK ==
    /\ active \in Sessions \cup {NoSession}
    /\ raw \in [Ids -> {"none", "new", "out", "again", "acked"}]
    /\ pull.at \in {"idle", "send", "store"} /\ pull.to \subseteq Clients
    /\ pull.at # "idle" => pull.t \in Ids /\ raw[pull.t] \in {"out", "again"}
    /\ \A t \in Ids : raw[t] = "out" => pull.at # "idle" /\ pull.t = t
    /\ pull.at = "store" <=> pull.s \in Sessions
    /\ segments \in Seq([t : Ids, s : Sessions])
    /\ at \in [Clients -> {"away", "accept", "greet", "query", "replay", "live", "closed"}]
    /\ gone \subseteq Clients /\ connections \subseteq Clients
    /\ want \in [Clients -> Sessions \cup {NoSession}]
    /\ replay \in [Clients -> SUBSET DOMAIN segments] /\ seen \in [Clients -> SUBSET Ids]
    /\ faults \in 0 .. MaxFaults /\ overlap \in BOOLEAN
    /\ hidden \in [Clients -> Ids \cup {NoText}]
    /\ since \in [Ids -> SUBSET (Sessions \cup {NoSession})]

\* The limit on WebSocket clients is kept, whoever comes, leaves or dies on the way,
\* unless a client passes the check while another one is being accepted.
LimitKept == ~overlap => Cardinality(connections) <= MAX_WS_CONNECTIONS

\* A client that was replayed its session misses nothing that is stored of it, but for
\* the text that was being broadcast when the client came.
ReplayComplete ==
    \A c \in Clients, i \in DOMAIN segments :
        at[c] = "live" /\ c \notin gone /\ segments[i].s = want[c]
            => segments[i].t \in seen[c] \cup {hidden[c]}

\* A text is stored once, and again only for a call that failed, a slow broadcast or
\* the end of the process between its commit and its ack.
StoredOnce ==
    \A t \in Ids :
        Cardinality({i \in DOMAIN segments : segments[i].t = t}) <= 1 + faults

StoredTexts == {segments[i].t : i \in DOMAIN segments}

\* Whatever happens to the active session while a text is under way: the text is stored
\* only under a session that was active at some time since it was published, and a final
\* text that is acknowledged is stored, unless at some time since then no session was
\* active, or the statement fails.
FiledInTime ==
    [][\A t \in Ids :
          /\ \A i \in DOMAIN segments' \ DOMAIN segments :
                segments'[i].t = t => segments'[i].s \in since[t]
          /\ Texts[t] /\ raw[t] # "acked" /\ raw'[t] = "acked"
                => t \in StoredTexts' \/ NoSession \in since[t] \/ faults' > faults]_vars
=============================================================================
