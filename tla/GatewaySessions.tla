--------------------------- MODULE GatewaySessions ---------------------------
(***************************************************************************)
(* The sessions of the api-gateway (services/api-gateway): the session it  *)
(* believes active, which follows the lifecycle events of the              *)
(* audio-producer and, after a restart, the KV key "current"; the rows it  *)
(* keeps in SQLite; and the requests and jobs that change them.            *)
(*                                                                         *)
(* Its tasks share _active_session_id and the database, and an action is   *)
(* what lies between two awaits.  A statement of the database, or a read   *)
(* of the key, takes effect in one step and is answered in a later one.    *)
(* The audio-producer appears as its clients see it: it writes the key,    *)
(* and tells of it afterwards.                                             *)
(***************************************************************************)
EXTENDS Integers, Sequences, FiniteSets

CONSTANTS
    MaxSessions,              \* bound: session ids handed out
    SESSION_RETENTION_COUNT,  \* completed sessions that are kept
    ByAge,                    \* SESSION_RETENTION_DAYS is set as well
    MaxFaults                 \* bound: lost events, failing statements, ids used
                              \* twice, times the gateway ends

ASSUME LimitsAssumption ==
    /\ {MaxSessions, MaxFaults} \subseteq Nat
    /\ SESSION_RETENTION_COUNT \in Nat \ {0} /\ ByAge \in BOOLEAN

Ids  == 1 .. MaxSessions
NoId == 0
Key  == [id : Ids \cup {NoId}, label : Ids \cup {NoId}]
NoKey == [id |-> NoId, label |-> NoId]

VARIABLES
    \* the audio-producer
    newest, running,  \* the latest session id, and that of the running session
    telling,          \* the event it has still to publish, or <<>>
    \* NATS
    key,     \* "current": a session, and the session a rename took its label from
    events,  \* the gateway's subscription to system.session
    \* the gateway
    stage,   \* lifespan: "down", "connecting", "subscribed", "serving"
    active,  \* _active_session_id
    handles, \* app.state.session_kv is set
    kv,      \* _kv_connect: [at : "connect", "reply" or "done", read : id]
    handler, \* _handle_session_db: [at : "idle", "write" or "return", ev]
    listing, \* list_sessions: [on, keep : the session that is not orphaned]
    rename,  \* rename_session: [at : "idle", "check" or "put", id, read : a key]
    purge,   \* _run_session_retention: [at : "idle", "select" or "delete",
             \* ids : too many, old : too old]
    \* the database
    rows,    \* id -> "none", "open", or stopped_at: "stopped", "interrupted"
    \* bound and observers
    faults,
    missed,  \* the gateway cannot know of an event
    crossed, \* a session came or went under a rename
    unheard  \* sessions taken from the key at a start, or purged

producer == <<newest, running, telling>>
requests == <<listing, rename>>
observed == <<missed, crossed, unheard>>
vars == <<producer, key, events, stage, active, handles, kv, handler, requests,
          purge, rows, faults, observed>>

Fault == faults < MaxFaults /\ faults' = faults + 1
Idle  == [at |-> "idle", ev |-> <<>>]
NoRename  == [at |-> "idle", id |-> NoId, read |-> NoKey]
NoListing == [on |-> FALSE, keep |-> NoId]
NoPurge   == [at |-> "idle", ids |-> {}, old |-> {}]
-----------------------------------------------------------------------------
(* The audio-producer.                                                     *)

\* A rename that is under way when the session changes has read another key.
Crossing == crossed' = (crossed \/ rename.at = "put")

\* _start_session: ids are the time in seconds, so a quick restart repeats one.
ProducerStart ==
    /\ running = NoId /\ telling = <<>>
    /\ \/ newest < MaxSessions /\ newest' = newest + 1 /\ UNCHANGED faults
       \/ newest # NoId /\ UNCHANGED newest /\ Fault
    /\ running' = newest'
    /\ key' = [id |-> newest', label |-> NoId]
    /\ telling' = <<"started", newest'>>
    /\ Crossing
    /\ UNCHANGED <<events, stage, active, handles, kv, handler, requests, purge,
                   rows, missed, unheard>>

\* _stop_session.
ProducerStop ==
    /\ running # NoId /\ telling = <<>>
    /\ running' = NoId
    /\ key' = NoKey
    /\ telling' = <<"stopped", running>>
    /\ Crossing
    /\ UNCHANGED <<newest, events, stage, active, handles, kv, handler, requests,
                   purge, rows, faults, missed, unheard>>

Subscribed == stage \in {"subscribed", "serving"}

\* The event is published on core NATS: who is not subscribed misses it.
Tell ==
    /\ telling # <<>>
    /\ telling' = <<>>
    /\ \/ Subscribed /\ events' = Append(events, telling) /\ UNCHANGED <<faults, missed>>
       \/ ~Subscribed /\ missed' = TRUE /\ UNCHANGED <<events, faults>>
       \/ Subscribed /\ Fault /\ missed' = TRUE /\ UNCHANGED events
    /\ UNCHANGED <<newest, running, key, stage, active, handles, kv, handler,
                   requests, purge, rows, crossed, unheard>>
-----------------------------------------------------------------------------
(* lifespan.                                                               *)

\* The tasks of the transcripts and of the KV store are created first.
Boot ==
    /\ stage = "down"
    /\ stage' = "connecting"
    /\ kv' = [at |-> "connect", read |-> NoId]
    /\ missed' = FALSE
    /\ UNCHANGED <<producer, key, events, active, handles, handler, requests,
                   purge, rows, faults, crossed, unheard>>

\* Then come the subscriptions, and the first run of the retention.
Subscribe ==
    /\ stage = "connecting"
    /\ stage' = "subscribed"
    /\ purge' = [NoPurge EXCEPT !.at = "select"]
    /\ UNCHANGED <<producer, key, events, active, handles, kv, handler, requests,
                   rows, faults, observed>>

\* Last, the handles are set to None, whatever _kv_connect has found.
Serve ==
    /\ stage = "subscribed" /\ purge.at = "idle"
    /\ stage' = "serving"
    /\ handles' = FALSE
    /\ UNCHANGED <<producer, key, events, active, kv, handler, requests, purge,
                   rows, faults, observed>>

\* _kv_connect: the buckets are there, and "current" is read, which makes up for
\* missed events if it names a session and no older event is still to be handled.
KvConnect ==
    /\ stage # "down" /\ kv.at = "connect"
    /\ handles' = TRUE
    /\ kv' = [at |-> "reply", read |-> key.id]
    /\ missed' = \/ key.id # running
                 \/ missed /\ (key.id = NoId \/ events # <<>> \/ handler.at # "idle")
    /\ UNCHANGED <<producer, key, events, stage, active, handler, requests, purge,
                   rows, faults, crossed, unheard>>

\* Mutant: a restart does not recover the session.
KvForgets == /\ kv.at = "reply"
             /\ kv' = [kv EXCEPT !.at = "done"]
             /\ UNCHANGED <<producer, key, events, stage, active, handles, handler,
                            requests, purge, rows, faults, observed>>

\* An active session is recovered; the read may fail, or be older than an event.
KvReply ==
    /\ kv.at = "reply"
    /\ kv' = [kv EXCEPT !.at = "done"]
    /\ \/ /\ kv.read # NoId
          /\ active' = kv.read
          /\ unheard' = unheard \cup {kv.read}
          /\ UNCHANGED <<faults, missed>>
       \/ kv.read = NoId /\ UNCHANGED <<active, faults, missed, unheard>>
       \/ kv.read # NoId /\ Fault /\ missed' = TRUE /\ UNCHANGED <<active, unheard>>
    /\ UNCHANGED <<producer, key, events, stage, handles, handler, requests, purge,
                   rows, crossed>>

\* The process ends; the database stays.
Crash ==
    /\ stage # "down" /\ Fault
    /\ stage' = "down"
    /\ events' = <<>> /\ active' = NoId /\ handles' = FALSE
    /\ kv' = [at |-> "done", read |-> NoId] /\ handler' = Idle
    /\ listing' = NoListing /\ rename' = NoRename /\ purge' = NoPurge
    /\ UNCHANGED <<producer, key, rows, observed>>
-----------------------------------------------------------------------------
(* _on_session_event and _handle_session_db.                               *)

\* Mutant: the session is active before its row is written.
TakeAndActivate ==
    /\ Subscribed /\ handler.at = "idle" /\ events # <<>>
    /\ events' = Tail(events)
    /\ handler' = [at |-> "write", ev |-> Head(events)]
    /\ active' = IF Head(events)[1] = "started" THEN Head(events)[2] ELSE NoId
    /\ UNCHANGED <<producer, key, stage, handles, kv, requests, purge, rows, faults,
                   observed>>

TakeEvent ==
    /\ Subscribed /\ handler.at = "idle" /\ events # <<>>
    /\ events' = Tail(events)
    /\ handler' = [at |-> "write", ev |-> Head(events)]
    /\ UNCHANGED <<producer, key, stage, active, handles, kv, requests, purge,
                   rows, faults, observed>>

\* Mutant: an event without a time closes a row with the empty text.
WithoutTime(event, s) ==
    [rows EXCEPT ![s] = IF event = "started" /\ @ = "none" THEN "open"
                        ELSE IF event = "stopped" /\ @ # "none" THEN "" ELSE @]

\* Mutant: a stop closes open rows only.
OnlyOpen(event, s) ==
    [rows EXCEPT ![s] = IF event = "started" /\ @ = "none" THEN "open"
                        ELSE IF event = "stopped" /\ @ = "open" THEN "stopped" ELSE @]

\* A new session gets a row, unless it has one; a stopped one is closed.
Recorded(event, s) ==
    [rows EXCEPT ![s] = IF event = "started" /\ @ = "none" THEN "open"
                        ELSE IF event = "stopped" /\ @ # "none" THEN "stopped" ELSE @]

\* The statement is committed, or raises, which ends the handler.
WriteEvent ==
    /\ handler.at = "write"
    /\ \/ /\ rows' = Recorded(handler.ev[1], handler.ev[2])
          /\ handler' = [handler EXCEPT !.at = "return"]
          /\ UNCHANGED <<faults, missed>>
       \/ /\ Fault /\ missed' = TRUE /\ handler' = Idle /\ UNCHANGED rows
    /\ UNCHANGED <<producer, key, events, stage, active, handles, kv, requests,
                   purge, crossed, unheard>>

\* Only then the active session changes.  A read of the key that is answered later
\* brings back a session that has stopped.
ReturnEvent ==
    /\ handler.at = "return"
    /\ handler' = Idle
    /\ active' = IF handler.ev[1] = "started" THEN handler.ev[2] ELSE NoId
    /\ missed' = (missed \/ (kv.at = "reply" /\ handler.ev[1] = "stopped"))
    /\ UNCHANGED <<producer, key, events, stage, handles, kv, requests, purge,
                   rows, faults, crossed, unheard>>
-----------------------------------------------------------------------------
(* The requests of administrators.                                         *)

\* list_sessions closes what is open and, when the request came, was not active.
List ==
    /\ stage = "serving" /\ ~listing.on
    /\ listing' = [on |-> TRUE, keep |-> active]
    /\ UNCHANGED <<producer, key, events, stage, active, handles, kv, handler,
                   rename, purge, rows, faults, observed>>

CloseOrphans ==
    /\ listing.on
    /\ listing' = NoListing
    /\ rows' = [s \in Ids |-> IF rows[s] = "open" /\ s # listing.keep
                              THEN "interrupted" ELSE rows[s]]
    /\ UNCHANGED <<producer, key, events, stage, active, handles, kv, handler,
                   rename, purge, faults, observed>>

\* rename_session: the row first,
RenameRow(s) ==
    /\ stage = "serving" /\ rename.at = "idle" /\ rows[s] # "none"
    /\ rename' = [NoRename EXCEPT !.at = "check", !.id = s]
    /\ UNCHANGED <<producer, key, events, stage, active, handles, kv, handler,
                   listing, purge, rows, faults, observed>>

\* Mutant: the key is rewritten whichever session was renamed.
AnySession(s) == handles /\ key.id # NoId

\* then, for the active session, the key is read
Rewrites(s) == s = active /\ handles /\ key.id # NoId

RenameCheck ==
    /\ rename.at = "check"
    /\ \/ /\ Rewrites(rename.id)
          /\ rename' = [rename EXCEPT !.at = "put", !.read = key]
          /\ crossed' = (crossed \/ active # key.id)
       \/ ~Rewrites(rename.id) /\ rename' = NoRename /\ UNCHANGED crossed
    /\ UNCHANGED <<producer, key, events, stage, active, handles, kv, handler,
                   listing, purge, rows, faults, missed,
                   unheard>>

\* and written back with the new label.
RenamePut ==
    /\ rename.at = "put"
    /\ key' = [rename.read EXCEPT !.label = rename.id]
    /\ rename' = NoRename
    /\ UNCHANGED <<producer, events, stage, active, handles, kv, handler,
                   listing, purge, rows, faults, observed>>
-----------------------------------------------------------------------------
(* _run_session_retention.                                                 *)

Completed == {s \in Ids : rows[s] \in {"stopped", "interrupted"}}

\* Mutant: the sessions are sorted the wrong way round.
KeepOldest == {s \in Completed :
                 Cardinality({r \in Completed : r < s}) >= SESSION_RETENTION_COUNT}

\* All but the newest are too many.
TooMany == {s \in Completed :
              Cardinality({r \in Completed : r > s}) >= SESSION_RETENTION_COUNT}

\* Any completed session may have become too old, the newest one, too.
TooOld(cutoff) == {s \in Completed : ByAge /\ s < cutoff}

DailyPurge ==
    /\ stage = "serving" /\ purge.at = "idle"
    /\ purge' = [NoPurge EXCEPT !.at = "select"]
    /\ UNCHANGED <<producer, key, events, stage, active, handles, kv, handler,
                   requests, rows, faults, observed>>

PurgeSelect ==
    /\ purge.at = "select"
    /\ \E cutoff \in 1 .. MaxSessions + 1 :
          purge' = IF TooMany \cup TooOld(cutoff) = {} THEN NoPurge
                   ELSE [at |-> "delete", ids |-> TooMany, old |-> TooOld(cutoff)]
    /\ UNCHANGED <<producer, key, events, stage, active, handles, kv, handler,
                   requests, rows, faults, observed>>

\* Segments and rows go in one transaction, or it fails.
PurgeDelete ==
    /\ purge.at = "delete"
    /\ purge' = NoPurge
    /\ \/ /\ rows' = [s \in Ids |-> IF s \in purge.ids \cup purge.old THEN "none" ELSE rows[s]]
          /\ unheard' = unheard \cup purge.ids \cup purge.old
          /\ UNCHANGED faults
       \/ Fault /\ UNCHANGED <<rows, unheard>>
    /\ UNCHANGED <<producer, key, events, stage, active, handles, kv, handler,
                   requests, missed, crossed>>
-----------------------------------------------------------------------------
Init ==
    /\ newest = NoId /\ running = NoId /\ telling = <<>>
    /\ key = NoKey /\ events = <<>>
    /\ stage = "down" /\ active = NoId /\ handles = FALSE
    /\ kv = [at |-> "done", read |-> NoId] /\ handler = Idle
    /\ listing = NoListing /\ rename = NoRename /\ purge = NoPurge
    /\ rows = [s \in Ids |-> "none"]
    /\ faults = 0
    /\ missed = FALSE /\ crossed = FALSE /\ unheard = {}

Producer  == ProducerStart \/ ProducerStop \/ Tell
Lifespan  == Subscribe \/ Serve
KvTask    == KvConnect \/ KvReply
Handler   == TakeEvent \/ WriteEvent \/ ReturnEvent
Retention == DailyPurge \/ PurgeSelect \/ PurgeDelete
Requests  == \/ List \/ CloseOrphans
             \/ (\E s \in Ids : RenameRow(s)) \/ RenameCheck \/ RenamePut

Next == Producer \/ Boot \/ Lifespan \/ KvTask \/ Crash \/ Handler \/ Retention \/ Requests

Spec == Init /\ [][Next]_vars
-----------------------------------------------------------------------------
Told  == {"started", "stopped"} \X Ids
Event == Told \cup {<<>>}

ProducerOK == /\ newest \in Ids \cup {NoId} /\ running \in {NoId, newest}
              /\ telling \in Event /\ key \in Key
EventsOK   == /\ events \in Seq(Told) /\ handles \in BOOLEAN
              /\ stage \in {"down", "connecting", "subscribed", "serving"}
BeliefOK   == /\ active \in Ids \cup {NoId}
              /\ kv \in [at : {"connect", "reply", "done"}, read : Ids \cup {NoId}]
HandlerOK  == /\ handler \in [at : {"idle", "write", "return"}, ev : Event]
              /\ handler.at = "idle" <=> handler.ev = <<>>
RequestsOK == /\ listing \in [on : BOOLEAN, keep : Ids \cup {NoId}]
              /\ rename \in [at : {"idle", "check", "put"}, id : Ids \cup {NoId}, read : Key]
              /\ purge \in [at : {"idle", "select", "delete"}, ids : SUBSET Ids, old : SUBSET Ids]
StoreOK    == /\ rows \in [Ids -> {"none", "open", "stopped", "interrupted"}]
              /\ faults \in 0 .. MaxFaults /\ unheard \subseteq Ids
              /\ missed \in BOOLEAN /\ crossed \in BOOLEAN

\* Every variable has its type, and an idle handler remembers nothing.
TypeOK == ProducerOK /\ EventsOK /\ BeliefOK /\ HandlerOK /\ RequestsOK /\ StoreOK

\* No event is on its way, and the start-up has read the key.
Settled == /\ Subscribed /\ kv.at = "done" /\ handler.at = "idle"
           /\ events = <<>> /\ telling = <<>>

\* The session that the gateway believes active is the running one, also after a
\* restart in the middle of it, unless an event was lost or its write failed, the key
\* was wrong or unreadable, or a stop was handled between the read of the key and its
\* answer (_kv_connect against _on_session_event).
ActiveAgrees == Settled /\ ~missed => active = running

\* The session that segments are filed under is listed: a session becomes active only
\* when its row is committed, so only one that was taken from the key at a start, or
\* was purged since, can be active without a row.
ActiveListed == active # NoId /\ rows[active] = "none" => active \in unheard

\* A rename leaves the key alone, or gives it the label of its own session, unless a
\* session started or stopped while it held the key's old value.
RenameStays == ~crossed => key.id \in {NoId, running} /\ key.label \in {NoId, key.id}

\* Retention by count never deletes the running session, not even one that was closed
\* as interrupted by mistake or whose id was used before, and however long ago it was
\* selected.  Retention by age does: it looks at the start of a session only, so one
\* that was closed by mistake and goes on for SESSION_RETENTION_DAYS loses its row.
CountSparesRunning ==
    [][\A s \in Ids : rows[s] # "none" /\ rows'[s] = "none" /\ s = running
          => s \in purge.old /\ rows[s] # "open"]_vars

\* Without a fault every session that has ended has a row with its end, or never had
\* one: a row that list_sessions closed by mistake is corrected when the stop comes.
RowsAgree == Settled /\ faults = 0 =>
                \A s \in 1 .. newest : s = running \/ rows[s] \in {"none", "stopped"}

\* The handles of the KV buckets, once found, are used: _kv_connect fills in what
\* starts as None.
HandlesFound == stage = "serving" /\ kv.at = "done" => handles
=============================================================================
