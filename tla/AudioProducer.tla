---------------------------- MODULE AudioProducer ----------------------------
(***************************************************************************)
(* The audio-producer service (services/audio-producer): the IDLE/ACTIVE   *)
(* session state machine, driven by three kinds of asyncio task that share *)
(* its memory.                                                             *)
(*                                                                         *)
(*   "ctrl"   _session_control_loop: start and stop commands               *)
(*   "audio"  _audio_loop: publishes chunks, stops a session on silence    *)
(*   flush    one _flush_preroll task for each session it starts           *)
(*                                                                         *)
(* A task runs alone from one await to the next, so an action is what lies *)
(* between two awaits.  A request to NATS takes effect at the server when  *)
(* it is issued (one connection, served in order) and is answered later:   *)
(* pc says what a task awaits and reply says how the answer comes.         *)
(* Requests to one stream are answered in the order they were issued; a    *)
(* lost answer (timeout, reconnect) ends the wait at any time.             *)
(*                                                                         *)
(* A session id is the number of the start that made it: two starts in     *)
(* the same second, which share an id, are left out.  Time is left out     *)
(* too, except where a comment names the delay that a guard stands for;    *)
(* sessions follow one another within the six minutes PRE_BUFFER keeps.    *)
(***************************************************************************)
EXTENDS Integers

CONSTANTS
    MaxSessions,    \* bound: sessions started
    MaxCommands,    \* bound: commands published on session.control
    MaxFaults,      \* bound: calls to NATS that are lost
    MaxOutages,     \* bound: boots that find the KV buckets unavailable
    MaxCrashes,     \* bound: times the process ends
    Levels,         \* what the microphone may hear: "loud", "silent"
    Timeouts,       \* values of silence_timeout_s an operator may set, in chunks
    DefaultTimeout  \* _DEFAULT_SILENCE_TIMEOUT_S, in chunks

Bounds == {MaxSessions, MaxCommands, MaxFaults, MaxOutages, MaxCrashes}

ASSUME BoundsAssumption   == Bounds \subseteq Nat
ASSUME LevelsAssumption   == Levels \subseteq {"loud", "silent"}
ASSUME TimeoutsAssumption == Timeouts \subseteq Nat \ {0}
ASSUME DefaultAssumption  == DefaultTimeout \in Nat \ {0}

None == 0                          \* Python's None: no session
Ids  == 1 .. MaxSessions
Eras == 0 .. MaxSessions           \* audio captured after so many starts

VARIABLES
    \* the process
    up,          \* the process runs
    kv_ready,    \* _session_kv is not None
    session_id,  \* session_id; is_active is session_id # None
    silence,     \* silence_samples, in chunks
    timeout,     \* silence_timeout_s, in chunks
    pc,          \* task -> what it awaits
    held,        \* task -> the local session_id of the call it is in
    reply,       \* task -> "due", "behind" the other task's reply, or "lost"
    flush,       \* session -> state of its _flush_preroll task
    unread,      \* session -> eras its flush consumer has yet to deliver
    \* NATS
    cmd,         \* the one message SESSION_STREAM retains
    kv,          \* key "current" of the bucket session_state
    live,        \* session -> what audio.live.<session> ends with
    backfill,    \* session -> eras copied to audio.backfill.<session>
    preroll,     \* eras held by PRE_BUFFER
    \* observers
    announced,   \* session the last system.session event leaves active
    lastSid,     \* newest session id
    quiet,       \* silent chunks in a row, of this session, acknowledged
    faults, outages, crashes, commands

memory   == <<kv_ready, session_id, silence, timeout>>
tasks    == <<pc, held, reply>>
flushes  == <<flush, unread>>
nats     == <<cmd, kv, live, backfill, preroll>>
counters == <<outages, crashes, commands>>
vars == <<up, memory, tasks, flushes, nats, announced, lastSid, quiet, faults,
          counters>>

Tasks    == {"ctrl", "audio"}
Commands == {"start", "stop"}
NoCmd    == [kind |-> "none", delivered |-> FALSE]

is_active == session_id # None

\* Sessions started: an id is taken before the await that precedes activation.
Started == IF pc["ctrl"] = "put" THEN lastSid - 1 ELSE lastSid
-----------------------------------------------------------------------------
(* Calls to NATS.                                                          *)

Home(a)  == IF a = "ctrl" THEN "fetch" ELSE "read"
Other(a) == IF a = "ctrl" THEN "audio" ELSE "ctrl"

SameStream(p, q) == \/ {p, q} \subseteq {"live", "eos"}      \* AUDIO_STREAM
                    \/ {p, q} \subseteq {"put", "delete"}    \* KV_session_state

\* Task a moves to p, with reply r; whoever waited behind a's reply is next.
Goto(a, p, r) ==
    /\ pc' = [pc EXCEPT ![a] = p]
    /\ reply' = [b \in Tasks |-> IF b = a THEN r
                                 ELSE IF reply[b] = "behind" THEN "due"
                                 ELSE reply[b]]

Fault == faults < MaxFaults /\ faults' = faults + 1

\* Task a issues a request and awaits it at p.  A lost request may or may not
\* have been stored; one that is answered has been.
Call(a, p, stored) ==
    \/ /\ stored
       /\ Goto(a, p, IF /\ SameStream(p, pc[Other(a)])
                        /\ reply[Other(a)] # "lost" THEN "behind" ELSE "due")
       /\ UNCHANGED faults
    \/ /\ Fault
       /\ Goto(a, p, "lost")

Awaits(a, p) == up /\ pc[a] = p /\ reply[a] # "behind"

\* Publish on a live subject, whose state tells whether the EOS marker is there
\* and whether audio follows it.
AppendChunk(s) ==
    [live EXCEPT ![s] = IF @ \in {"empty", "audio"} THEN "audio" ELSE "trailing"]

\* Mutant: a marker without its LiveSTT-EOS header.
AppendBareEos(s) == AppendChunk(s)

AppendEos(s) == [live EXCEPT ![s] = IF @ = "trailing" THEN @ ELSE "closed"]
HasEos(s)    == live[s] \in {"closed", "trailing"}

\* The end of a handler: the control task acks command c.  An ack may get lost
\* on its way, or raise, which nothing catches: the control loop is over.
Return(a, c) ==
    LET acked == IF a = "ctrl" /\ c.delivered THEN NoCmd ELSE c
    IN  \/ Goto(a, Home(a), "due") /\ cmd' = acked
        \/ faults' # faults /\ Goto(a, Home(a), "due") /\ cmd' = c
        \/ faults' # faults /\ a = "ctrl" /\ Goto(a, "dead", "due") /\ cmd' = c

\* The lifecycle event that names s as the running session (core NATS, fire and
\* forget), then the end of the handler.
Finish(a, s, c) ==
    /\ held' = [held EXCEPT ![a] = None]
    /\ \/ announced' = s /\ UNCHANGED faults
       \/ announced' \in {announced, s} /\ Fault
    /\ Return(a, c)
-----------------------------------------------------------------------------
(* Starting a session.                                                     *)

Fetched(k) == up /\ pc["ctrl"] = "fetch" /\ cmd.kind = k
Delivered  == [cmd EXCEPT !.delivered = TRUE]

\* Mutant: _start_session called whatever the state.
StartServedAnyway == Fetched("start") /\ lastSid < MaxSessions

StartServed == Fetched("start") /\ ~is_active /\ lastSid < MaxSessions

\* _start_session up to the KV write it awaits.
StartSession ==
    /\ StartServed /\ kv_ready
    /\ lastSid' = lastSid + 1
    /\ held' = [held EXCEPT !["ctrl"] = lastSid + 1]
    /\ cmd' = Delivered
    /\ \E stored \in BOOLEAN :
          /\ Call("ctrl", "put", stored)
          /\ kv' = IF stored THEN lastSid + 1 ELSE kv
    /\ UNCHANGED <<up, memory, flushes, live, backfill, preroll,
                   announced, quiet, counters>>

\* The KV write returned, or failed and was logged: the session is active while
\* the silence timeout is read.  The silence counter still holds its old value.
PutReply ==
    /\ Awaits("ctrl", "put")
    /\ session_id' = held["ctrl"]
    /\ timeout' = DefaultTimeout
    /\ quiet' = 0
    /\ Goto("ctrl", "config", "due")
    /\ UNCHANGED <<up, kv_ready, silence, held, flushes, nats,
                   announced, lastSid, faults, counters>>

\* Mutant: the new session goes on counting where the last one ended.
CountCarried == silence

\* silence_samples of a session that begins.
CountReset == 0

\* The timeout is the operator's, or the default when the key cannot be read.
ConfigReply ==
    /\ Awaits("ctrl", "config")
    /\ timeout' \in Timeouts \cup {DefaultTimeout}
    /\ silence' = CountReset
    /\ flush' = [flush EXCEPT ![held["ctrl"]] = "subscribe"]
    /\ Finish("ctrl", held["ctrl"], cmd)
    /\ UNCHANGED <<up, kv_ready, session_id, unread, kv, live, backfill,
                   preroll, lastSid, quiet, counters>>

\* _start_session of a process without KV buckets awaits nothing.
StartWithoutKv ==
    /\ StartServed /\ ~kv_ready
    /\ lastSid' = lastSid + 1
    /\ session_id' = lastSid + 1
    /\ timeout' = DefaultTimeout
    /\ silence' = CountReset
    /\ quiet' = 0
    /\ flush' = [flush EXCEPT ![lastSid + 1] = "subscribe"]
    /\ Finish("ctrl", lastSid + 1, Delivered)
    /\ UNCHANGED <<up, kv_ready, unread, kv, live, backfill, preroll,
                   counters>>

\* A start while active and a stop while idle are only acknowledged.
IgnoreCommand ==
    /\ \/ Fetched("start") /\ is_active
       \/ Fetched("stop") /\ ~is_active
    /\ UNCHANGED faults \/ Fault
    /\ Return("ctrl", Delivered)
    /\ UNCHANGED <<up, memory, held, flushes, kv, live, backfill, preroll,
                   announced, lastSid, quiet, counters>>
-----------------------------------------------------------------------------
(* Stopping a session: _stop_session, called by both tasks.                *)

\* Mutant: the key is left in place.
KeptKv(stored) == kv

ClearedKv(stored) == IF stored THEN None ELSE kv

\* Steps 2 to 4: go idle, then delete the KV entry.  Neither looks at the
\* session the stop was called for.
GoIdle(a) ==
    /\ session_id' = None
    /\ \/ /\ kv_ready
          /\ \E stored \in BOOLEAN :
                /\ Call(a, "delete", stored)
                /\ kv' = ClearedKv(stored)
          /\ UNCHANGED <<cmd, announced, held>>
       \/ /\ ~kv_ready
          /\ Finish(a, None, cmd)
          /\ UNCHANGED kv

\* Step 1: publish the EOS marker of the session in memory and await it.
PublishEos(a) ==
    /\ is_active
    /\ held' = [held EXCEPT ![a] = session_id]
    /\ \E stored \in BOOLEAN :
          /\ Call(a, "eos", stored)
          /\ live' = IF stored THEN AppendEos(session_id) ELSE live
    /\ UNCHANGED <<session_id, kv, announced>>

StopCommand ==
    /\ Fetched("stop")
    /\ PublishEos("ctrl")
    /\ cmd' = Delivered
    /\ UNCHANGED <<up, kv_ready, silence, timeout, flushes, backfill,
                   preroll, lastSid, quiet, counters>>

\* Mutant: a marker that cannot be published ends the stop.
EosReplyGivesUp(a) ==
    /\ Awaits(a, "eos")
    /\ \/ reply[a] = "due" /\ GoIdle(a)
       \/ /\ reply[a] = "lost"
          /\ Finish(a, session_id, cmd)
          /\ UNCHANGED <<session_id, kv>>
    /\ UNCHANGED <<up, kv_ready, silence, timeout, flushes, live, backfill,
                   preroll, lastSid, quiet, counters>>

EosReply(a) ==
    /\ Awaits(a, "eos")
    /\ GoIdle(a)
    /\ UNCHANGED <<up, kv_ready, silence, timeout, flushes, live,
                   backfill, preroll, lastSid, quiet, counters>>

\* Mutant: the stopped event names the session as a started event would.
DeleteReplyAsStart(a) ==
    /\ Awaits(a, "delete")
    /\ Finish(a, held[a], cmd)
    /\ UNCHANGED <<up, memory, flushes, kv, live, backfill, preroll, lastSid,
                   quiet, counters>>

DeleteReply(a) ==
    /\ Awaits(a, "delete")
    /\ Finish(a, None, cmd)
    /\ UNCHANGED <<up, memory, flushes, kv, live, backfill, preroll,
                   lastSid, quiet, counters>>
-----------------------------------------------------------------------------
(* The audio task.                                                         *)

\* A chunk while idle goes to PRE_BUFFER, where open flush consumers see it;
\* nothing follows the reply.
PrerollChunk ==
    /\ up /\ pc["audio"] = "read" /\ ~is_active
    /\ preroll' = preroll \cup {Started}
    /\ unread' = [s \in Ids |-> IF flush[s] = "copy" THEN unread[s] \cup {Started}
                                ELSE unread[s]]
    /\ UNCHANGED <<up, memory, tasks, flush, cmd, kv, live, backfill,
                   announced, lastSid, quiet, faults, counters>>

\* A chunk while active is published on the live subject and awaited.
LiveChunk ==
    /\ up /\ pc["audio"] = "read" /\ is_active
    /\ held' = [held EXCEPT !["audio"] = session_id]
    /\ \E stored \in BOOLEAN :
          /\ Call("audio", "live", stored)
          /\ live' = IF stored THEN AppendChunk(session_id) ELSE live
    /\ UNCHANGED <<up, memory, flushes, cmd, kv, backfill, preroll, announced,
                   lastSid, quiet, counters>>

\* The publish failed: the chunk is dropped, its silence is not counted.
LiveLost ==
    /\ Awaits("audio", "live") /\ reply["audio"] = "lost"
    /\ Goto("audio", "read", "due")
    /\ held' = [held EXCEPT !["audio"] = None]
    /\ UNCHANGED <<up, memory, flushes, nats, announced, lastSid,
                   quiet, faults, counters>>

\* _check_silence: the counter after the chunk.  Past every timeout its value
\* no longer matters and it stays put.
CountSilence(n, level) ==
    IF level = "loud" THEN 0
    ELSE IF \E t \in Timeouts \cup {DefaultTimeout} : n < t THEN n + 1 ELSE n

TimedOut == silence' >= timeout

\* The publish was acknowledged: count silence and, at the timeout, stop
\* whatever session is in memory by now, even none.
LiveReply ==
    /\ Awaits("audio", "live") /\ reply["audio"] = "due"
    /\ \E level \in Levels :
          /\ silence' = CountSilence(silence, level)
          /\ quiet' = IF held["audio"] = session_id THEN CountSilence(quiet, level)
                      ELSE quiet
    /\ \/ /\ ~TimedOut
          /\ Goto("audio", "read", "due")
          /\ held' = [held EXCEPT !["audio"] = None]
          /\ UNCHANGED <<session_id, cmd, kv, live, announced, faults>>
       \/ /\ TimedOut /\ is_active
          /\ PublishEos("audio")
          /\ UNCHANGED cmd
       \/ /\ TimedOut /\ ~is_active
          /\ GoIdle("audio")
          /\ UNCHANGED live
    /\ UNCHANGED <<up, kv_ready, timeout, flushes, backfill, preroll,
                   lastSid, counters>>
-----------------------------------------------------------------------------
(* _flush_preroll(s).                                                      *)

FlushSubscribe(s) ==
    /\ up /\ flush[s] = "subscribe"
    /\ \/ /\ flush' = [flush EXCEPT ![s] = "copy"]
          /\ unread' = [unread EXCEPT ![s] = preroll]
          /\ UNCHANGED faults
       \/ /\ Fault
          /\ flush' = [flush EXCEPT ![s] = "broken"]
          /\ UNCHANGED unread
    /\ UNCHANGED <<up, memory, tasks, nats, announced, lastSid, quiet, counters>>

\* Copy what is oldest.  A publish that fails ends the copying: the EOS marker
\* comes next, if that publish does not fail as well.
FlushCopy(s) ==
    /\ up /\ flush[s] = "copy" /\ unread[s] # {}
    /\ \/ \E e \in unread[s] :
             /\ \A f \in unread[s] : e <= f
             /\ backfill' = [backfill EXCEPT ![s] = @ \cup {e}]
             /\ unread' = [unread EXCEPT ![s] = @ \ {e}]
             /\ UNCHANGED <<flush, faults>>
       \/ /\ Fault
          /\ flush' \in {[flush EXCEPT ![s] = q] : q \in {"closed", "broken"}}
          /\ unread' = [unread EXCEPT ![s] = {}]
          /\ UNCHANGED backfill
    /\ UNCHANGED <<up, memory, tasks, cmd, kv, live, preroll, announced,
                   lastSid, quiet, counters>>

\* Mutant: a fetch that waits without a timeout.
PrerollNeverQuiet == FALSE

\* A fetch times out after a second without pre-roll.  An idle microphone sends
\* a chunk every 96 ms, so that takes an active session or a stalled audio task.
PrerollQuiet == is_active \/ pc["audio"] # "read"

FlushEnd(s) ==
    /\ up /\ flush[s] = "copy" /\ unread[s] = {}
    /\ \/ /\ PrerollQuiet
          /\ flush' = [flush EXCEPT ![s] = "closed"]
          /\ UNCHANGED faults
       \/ /\ Fault
          /\ flush' \in {[flush EXCEPT ![s] = q] : q \in {"closed", "broken"}}
    /\ UNCHANGED <<up, memory, tasks, unread, nats, announced, lastSid, quiet,
                   counters>>
-----------------------------------------------------------------------------
(* The environment.                                                        *)

\* The gateway or the scheduler publishes a command; the stream keeps only the
\* latest one (max_msgs_per_subject = 1).
Command(k) ==
    /\ commands < MaxCommands
    /\ commands' = commands + 1
    /\ cmd' = [kind |-> k, delivered |-> FALSE]
    /\ UNCHANGED <<up, memory, tasks, flushes, kv, live, backfill, preroll,
                   announced, lastSid, quiet, faults, outages, crashes>>

\* max_age = 60 s: longer than the control task ever leaves a command waiting.
ExpireCommand ==
    /\ cmd.kind # "none"
    /\ ~up \/ pc["ctrl"] = "dead" \/ cmd.delivered
    /\ cmd' = NoCmd
    /\ UNCHANGED <<up, memory, tasks, flushes, kv, live, backfill, preroll,
                   announced, lastSid, quiet, faults, counters>>

\* The process ends: killed, shut down by a signal, or out of audio.
Crash ==
    /\ up /\ crashes < MaxCrashes
    /\ up' = FALSE
    /\ crashes' = crashes + 1
    /\ kv_ready' = FALSE
    /\ session_id' = None
    /\ silence' = 0
    /\ timeout' = DefaultTimeout
    /\ quiet' = 0
    /\ pc' = [a \in Tasks |-> Home(a)]
    /\ held' = [a \in Tasks |-> None]
    /\ reply' = [a \in Tasks |-> "due"]
    /\ flush' = [s \in Ids |-> IF flush[s] \in {"subscribe", "copy"}
                               THEN "broken" ELSE flush[s]]
    /\ unread' = [s \in Ids |-> {}]
    /\ UNCHANGED <<nats, announced, lastSid, faults, outages, commands>>

\* Mutant: a recovered session gets a new id.
RecoveredAnew(ready) == IF ready /\ kv # None THEN lastSid + 1 ELSE None

\* _recover_session: the session that the KV store, if there, names as active.
Recovered(ready) == IF ready THEN kv ELSE None

\* run_business_logic: open the KV buckets, resume the session they name (no
\* flush, no event, the default timeout) and start both loops; a read that
\* fails leaves the process idle, a subscription that fails ends the control
\* loop for good.
Boot ==
    /\ ~up
    /\ up' = TRUE
    /\ \/ kv_ready' = TRUE /\ UNCHANGED outages
       \/ kv_ready' = FALSE /\ outages < MaxOutages /\ outages' = outages + 1
    /\ \/ session_id' = Recovered(kv_ready') /\ UNCHANGED <<pc, faults>>
       \/ /\ Fault
          /\ session_id' \in {Recovered(kv_ready'), None}
          /\ pc' \in {pc, [pc EXCEPT !["ctrl"] = "dead"]}
    /\ UNCHANGED <<silence, timeout, held, reply, flushes, nats,
                   announced, lastSid, quiet, crashes, commands>>
-----------------------------------------------------------------------------
Init ==
    /\ up = FALSE /\ kv_ready = FALSE
    /\ session_id = None /\ silence = 0 /\ timeout = DefaultTimeout
    /\ pc = [a \in Tasks |-> Home(a)]
    /\ held = [a \in Tasks |-> None]
    /\ reply = [a \in Tasks |-> "due"]
    /\ flush = [s \in Ids |-> "none"]
    /\ unread = [s \in Ids |-> {}]
    /\ cmd = NoCmd /\ kv = None /\ preroll = {}
    /\ live = [s \in Ids |-> "empty"]
    /\ backfill = [s \in Ids |-> {}]
    /\ announced = None /\ lastSid = 0 /\ quiet = 0
    /\ faults = 0 /\ outages = 0 /\ crashes = 0 /\ commands = 0

Stop(a)  == EosReply(a) \/ DeleteReply(a)
Control  == \/ StartSession \/ PutReply \/ ConfigReply \/ StartWithoutKv
            \/ IgnoreCommand \/ StopCommand \/ Stop("ctrl")
Answer   == LiveLost \/ LiveReply \/ Stop("audio")
Flush(s) == FlushSubscribe(s) \/ FlushCopy(s) \/ FlushEnd(s)

Next ==
    \/ Control \/ Answer
    \/ PrerollChunk \/ LiveChunk
    \/ \E s \in Ids : Flush(s)
    \/ \E k \in Commands : Command(k)
    \/ ExpireCommand \/ Crash \/ Boot

Spec == Init /\ [][Next]_vars

\* Every await ends (a reply, or the client's timeout) and the event loop
\* schedules every ready task.  Nothing makes the microphone, the operators or
\* a crash happen.
Fairness ==
    /\ WF_vars(Control)
    /\ WF_vars(Answer)
    /\ \A s \in Ids : WF_vars(Flush(s))
    /\ WF_vars(Boot)

FairSpec == Spec /\ Fairness
-----------------------------------------------------------------------------
(* Properties.                                                             *)

CtrlStates  == {"fetch", "put", "config", "eos", "delete", "dead"}
AudioStates == {"read", "live", "eos", "delete"}
StatesOf(a) == IF a = "ctrl" THEN CtrlStates ELSE AudioStates
Replies     == {"due", "behind", "lost"}
LiveStates  == {"empty", "audio", "closed", "trailing"}
FlushStates == {"none", "subscribe", "copy", "closed", "broken"}

CommandMessages == [kind : Commands \cup {"none"}, delivered : BOOLEAN]

TasksOK ==
    /\ pc \in [Tasks -> CtrlStates \cup AudioStates]
    /\ \A a \in Tasks : pc[a] \in StatesOf(a)
    /\ reply \in [Tasks -> Replies]

\* Every variable keeps its type, and no session is named before its start.
TypeOK ==
    /\ up \in BOOLEAN /\ kv_ready \in BOOLEAN
    /\ lastSid \in 0 .. MaxSessions
    /\ session_id \in 0 .. lastSid /\ kv \in 0 .. lastSid
    /\ announced \in 0 .. lastSid
    /\ silence \in Nat /\ quiet \in Nat /\ timeout \in Nat \ {0}
    /\ TasksOK
    /\ held \in [Tasks -> 0 .. lastSid]
    /\ flush \in [Ids -> FlushStates]
    /\ unread \in [Ids -> SUBSET Eras]
    /\ cmd \in CommandMessages
    /\ live \in [Ids -> LiveStates]
    /\ backfill \in [Ids -> SUBSET Eras]
    /\ preroll \in SUBSET Eras
    /\ faults \in 0 .. MaxFaults /\ outages \in 0 .. MaxOutages
    /\ crashes \in 0 .. MaxCrashes /\ commands \in 0 .. MaxCommands

\* A restart resumes what key "current" names: that is never a session older
\* than the newest, unless two calls were lost (a delete and the next put) or
\* the process once ran without its buckets.
KvNamesLatest == faults < 2 /\ outages = 0 => kv \in {None, lastSid}

\* ADR-0015 (section 4): a start while a session is active is ignored.  The
\* guard is read before the KV write is awaited, the session is set after it.
SessionNeverReplaced ==
    [][session_id # None => session_id' \in {session_id, None}]_session_id

\* The service implements the lifecycle its clients rely on.
Lifecycle == INSTANCE SessionLifecycle WITH active <- session_id,
                                            newest <- Started
ImplementsLifecycle == Lifecycle!Spec

\* No session is abandoned: one that started is in memory, or in the KV store
\* for the next process, or about to be activated, or its live stream has the
\* EOS marker that stt-provider and identifier wait for.
Abandoned(s) ==
    /\ s <= lastSid /\ s \notin {session_id, kv} /\ ~HasEos(s)
    /\ ~(pc["ctrl"] = "put" /\ held["ctrl"] = s)
NoSessionAbandoned == faults = 0 /\ outages = 0 => ~\E s \in Ids : Abandoned(s)

\* ADR-0015 (section 3): the KV store is the authority on the session state.
\* With no start and no stop in progress it agrees with the memory.
AtRest == up /\ pc["ctrl"] = "fetch" /\ pc["audio"] \in {"read", "live"}
KvAgrees == AtRest /\ faults = 0 /\ outages = 0 => kv = session_id

\* The last lifecycle event names the session that is active: clients that
\* follow system.session are not left with another one.
AnnouncedAgrees == AtRest /\ faults = 0 /\ crashes = 0 => announced = session_id

\* ADR-0015 (section 5): a session stops by itself only when all the audio of
\* the last silence_timeout_s, published to that session, was silent.  Stated of every
\* session, resumed or not, though one that has a predecessor may count a chunk that
\* was published to it and is acknowledged only now, and, while its timeout is still
\* being read, all that its predecessor counted.
AutoStopEarned ==
    [][/\ pc["audio"] = "live" /\ pc'["audio"] = "eos"
       /\ lastSid = 1 \/ pc["ctrl"] # "config"
       => quiet' + (IF lastSid = 1 THEN 0 ELSE 1) >= timeout]_vars

\* The backfill of the active session was captured before its start, as long as no
\* call was lost: what an idle microphone adds to the flush of a session that was
\* stopped never becomes the backfill of one that runs.
BackfillIsPast ==
    faults = 0 /\ session_id # None => \A e \in backfill[session_id] : e < session_id

Flushing(s) == flush[s] \in {"subscribe", "copy"}

\* A flush ends, with an EOS marker or with a logged failure, if the session it
\* serves, or another one, stays active: stt-provider leaves the backfill phase of a
\* session on that marker only.
FlushEndsWhileActive ==
    \A s \in Ids : Flushing(s) ~> ~Flushing(s) \/ ~is_active

\* A stop command is honoured, unless a later command replaces it, whatever
\* replies are lost on the way.
StopHonoured ==
    cmd.kind = "stop" /\ up ~> ~is_active \/ cmd.kind = "start" \/ pc["ctrl"] = "dead"
=============================================================================
