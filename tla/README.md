# LiveSTT in TLA+

LiveSTT turns the sound of a room into a live transcript with speaker names.  It
is a set of asyncio services that talk over NATS: JetStream streams for audio and
text, key-value buckets for state, and plain subjects for events.  This directory
holds TLA+ modules that model those services, the TLC runs that check them on
small instances, and proofs, checked by TLAPS, of what matters most for every
value of the constants.

## The system

| part | state it keeps | what it does | what makes it correct |
|---|---|---|---|
| audio-producer | `session_id`/`is_active`, `silence_samples`, `silence_timeout_s`; key `current` of bucket `session_state`; streams PRE_BUFFER and AUDIO_STREAM | serves start and stop commands, publishes microphone chunks to pre-roll (idle) or to the live subject (active), stops on silence, flushes the pre-roll into the backfill of a new session, resumes a session after a restart | one session at a time; every session ends with an EOS marker; the key, the memory and the lifecycle events agree; a flush ends; a session is stopped by its own silence only |
| stt-provider | two durable consumers, one Deepgram connection, the tag of the current phase | backfill first, then live, on one connection; publishes `transcript.raw.*` | every chunk reaches Deepgram once, in order, under the right tag; a dropped connection loses nothing; no phase waits for ever |
| identifier | a window buffer per session and lane, a voiceprint table | embeds windows of 1.5 s, publishes `transcript.identity.*`; enrols speakers | windows do not mix sessions; no complete window is lost; a voiceprint is lost by a deletion or a failure only |
| identity-manager | `_pending`, two identity pools | fuses text and identity into `transcript.final.*`, "Unknown" after 3 s | no final transcript is lost; one publication each; the buffers stay bounded |
| api-gateway | `_active_session_id`, KV handles, the database, WebSocket clients, rate limits | follows lifecycle events, stores segments, broadcasts and replays, REST control of sessions, schedules and services, retention | it believes what is so; a session has its row; a segment is stored once, under a session that was active meanwhile; clients miss nothing; the limit on clients holds |
| system-manager | `_last_fired` | fires scheduled starts and stops, controls containers through Docker | a command is fired once a day, a start never after its stop, and one bad round costs none; what a request was answered holds |
| health-watchdog, messaging library | `service_health`, entries with a TTL | a heartbeat per service, and alerts when one is missing | a service that ended is reported, and comes back |
| audio-classifier | nothing but its consumer | classifies chunks | (not modelled) |

The services meet in NATS only.  A command goes `session.control` (SESSION_STREAM,
which keeps one message) → audio-producer → `audio.live.<id>` and
`audio.backfill.<id>` (AUDIO_STREAM) → stt-provider and identifier →
`transcript.raw.*`, `transcript.identity.*` → identity-manager → `transcript.final.*`;
lifecycle events go on `system.session` from the audio-producer to the gateway.  Three
edges differ from the architecture documents: the gateway reads `transcript.raw.>`, not
`transcript.final.>`, so nothing in the repository reads what the identity-manager
publishes; audio-classifier publishes `classification.live`, which the stream subject
`classification.live.>` does not take; and nobody subscribes to `identifier.command`.

What is hard in it: every `await` lets the other tasks of a process run, so state
read before it may be stale after it; a call to NATS may time out with or without
effect; a message that is not acknowledged comes again; any process may die
between two steps and comes back with what the KV store and the streams hold; and
several loops end only when a timeout that others can postpone goes by.

## Modules

| module | models | extends |
|---|---|---|
| `SessionLifecycle` | what clients of the audio-producer may rely on, in four actions | |
| `AudioProducer` | the audio-producer with the part of NATS it uses, and its properties | |
| `AudioProducer_proofs` | the proofs | `AudioProducer`, `TLAPS` |
| `SttProvider` | the session loop against Deepgram, with the two consumers of AUDIO_STREAM, and its properties | |
| `MCSttProvider` | the audio of its runs | `SttProvider` |
| `SttProvider_proofs` | the proofs | `SttProvider`, `TLAPS` |
| `Relay` | an at-least-once stage of the pipeline, in three actions | |
| `IdentityManager` | the Time Zipper with its two consumers, and its properties | |
| `IdentityManager_proofs` | the proofs | `IdentityManager`, `TLAPS` |
| `MCIdentityManager` | the transcripts and identities of its run | `IdentityManager` |
| `Identifier` | both lane workers, their windows and acks, the voiceprint store | |
| `MCIdentifier` | the audio of its run | `Identifier` |
| `Identifier_proofs` | the proofs | `Identifier`, `TLAPS` |
| `GatewaySessions` | the gateway's active session, its rows, start-up, renames, retention | |
| `GatewaySessions_proofs` | the proofs | `GatewaySessions`, `TLAPS` |
| `GatewayTranscripts` | broadcast, storage and replay of transcripts, WebSocket clients | |
| `MCGatewayTranscripts` | the texts of its run, and the symmetry of clients | `GatewayTranscripts` |
| `GatewayTranscripts_proofs` | the proofs | `GatewayTranscripts`, `TLAPS` |
| `Scheduler` | the schedule rounds of the system-manager, with the gateway's table and people | |
| `MCScheduler` | the plans of its run | `Scheduler` |
| `Scheduler_proofs` | the proofs | `Scheduler`, `TLAPS` |
| `Services` | heartbeats, Docker, service control, health-watchdog, the status page | |
| `Services_proofs` | the proofs | `Services`, `TLAPS` |

Modules that compose several services are `Scheduler` (system-manager, gateway,
SESSION_STREAM and what the audio-producer does with a command), `GatewaySessions`
(the producer as its clients see it, and the gateway) and `Services` (BaseService in
every service, the gateway, the system-manager, Docker and the watchdog).

### AudioProducer

Python runs a task alone between two awaits, so one action is what lies between two
awaits.  `pc` says which await each long-lived task is in, `held` its local copy of
`session_id`, `flush` the state of each `_flush_preroll` task.

| code (`audio_producer/main.py`) | model |
|---|---|
| `_handle_control_message`, command "start" | `StartSession` (to the KV put), `PutReply` (to the read of the timeout), `ConfigReply` (to the end, which spawns the flush, publishes the event and acks); `StartWithoutKv` when the buckets could not be opened |
| command "stop", `_check_silence` → `_stop_session` | `PublishEos` (to the EOS publish), `EosReply` (go idle, to the KV delete), `DeleteReply` (event, ack), for both tasks |
| start while active, stop while idle | `IgnoreCommand` |
| `_audio_loop` | `PrerollChunk`, `LiveChunk`, `LiveReply`, `LiveLost` |
| `_flush_preroll` | `FlushSubscribe`, `FlushCopy`, `FlushEnd` |
| `run_business_logic`, `_recover_session` | `Boot`, after `Crash` |
| SESSION_STREAM (`messaging/streams.py`) | `Command`, `ExpireCommand` |

NATS is external and modelled from how the code uses it.  A request takes effect at
the server when it is issued and is answered later; requests of the two tasks to the
same stream are answered in order (`reply[a] = "behind"`); a lost answer ends the
wait at any time, and the request may or may not have been stored (`Call`).  An ack
or a lifecycle event is a plain publish and may be lost; an ack that raises ends the
control loop (`Return`).

Data is cut down to what the properties tell apart.  A session id is the number of
its start.  Audio is the "era" it was captured in, the number of sessions started
before.  A live stream is `empty`, `audio`, `closed` (its EOS marker came last) or
`trailing` (audio follows the marker).  Silence is counted in chunks.  `announced` is
what a subscriber of `system.session` believes, and `quiet` is an observer: the
silent chunks in a row that were published to the running session itself.

### SttProvider

| code (`stt_provider/main.py`) | model |
|---|---|
| `_run_session_loop`, Phase 1 | `Detect`, `Connect` |
| Phases 2 and 3: `_fetch_phase`, `_send_msgs` | `FetchNext`, `AwaitLive`; then `Skip`, `EndOfStream`, or `Send` and `AckSent`; `SendFails`, `Leave` |
| `_flush_backfill` | `Flush` |
| `_close_transcriber` | `Close` |
| `_drain_events` with the adapter's event queue | `Transcribe`, `DrainEnds` |

`phase` is the place of the session loop; a message stays in `hand` from its fetch to
its ack, so a crash, a closing connection or a late answer of Deepgram can come between.
Audio is a message with a session and an EOS flag; one chunk stands for an utterance,
and Deepgram gives one final transcript for it, some time after.  The streams are
scripts that the environment publishes: each lane in its own order, and no session
before the live audio of those before it has ended, as `AudioProducer` does.  Deepgram
closes a connection when it drops (`Drop`, a fault) or when no audio of the session is
left to come (`IdleClose`).  `WellMarked` says what `AudioProducer` publishes when its
flushes do not overlap and no call is lost; `MCSttProvider` assumes it of its scripts.

### IdentityManager

| code (`identity_manager/main.py`) | model |
|---|---|
| `_transcript_subscriber`, final | `FetchFinal`, with the eviction at the cap |
| interim | `FetchInterim` (to the publish), `ForwardReply` (the ack, or the logged failure) |
| `_identity_subscriber` | `Hear` |
| `_find_identity` | `Near`, `Nearest`, `Speaker` |
| `_fusion_loop` | `Round` (the snapshot, to the first publish), `PublishReply` (ack or nak), `NextEntry` (to the next publish or the end of the round, where what is kept goes back in front) |
| the process and its TaskGroup | `Crash`, `Boot` |

`raw` is the state of each transcript at its durable consumer, which is external: new
messages are handed out in order, an unacknowledged one comes again after the ack wait
(`Redeliver`; `RedeliverHeld` while the service still holds it, which takes a call that
timed out), and an acknowledged one does not.  An entry of `pending` is a transcript and
whether it is older than `PUBLISH_TIMEOUT_S`.  Which pool an identity joins follows from
what the identifier puts into its payload (`PayloadSource`).  `final[t]` records each
publication of transcript `t` with its speaker.

### Identifier

| code (`identifier/main.py`, `identifier/store.py`) | model |
|---|---|
| `_worker`, up to the embedding: EOS, `_AudioBuffer.add`, `consume` | `Fetch` with `Discard`, `Added`, `Consumed` |
| embedding and `store.identify`, in threads, with their except branch | `Search` |
| publish, with its except branch | `Publish` |
| `msg.ack`, outside of every try; the TaskGroup | `Ack`, `Ends` |
| `LanceDBVoiceprintStore.enroll`, its delete and its add; `delete` | `Enroll`, `EnrollAdd`; `Delete` |

A window is found as the voice of one of its chunks, if that voice has a row when the
search runs.  `windows` and `lost` are observers: the windows cut so far, and the
voices that were deleted or whose enrolment failed.

### GatewaySessions

| code (`api_gateway/main.py`, `db.py`) | model |
|---|---|
| `lifespan` | `Boot` (creates the tasks), `Subscribe`, `Serve` (where the handles are set to None) |
| `_kv_connect` | `KvConnect` (to the read of the key), `KvReply` |
| `_on_session_event`, `_handle_session_db` | `TakeEvent`, `WriteEvent`, `ReturnEvent` |
| `list_sessions` | `List`, `CloseOrphans` |
| `rename_session` | `RenameRow`, `RenameCheck`, `RenamePut` |
| `_run_session_retention`, its daily task | `PurgeSelect`, `PurgeDelete`; `DailyPurge` |

The audio-producer appears as `ProducerStart`, `ProducerStop` and `Tell`: it writes the
key and tells of it afterwards.  Observers say what the gateway cannot know: `missed`, an
event was lost or its write failed, or the key was read while a stop was handled;
`crossed`, a session came or went while a rename held the key's old value; `unheard`,
sessions taken from the key at a start, or purged.  The properties hold except where
these say so, and that is what they claim.

### GatewayTranscripts

| code (`api_gateway/main.py`) | model |
|---|---|
| `_pull_loop`, `ConnectionManager.broadcast`, `_persist_segment` | `Fetch`, `SendTo` (one client), `Broadcasted`, `Stored` |
| `websocket_endpoint` | `Connect` (the limit), `Accepted`, `Greeted`, `Query` and `Replay` (`_replay_session_transcript`), `Disconnect` |

`SessionChange` is the effect of `GatewaySessions` on the active session: between any
two steps it may become any session or none, an older one included, since a lost event,
a failing write or a late read of the key can put that back.  `since[t]` observes the
sessions that were active since text `t` was published.  `overlap` remembers that a client passed the limit while another
was being accepted, `hidden` the text that was being broadcast when a client joined.
`segments` is the table in the order of its rows, and a replay is the set of positions
in it that the client has still to be sent.

### Scheduler

| code (`system_manager/main.py`; `api_gateway/main.py`) | model |
|---|---|
| `run_business_logic`, `_check_schedules` | `Check`, `Fetched`, `Publish`, `Published`, with `Due`, `Pruned` |
| `_eval_schedule`, `_within_window`, `_fire_start`, `_fire_stop` | `IsDue`, `WithinWindow`, `CommandOf` |
| `create_schedule`, `update_schedule`, `delete_schedule` | `Edit` |
| `session_start`, `session_stop` | `AskStart`, `PublishStart`; `AskStop` |

A day has eight minutes in the run, which is enough for windows of two minutes that
meet, miss each other, or end with the day.  A round may last over any number of
minutes.  `Tick` counts what speed is worth: a minute in which no round begins, since
the last one still waits for a request or a Docker call blocks the process (it sleeps for
30 s otherwise), costs a fault and is counted in `misses`, as is a round whose list
could not be fetched; and a command that the stream drops before the producer read it
costs a fault.  `refused` remembers the commands whose own publish failed.  What a round fires is
settled when the list of schedules arrives (`todo`, a set whose least member in the order
of the loop goes first), soft stops and what was fired before are left out there, and a
crash is counted, because the memory of what was fired ends with the process.

### Services

| code | model |
|---|---|
| `BaseService.start`, `_heartbeat_task` (`messaging/service.py`) | `Connect`, `InitBeat`, `Beat`, `LogicEnds`, `Stopped`; `Age` for the clock |
| `enable_service`, `disable_service`, `restart_service` (gateway) | `Ask`, `GiveUp` |
| `_handle_service_control`, `_require_managed` (`system_manager`) | `Take`, `SetPolicy`, `StopContainer`, `ContainerStopped`, `StartContainer`, `DockerFails`, `Respond` |
| `_check_services` (health-watchdog), `_get_service_heartbeats` (gateway) | `Watch`; `Heartbeat`, `Status` |

Docker is external: it restarts what ends if the policy says so (`DockerRestarts`),
signals what it stops, and goes on stopping a container when the call fails after the
signal or the system-manager ends meanwhile (`StopWaiting`, which `halfway` remembers).

## Runs

| run | question | result |
|---|---|---|
| `producer_safety` | with silence, a crash and one lost call: types, `KvNamesLatest`, `BackfillIsPast`, `AutoStopEarned`, and the refinement `ImplementsLifecycle` | holds |
| `producer_manual_stop` | when only commands stop sessions, with a crash, a lost call and an outage of the KV buckets: `NoSessionAbandoned`, `KvAgrees`, `AnnouncedAgrees` | holds |
| `producer_liveness` | with a lost call: `StopHonoured`, `FlushEndsWhileActive` | holds |
| `stt` | two sessions, two faults of any kind: types, `LineStraight`, `LiveTaggedLive`; without a fault: `LineInOrder`, `SkippedWereStale`, `CalmTranscribed` | holds |
| `zipper` | with a lost call and a crash: `PublishedOnce`, `HeldUnsettled`, and the refinement `ImplementsRelay`, liveness included | holds |
| `identifier` | two lanes with overlapping sessions and audio behind a marker, one fault: `OneSession`, `EnrolledKept`, `Drains`; without the fault: `WindowsWhole` | holds |
| `gateway_sessions` | two sessions and one lost event, failing statement, reused id or crash: types, `ActiveAgrees`, `ActiveListed`, `RenameStays`, `CountSparesRunning`; without a fault: `RowsAgree` | holds |
| `gateway_transcripts` | two clients, two final texts, a limit of one client, one fault: `LimitKept`, `ReplayComplete`, `StoredOnce`, `FiledInTime` | holds |
| `scheduler` | every table of two rows over two days, one wish, two faults: `OncePerDay`, `DueFired`, `StartsComeFirst`, and without a fault `SessionFollowsPlan` | holds |
| `services` | a service, two requests, two faults: `AnswerHolds`, `ServicesReturn`, `StaleShown` | holds |
| `find_handles` | `HandlesFound`, with no fault | violated: the KV handles that `_kv_connect` found are set to None by `lifespan`, and nobody sets them again |
| `find_watchdog` | `DownReported`, with no fault | violated: the TTL of a heartbeat is 5 · 10⁹ seconds, so a service that died keeps its entry and is never reported |

The two violations are disagreements between the code and a comment or document of the
repository, quoted in `PROJECT.json`.

Where the code departs from what a reader would expect, a property of a passing run is
stated so that it holds and names the case it leaves out; these cases are worth knowing:

* A session is stopped by its own silence only (`AutoStopEarned`), except that one which
  follows another may count a chunk that was published to that one and is acknowledged
  only now, and that until its timeout was read the counter still holds what the one
  before it counted: the session is active then, and the reset comes after the read.
* A session ends with its EOS marker if only commands stop sessions
  (`NoSessionAbandoned`).  When a command and the silence check stop at the same time,
  the second may clear a newer session and delete its key without a marker.
* A flush ends while a session is active (`FlushEndsWhileActive`).  One that outlives
  its session follows the idle microphone.  A session that is recovered after a crash
  between its key and its flush never gets a backfill marker.
* Live audio is transcribed if no connection drops (`CalmTranscribed`).  After a drop in
  the live phase the loop waits for the next session's backfill.
* Live text is tagged live (`LiveTaggedLive`); late backfill text may be tagged live, too.
* Every identity joins the live pool, for the identifier's payload names no source.
* Beyond `MAX_BUFFER` the zipper acknowledges, and so drops, what it evicts;
  `ImplementsRelay` is checked below that limit.
* Two clients that pass the limit check during one accept exceed the limit
  (`LimitKept`), and a client that joins while a text is being broadcast misses that text
  if it is stored after the client's query (`ReplayComplete`).
* Two schedules whose commands fall within two minutes overwrite each other's in the
  stream, and later commands of another schedule act on the session that runs
  (`SessionFollowsPlan` leaves out both).
* A scheduled command whose publish fails counts as fired and is lost for the day; the
  window of one at the last minute of a day has one minute instead of two (`DueFired`).
* Retention by age looks at the start of a session only, so a running one whose row was
  closed by mistake loses it after `SESSION_RETENTION_DAYS` (`CountSparesRunning`).
* A text that is spoken in one session may be filed under the next or, after a lost
  event, under an earlier one, and is dropped when none is active (`FiledInTime`).
* An enrolment that fails after its delete loses the old voiceprint (`EnrolledKept`).

### Bounds

Two sessions are enough for one to be taken for another; three in
`producer_manual_stop`, so that a third can follow a pair that went wrong.  Three or
four commands allow a start, a stop and a start, and one more in between.  One lost
call is the bound for the safety properties on purpose: `KvNamesLatest` says what two
may do.  One crash meets every await.  The silence timeout is one chunk, so that a single
stale chunk decides, or two in `producer_safety`, so that a counter that is carried into
the next session can stop it early.  All bounds are constants in the guards of the actions that they limit (`MaxSessions` in
`StartServed`, `MaxCommands` in `Command`, `MaxFaults` in `Fault`, `MaxOutages` in
`Boot`, `MaxCrashes` in `Crash`).  `CountSilence` stops counting beyond every timeout,
where the value no longer matters.

The run `stt` has two sessions, so that one can be taken for the other, with a chunk and
a marker in each lane and a chunk that trails the live marker of the first.  Two faults
of any kind (a lost or failing call, a failing send, a wait that is too long, a dropped
connection, a crash) allow one to be met while another is recovered from.  All scripts
end, so this run may stop: the service then waits for audio.

The run `zipper` reads two finals with an interim between them, and one or two identities
within the window of both: a batch can hold an entry that is due and one that is not,
while the subscriber has a third in hand.  One lost call is enough for a transcript that is
published, loses its ack, and is published again.  `MAX_BUFFER` is out of reach in the
passing run, as `ImplementsRelay` requires.  The inputs
are finite, so this run may stop: it does only when every transcript is settled and
every identity heard.

The run `identifier` has a window of two chunks, the least that can mix sessions; its
live lane has a partial window, its marker, and a window of the same session behind it
with a chunk of another session in between, as trailing audio and overlapping stops allow.  One fault is a lost ack, a
failing call, an embedding slower than the ack wait, or an end of the process, which
one lane causes for both.

`gateway_sessions` has two sessions, so that one can be taken for the other, and a
retention that keeps one, so that the other is purged.  `gateway_transcripts` has a
limit of one and two clients, so that the second is refused or passes the check during
the accept of the first; two sessions for a text to be filed under the wrong one; its
single fault is a lost or late ack, a failing statement, a client that leaves or a crash.
Clients are symmetric.

`scheduler` starts from every table of up to two rows with the plans of `MCScheduler`:
a hard one on both days, one that begins when the first one stops, and one that starts
in the last minute of a day, whose soft stop fires nothing.  The second one stops a
minute after its start, so that one round fires both.  Two faults make a round that
spans two minutes, or one that fails beside a publish that fails.  `services` has one service because
requests about different services meet in the inbox only; two requests are enough for a
late one to undo a newer one.  `find_watchdog` has two, so that the bucket is not empty.

The type invariants are run for `AudioProducer`, `SttProvider` and `GatewaySessions`; the
other modules have theirs proved.

### Fairness

`WF_vars(Control)`, `WF_vars(Answer)`, `WF_vars(Flush(s))` and `WF_vars(Boot)`: asyncio
schedules every ready task, every await on NATS ends with a reply or the client's
timeout, and Docker restarts the container.  Nothing obliges the microphone to hear
anything, an operator to give a command or a process to crash.  A flush task that
waits for pre-roll is not obliged to give up while the idle microphone supplies it:
`PrerollQuiet` states when a one-second fetch can come back empty.

In stt-provider, `WF_vars(Loop)` and `WF_vars(Drain)` say that every await ends and
Deepgram answers, `IdleClose` that it closes idle connections, `Redeliver` the ack wait,
and `Publish` that the flush of an active session goes on to its marker
(`FlushEndsWhileActive`).  Nobody is obliged to speak or to end a session.

In the zipper, `WF_vars(Subscriber)` and `WF_vars(Fusion)` are the scheduling of its
tasks, `WF_vars(Age)` the clock, `WF_vars(Redeliver(t))` the consumer's ack wait, and
`WF_vars(Boot)` Docker again.  Identities need not arrive.

In the identifier, `WF_vars(Worker(l))` says that the tasks of both lanes are scheduled,
and `WF_vars(Boot)` that Docker restarts the process.  In `Services`, `WF_vars(Manager)`
and `WF_vars(Runs(s) /\ ~Beat(s))` are the scheduling of the system-manager and of each
service, Docker's restarts and the clock of the bucket; a heartbeat is not obliged to
come, so that no property rests on it.  `WF_vars(Watch)` and `WF_vars(Status)` say that
the watchdog's loop goes on and that somebody looks at the page, and outages of NATS end.
`GatewaySessions`, `GatewayTranscripts` and `Scheduler` are checked for safety only.

## Proofs

Every invariant and every action property that a run checks is proved, for every value
of the constants that meets their assumptions, and so is the safety part of both
refinements.  Six theorems assume more: `Refinement`, `ManualStopsEnd`, `StoreAgrees`
and `ClientsAgree` (see `AudioProducer_proofs`), `SkippedAreStale` (see
`SttProvider_proofs`) and `RelaysSafely` (see `IdentityManager_proofs`).  A property that holds "without a fault" has the fault counter in
its statement, and most invariants have two parts: one through any faults, and one, named
for calm, that holds as long as the counter is zero.  Faults are only ever counted up, so
a step that leads to a calm state was calm, which rules out the actions that fail.

### AudioProducer_proofs

| theorem | states |
|---|---|
| `TypeCorrect` | `[]TypeOK` |
| `KvLatest` | `[]KvNamesLatest` |
| `NeverReplaced` | `SessionNeverReplaced` |
| `Refinement` | with at most one lost call and no outage: `ImplementsLifecycle` |
| `ManualStopsEnd` | with one task that stops sessions (`OneStopper`): `[]NoSessionAbandoned` |
| `StoreAgrees`, `ClientsAgree` | with `OneStopper`: `[]KvAgrees`, `[]AnnouncedAgrees` |
| `StopIsEarned` | `AutoStopEarned` |
| `BackfillIsOld` | `[]BackfillIsPast` |

`KvNamesLatest` is not inductive: a start that loses its KV write leaves the old key, so
one must know that an idle process left no key behind, or has lost a call already
(`KvBehind`).  That in turn needs the buckets to be there (`ReadyKv`), and needs to know
which session is being started while its key is written (`PutHolds`) and that a process
that is down remembers nothing (`DownIdle`).  `IInv` is the conjunction; `StepInv` proves
it inductive.  The lemma `StepKinds` sorts all steps into seven kinds, so that only those
that touch the session, its id or its key need an argument; `StartInv`, `IdleInv` and
`BootInv` treat the three that do the work.  `NeverReplaced` and `LifecycleStep` read
their facts off the same invariant.

`EndInv` says that the audio task never stops a session, that the key is the session in
memory or the one being started, that a stop has published its marker before it waits, and
that every other session has its marker.  `OneStopperStep` is where the assumption
`OneStopper` (nothing silent is ever heard) is used: a second stopper would clear a session
that began during its wait.  The run `producer_manual_stop` has the same restriction, and
with two stoppers a session may be left without its marker.  `StoreAgrees` follows from `EndInv`.
`ClientsAgree` needs the place of the control task as well: between handlers the last
announcement names the session in memory (`ToldInv`).

`StopIsEarned` rests on `QuietInv`, which compares the silence that the process has
counted with what was acknowledged to the session itself (`quiet`).  In the first session
it never exceeds that: it starts from zero, and both grow by the same chunks, of which the
process counts only those whose acknowledgement it got (`CountGrows`).  In a later one it
is reset when the timeout was read, and exceeds it by one at most from there on: by the
chunk that the audio task had under way when the session began, as long as `Borrowed`
says that it was or may have been counted (`BorrowedCount`).  `ReadEnds` is why the read
ends in the reset or with the process.

`BackfillIsOld` is about flush tasks that outlive their session while the key may name
that session again after a restart.  `PastInv` follows a session from its start to the
last moment at which it can be current (`Current`): what its flush may still read was
captured before it (`Before`), the pre-roll is older than any session that has yet to
open its consumer (`Opening`), and a key that is left behind belongs to a process without
buckets or to one that lost a call (`NoKvOK`, `IdleOK`).

### SttProvider_proofs

For all scripts and any faults: `TypeCorrect` (`[]TypeOK`), `ConnectionStraight`
(`[]LineStraight`), `LiveTagged` (`[]LiveTaggedLive`) and `LaneInOrder` (`[]LineInOrder`);
for scripts that are `WellMarked`, `SkippedAreStale` (`[]SkippedWereStale`).

`LineStraight` needs that the audio on the connection is that of the session in memory,
that a message in hand belongs to its phase, and that nothing is left from an earlier
connection (`LineOfSession`, `HandOfPhase`, `Unconnected`).  `LiveTaggedLive` needs that
audio without text waits under the right tag (`UntextedTagged`), hence that the tag is
"live" wherever live audio can be sent (`TagOfPhase`).  There the code leaves the tag alone
if the connection was given up, and is right to, because such a connection is closed and
stays so (`ClosedIsClosed`).

`LineInOrder` rests on `OrderInv`: in a calm run a lane is published and delivered in
order, what is out is the one message in hand, and what is on the line was acknowledged or
is about to be.  Deepgram's idle timeout is harmless because it comes only when all of the
session was delivered (`ClosedDone`).  `CalmKinds` sorts the steps by what they do to the
messages and the line.

`SkippedWereStale` is about Phase 3, which takes live audio of any session: it must not
meet one of a later session while its own is not over.  `AheadInv` says that until then
the marker of the session is still to be handled in each lane it has yet to pass
(`MarkersAhead`), and that no live message was delivered ahead of the backfill of its own
session (`LiveBehind`).  What is delivered is never beyond a marker that is to come
(`NotBeyond`).  `WellMarked` is needed: a session without a marker in its live lane would
skip the next one.

### Identifier_proofs

For any audio, window length and faults: `TypeCorrect` (`[]TypeOK`),
`WindowsOfOneSession` (`[]OneSession`), `WindowsAreWhole` (`[]WindowsWhole`) and
`EnrolledStay` (`[]EnrolledKept`).  A window was a buffer, and a buffer holds audio of its
own session (`CutInv`).  The voices with a row are all but the lost ones and the one whose
enrolment is under way (`PrintsInv`).

`WindowsWhole` compares the windows with a count that knows nothing of buffers.  `CountInv`
ties the two together at every message: the messages taken are the first ones of the
stream, the length of a buffer is the number of its session's chunks since the last
marker modulo `WINDOW`, and a window ends at every place where that number is a multiple,
and at no place twice.  The remainders come from `Division` and `OneDivision`, the counts
from `PendingNext` and `PendingCount`.

### IdentityManager_proofs

For any transcripts, identities, match window, buffer and faults: `TypeCorrect`
(`[]TypeOK`), `NearestIsNearest` (what `_find_identity` returns is inside the window and
nearest, the earliest of equally near ones), `HeldAreUnsettled` (`[]HeldUnsettled`),
`PublishedAtMostOnce` (`[]PublishedOnce`), and `RelaysSafely`: as long as `pending` never
fills, every step of the service is one of `Relay` or a stutter.

The fusion task holds entries in three places: those it keeps for the next round, those of
the snapshot it has yet to look at, and those that arrived meanwhile.  `Kept` is the
concatenation, and most steps only move an entry within it.  `CalmInv` says that while no
call was lost every transcript is in `Kept` at most once, unacknowledged or published, and that
the interim in hand is none of them.  `FirstInv` adds, for a process that has not ended,
that what is delivered is in memory until it is acknowledged, and that only the entry
in hand was published.  `RelayInv` holds through all faults: what is kept was offered, and
what waits for the answer of a publish was published.

### GatewaySessions_proofs

For any number of sessions, any retention count and any faults: `TypeCorrect`
(`[]TypeOK`), `ActiveIsListed` (`[]ActiveListed`), `RenameStaysPut` (`[]RenameStays`),
`RetentionByCount` (`CountSparesRunning`), `ActiveFollows` (`[]ActiveAgrees`) and
`RowsClosed` (`[]RowsAgree`).  `TypeOK` is inductive, and split into six parts
(`ProducerOK` to `StoreOK`).  `ActiveListed` needs that the row of a session that is about
to become active is committed, or purged since (`RowWritten`), because the event is
handled in three steps.  `RenameStays` needs that a rename under way holds the key of the
session it names (`RenameHeld`).  `CountSparesRunning` needs that no row, and no event on
its way, is of a session later than the newest one, and that the newest is never one too
many (`PastInv`): the running session is the newest one when the deletion comes.  By age
it may be selected, if its row was closed, and what was selected stays closed
(`PurgePast`).

`ActiveFollows` (`FollowInv`) reads the way of the events backwards: what the producer is
about to tell is what runs; if it has told, the last event on its way names the running
session; if none is on its way, the event in hand does; and if there is none in hand, the
active session is right or the key has still to be read or applied.  What was read
of the key is right, or the stop that makes it wrong is still to be handled
(`ReadOK`).  `RowsClosed` (`RowsInv`) says in the same way that every row without an end,
and every start on its way, is followed by a stop that is yet to come (`Over`).

### GatewayTranscripts_proofs

For any clients, texts, limit and faults: `TypeCorrect`, `TextsFiledInTime`
(`FiledInTime`), `TextsStoredOnce` (`[]StoredOnce`), `ReplaysComplete`
(`[]ReplayComplete`) and `LimitHolds` (`[]LimitKept`).  The first rests on `FiledInv`: what
is active now was active since any text under way was published, and so was the session
that the text in hand is to be stored under.  `StoredOnce` follows from a count of rows (`OnceInv`): a
row beyond the one that the ack allows was paid for by a fault.  `ReplayInv` says of each
client that is present that it has, or is about to be sent, the text in hand and everything
stored of its session.  `LimitKept` rests on `PlaceKept`: if clients were let in one at a
time, at most one is being accepted, and it still has its place.

### Scheduler_proofs

For any schedules, any length of the day, and any edits, requests and faults:
`TypeCorrect`, `StartsFirst` (`StartsComeFirst`), `CommandsOncePerDay` (`[]OncePerDay`),
`CommandsFired` (`[]DueFired`) and `SessionsAsPlanned` (`[]SessionFollowsPlan`).
`OnceInv` counts: a command was attempted once if it is spent (marked as fired, of a day
that is over, or in the round's hand), and once more per crash.  `OwedInv` is the reason
why one bad round costs no command: as long as a command is owed, each minute of its
window that was used up is a miss (`Lost`), and so is every minute but one that a round
of the window has lasted.  If fewer rounds were missed than the window has
minutes, one was left, and its round has the command in its list (`Owes`).  `StartsFirst`
adds that what a round fires is planned for its day (`PlannedOK`), and that once a stop
was published its start was too, or its window is behind the round (`OrderOK`).  For
`SessionsAsPlanned` the invariant follows a hard schedule from its start to its stop and
from there to the end of the day (`StartOK`, `StopOK`): the producer runs the session, or
the command is in the stream and two minutes are not over.  The round fires its list in
the order of the loop; `First` is the least member of what is left, and exists because
naturals are well-founded.

### Services_proofs

For any services, requests and faults: `TypeCorrect` and `AnswersHold` (`[]AnswerHolds`).
Requests are carried out in the order in which they were sent, whether or not
somebody still waits (`OrderInv`).  `AnswerInv` follows the one in hand step by step
(`WorkOK`), knows that Docker stops only what the system-manager waits for (`StopsOK`, until
`halfway`), and
that the latest request about a container, once answered, is what the container is.

### What is model-checked only

Liveness under fairness is beyond the proof system: `FlushEndsWhileActive`,
`StopHonoured`, `CalmTranscribed`, `Drains`, `ServicesReturn`, `StaleShown`, and the
liveness of `ImplementsRelay`.  So are the two violations, which are counterexamples.

## Not modelled

In the audio-producer: malformed JSON commands, the ageing of PRE_BUFFER and
AUDIO_STREAM, labels; the early returns of `run_business_logic` are in `Services` and ids
shared by two starts within one second in `GatewaySessions`.  In stt-provider: interim
transcripts, failed subscriptions, status messages, audio that ages out of the stream
during an outage of more than an hour.  In the identity-manager: malformed messages and
timestamps, failures at start-up, a failing fetch of identities.  In the identifier: the
numerics of embeddings and vector search, a lane that cannot subscribe at start-up, the
stub store.

In the gateway: login, tokens and rate limits, the administration of speakers and
phrases, backups, exports, logs and pages; these are requests that read or write one row
or file.  In the system-manager: the statistics of streams, which it logs, and the list of
services.  In the messaging library: the forwarding of logs, and `ensure_stream`, which
creates or updates one stream.

The audio-classifier is a stateless callback whose publications nothing in the repository
reads.  Audio drivers, numerics, web pages and the scripts of operators are left out for
good.

## Plan

1. `AudioProducer` and its lifecycle (modelled, checked, proved).
2. `SttProvider` (modelled, checked, proved); left: its composition with `AudioProducer`,
   where a session may have no backfill marker and a live marker may be lost.
3. `IdentityManager` as an at-least-once relay (modelled, checked, proved).
4. `Identifier` (modelled, checked, proved).
5. `GatewaySessions` and `GatewayTranscripts` (modelled, checked, proved).
6. `Scheduler` and `Services` (modelled, checked, proved).
7. Left: `WellMarked` as a consequence of `AudioProducer`, which would tie the two modules
   together.
