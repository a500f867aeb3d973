--------------------------- MODULE IdentityManager ---------------------------
(***************************************************************************)
(* The identity-manager service (services/identity-manager): the Time      *)
(* Zipper, which reads the transcripts of the subjects transcript.raw and  *)
(* the speakers of transcript.identity, joins them, and publishes the      *)
(* result under transcript.final.                                          *)
(*                                                                         *)
(* Three asyncio tasks share its memory:                                   *)
(*   _transcript_subscriber  forwards interims, queues finals in pending   *)
(*   _identity_subscriber    queues identities in the pool of their source *)
(*   _fusion_loop            takes pending as its batch, publishes what is *)
(*                           matched or old, and puts the rest back        *)
(*                                                                         *)
(* An action is what lies between two awaits.  A publish takes effect when *)
(* it is issued and is answered later, or lost, with or without effect.    *)
(* Transcripts are numbered in the order of their stream.                  *)
(***************************************************************************)
EXTENDS Integers, Sequences

CONSTANTS
    Transcripts,   \* what stt-provider says: <<[ts, source, is_final], ...>>
    Identities,    \* what the identifier finds: <<[ts, source, speaker], ...>>
    MATCH_WINDOW,  \* MATCH_WINDOW_S
    MAX_BUFFER,
    MaxFaults,     \* bound: calls to NATS that are lost
    MaxCrashes     \* bound: times the process ends

Sources == {"live", "backfill"}
Unknown == "Unknown"
NoName  == "None"       \* Python's None, the speaker of an interim

ASSUME TranscriptsAssumption ==
    Transcripts \in Seq([ts : Int, source : Sources, is_final : BOOLEAN])
ASSUME IdentitiesAssumption ==
    /\ Identities \in Seq([ts : Int, source : Sources, speaker : STRING])
    /\ \A i \in DOMAIN Identities : Identities[i].speaker \notin {Unknown, NoName}
ASSUME LimitsAssumption ==
    /\ MATCH_WINDOW \in Int /\ MAX_BUFFER \in Nat \ {0}
    /\ MaxFaults \in Nat /\ MaxCrashes \in Nat

Ids      == DOMAIN Transcripts
NoId     == 0
Speakers == {Identities[i].speaker : i \in DOMAIN Identities} \cup {Unknown, NoName}

VARIABLES
    \* the process
    up,          \* the process runs
    pending,     \* _pending: entries [t, old], old after PUBLISH_TIMEOUT_S
    batch,       \* the fusion loop's batch, from the entry in hand on
    still,       \* still_pending
    fusing,      \* the fusion loop: "idle", or its publish is "due" or "lost",
                 \* or it goes on to the "next" entry
    forwarding,  \* the interim whose publish the subscriber awaits
    forward,     \* that publish: "due" or "lost"
    pools,       \* source -> _live_identities or _backfill_identities
    \* NATS
    raw,         \* transcript -> "none", "new", "out" (delivered), "again", "acked"
    heard,       \* identities acknowledged
    final,       \* transcript -> speakers it was published with, in order
    faults, crashes

memory == <<pending, batch, still, fusing, forwarding, forward>>
vars   == <<up, memory, pools, raw, heard, final, faults, crashes>>

Entries == [t : Ids, old : BOOLEAN]

Fault == faults < MaxFaults /\ faults' = faults + 1

\* js.publish of t, answered as r says: a lost publish may have been stored.
Publish(t, speaker, r) ==
    LET stored == [final EXCEPT ![t] = Append(@, speaker)]
    IN  \/ r = "due"  /\ final' = stored /\ UNCHANGED faults
        \/ r = "lost" /\ final' \in {final, stored} /\ Fault

\* msg.ack() of t reaches the server, or gets lost.
Acked(q, t) == [q EXCEPT ![t] = "acked"]
Ack(q, t) == \/ raw' = Acked(q, t) /\ UNCHANGED faults
             \/ raw' = q /\ Fault

\* t is in the memory of a task.
Held(t) == \/ forwarding = t
           \/ \E q \in {pending, batch, still} : \E i \in DOMAIN q : q[i].t = t
-----------------------------------------------------------------------------
(* _transcript_subscriber.                                                 *)

\* The consumer hands out new messages in order, and those that come again.
Deliverable(t) == \/ raw[t] = "again"
                  \/ raw[t] = "new" /\ \A u \in Ids : u < t => raw[u] # "new"

Fetched(t) == up /\ forwarding = NoId /\ Deliverable(t)

\* Mutant: a final is acknowledged on receipt.
AckOnReceipt(t) == [raw EXCEPT ![t] = "acked"]

\* Received, and not acknowledged.
Taken(t) == [raw EXCEPT ![t] = "out"]

\* A final waits in pending; at the cap, the oldest entry is acknowledged and
\* dropped.
FetchFinal(t) ==
    /\ Fetched(t) /\ Transcripts[t].is_final
    /\ LET queue == Append(pending, [t |-> t, old |-> FALSE])
       IN  \/ /\ Len(queue) <= MAX_BUFFER
              /\ pending' = queue
              /\ raw' = Taken(t)
              /\ UNCHANGED faults
           \/ /\ Len(queue) > MAX_BUFFER
              /\ pending' = Tail(queue)
              /\ Ack(Taken(t), Head(queue).t)
    /\ UNCHANGED <<up, batch, still, fusing, forwarding, forward, pools, heard,
                   final, crashes>>

\* An interim is forwarded at once, without a speaker.
FetchInterim(t) ==
    /\ Fetched(t) /\ ~Transcripts[t].is_final
    /\ raw' = Taken(t)
    /\ forwarding' = t
    /\ forward' \in {"due", "lost"}
    /\ Publish(t, NoName, forward')
    /\ UNCHANGED <<up, pending, batch, still, fusing, pools, heard, crashes>>

\* The interim is acknowledged, or its publish failed and is logged.
ForwardReply ==
    /\ up /\ forwarding # NoId
    /\ forwarding' = NoId
    /\ \/ forward = "due" /\ Ack(raw, forwarding)
       \/ forward = "lost" /\ UNCHANGED <<raw, faults>>
    /\ UNCHANGED <<up, pending, batch, still, fusing, forward, pools, heard, final,
                   crashes>>
-----------------------------------------------------------------------------
(* _identity_subscriber.                                                   *)

\* data.get("source", "live") of what the identifier publishes: its payload
\* names a speaker, a confidence and a timestamp, and no source.
PayloadSource(i) == "live"

\* A deque with maxlen drops its oldest element.
Remember(pool, i) == IF Len(pool) < MAX_BUFFER THEN Append(pool, i)
                     ELSE Append(Tail(pool), i)

\* The next identity joins a pool and is acknowledged; it comes again when that
\* ack is lost.
Hear ==
    /\ up /\ heard < Len(Identities)
    /\ LET i == heard + 1
       IN  pools' = [pools EXCEPT ![PayloadSource(i)] = Remember(@, i)]
    /\ \/ heard' = heard + 1 /\ UNCHANGED faults
       \/ UNCHANGED heard /\ Fault
    /\ UNCHANGED <<up, memory, raw, final, crashes>>
-----------------------------------------------------------------------------
(* _fusion_loop.                                                           *)

Distance(i, t) == LET d == Identities[i].ts - Transcripts[t].ts
                  IN  IF d < 0 THEN -d ELSE d

\* _find_identity: the positions in the pool of t's source that are near enough,
\* and the nearest of them, the earliest of equals.
Near(t) == LET pool == pools[Transcripts[t].source]
           IN  {k \in DOMAIN pool : Distance(pool[k], t) < MATCH_WINDOW}

Nearest(t) ==
    LET pool == pools[Transcripts[t].source]
    IN  CHOOSE k \in Near(t) :
            \A j \in Near(t) : \/ Distance(pool[k], t) < Distance(pool[j], t)
                               \/ Distance(pool[k], t) = Distance(pool[j], t) /\ k <= j

Speaker(t) == IF Near(t) = {} THEN Unknown
              ELSE Identities[pools[Transcripts[t].source][Nearest(t)]].speaker

Due(e) == e.old \/ Near(e.t) # {}

\* Go through the rest of the batch: publish the first entry that is due and
\* await it, or put back what is kept in front of what arrived meanwhile.
Proceed(rest, kept, arrived) ==
    \/ \E i \in DOMAIN rest :
          /\ Due(rest[i]) /\ \A j \in 1 .. i - 1 : ~Due(rest[j])
          /\ batch' = SubSeq(rest, i, Len(rest))
          /\ still' = kept \o SubSeq(rest, 1, i - 1)
          /\ pending' = arrived
          /\ fusing' \in {"due", "lost"}
          /\ Publish(rest[i].t, Speaker(rest[i].t), fusing')
    \/ /\ \A i \in DOMAIN rest : ~Due(rest[i])
       /\ batch' = <<>> /\ still' = <<>>
       /\ pending' = kept \o rest \o arrived
       /\ fusing' = "idle"
       /\ UNCHANGED <<final, faults>>

\* Mutant: the batch is not taken out of pending.
NoSnapshot == pending

Snapshot == <<>>     \* self._pending once the batch is taken

\* Every 0.1 s: take pending as the batch.  A round with nothing due has no await
\* and leaves all as it was.
Round ==
    /\ up /\ fusing = "idle"
    /\ \E i \in DOMAIN pending : Due(pending[i])
    /\ Proceed(pending, <<>>, Snapshot)
    /\ UNCHANGED <<up, forwarding, forward, pools, raw, heard, crashes>>

\* A published entry is acknowledged; one whose publish failed is sent back.
PublishReply ==
    /\ up /\ fusing \in {"due", "lost"}
    /\ LET t == Head(batch).t
       IN  \/ fusing = "due" /\ Ack(raw, t)
           \/ /\ fusing = "lost"
              /\ \/ /\ raw' = [raw EXCEPT ![t] = IF @ = "out" THEN "again" ELSE @]
                    /\ UNCHANGED faults
                 \/ UNCHANGED raw /\ Fault
    /\ fusing' = "next"
    /\ UNCHANGED <<up, pending, batch, still, forwarding, forward, pools, heard,
                   final, crashes>>

NextEntry ==
    /\ up /\ fusing = "next"
    /\ Proceed(Tail(batch), still, pending)
    /\ UNCHANGED <<up, forwarding, forward, pools, raw, heard, crashes>>
-----------------------------------------------------------------------------
(* The environment.                                                        *)

\* stt-provider publishes the next transcript.
Say(t) ==
    /\ raw[t] = "none" /\ \A u \in Ids : u < t => raw[u] # "none"
    /\ raw' = [raw EXCEPT ![t] = "new"]
    /\ UNCHANGED <<up, memory, pools, heard, final, faults, crashes>>

\* Three seconds have passed for the oldest entry that was young.  The age of an
\* entry in the batch is that of the start of the round.
Age ==
    /\ up
    /\ \E i \in DOMAIN pending :
          /\ ~pending[i].old /\ \A j \in 1 .. i - 1 : pending[j].old
          /\ pending' = [pending EXCEPT ![i].old = TRUE]
    /\ UNCHANGED <<up, batch, still, fusing, forwarding, forward, pools, raw, heard,
                   final, faults, crashes>>

\* The ack wait of 30 s is over for a message that nobody holds.
Redeliver(t) ==
    /\ raw[t] = "out" /\ ~Held(t)
    /\ raw' = [raw EXCEPT ![t] = "again"]
    /\ UNCHANGED <<up, memory, pools, heard, final, faults, crashes>>

\* A message is held that long when publishes of its round time out.
RedeliverHeld(t) ==
    /\ raw[t] = "out" /\ Held(t)
    /\ Fault
    /\ raw' = [raw EXCEPT ![t] = "again"]
    /\ UNCHANGED <<up, memory, pools, heard, final, crashes>>

\* The process ends, by itself when a nak raises: its memory is gone.
Crash ==
    /\ up /\ crashes < MaxCrashes
    /\ up' = FALSE
    /\ crashes' = crashes + 1
    /\ pending' = <<>> /\ batch' = <<>> /\ still' = <<>> /\ fusing' = "idle"
    /\ forwarding' = NoId /\ forward' = "due"
    /\ pools' = [s \in Sources |-> <<>>]
    /\ UNCHANGED <<raw, heard, final, faults>>

Boot == ~up /\ up' = TRUE
        /\ UNCHANGED <<memory, pools, raw, heard, final, faults, crashes>>
-----------------------------------------------------------------------------
Init ==
    /\ up = FALSE
    /\ pending = <<>> /\ batch = <<>> /\ still = <<>> /\ fusing = "idle"
    /\ forwarding = NoId /\ forward = "due"
    /\ pools = [s \in Sources |-> <<>>]
    /\ raw = [t \in Ids |-> "none"] /\ heard = 0
    /\ final = [t \in Ids |-> <<>>]
    /\ faults = 0 /\ crashes = 0

Subscriber == ForwardReply \/ \E t \in Ids : FetchFinal(t) \/ FetchInterim(t)
Fusion     == Round \/ PublishReply \/ NextEntry

Next ==
    \/ Subscriber \/ Hear \/ Fusion
    \/ Age \/ Crash \/ Boot
    \/ \E t \in Ids : Say(t) \/ Redeliver(t) \/ RedeliverHeld(t)

Spec == Init /\ [][Next]_vars

\* Every await ends, time passes, the server delivers and delivers again, and
\* Docker restarts the container.
Fairness ==
    /\ WF_vars(Subscriber) /\ WF_vars(Fusion)
    /\ WF_vars(Age) /\ WF_vars(Boot)
    /\ \A t \in Ids : WF_vars(Redeliver(t))

FairSpec == Spec /\ Fairness
-----------------------------------------------------------------------------
(* Properties.                                                             *)

RawStates == {"none", "new", "out", "again", "acked"}

\* Every variable keeps its type.
TypeOK ==
    /\ up \in BOOLEAN
    /\ pending \in Seq(Entries) /\ batch \in Seq(Entries) /\ still \in Seq(Entries)
    /\ fusing \in {"idle", "due", "lost", "next"}
    /\ fusing = "idle" <=> batch = <<>>
    /\ forwarding \in Ids \cup {NoId} /\ forward \in {"due", "lost"}
    /\ pools \in [Sources -> Seq(DOMAIN Identities)]
    /\ raw \in [Ids -> RawStates] /\ heard \in 0 .. Len(Identities)
    /\ final \in [Ids -> Seq(Speakers)]
    /\ faults \in 0 .. MaxFaults /\ crashes \in 0 .. MaxCrashes

\* The service relays: each transcript is published, and settled after that,
\* through crashes, lost calls and redeliveries, as long as nothing is evicted.
Zipper == INSTANCE Relay WITH
              Messages <- Ids,
              offered  <- {t \in Ids : raw[t] # "none"},
              emitted  <- {t \in Ids : final[t] # <<>>},
              settled  <- {t \in Ids : raw[t] = "acked"}
ImplementsRelay == Zipper!Spec

\* Without a lost call or a crash each transcript is published once.
PublishedOnce == faults = 0 /\ crashes = 0 => \A t \in Ids : Len(final[t]) <= 1

\* While no call was lost, a transcript that the service still has to publish is
\* not settled: whatever task holds it, a crash would bring it back.
HeldUnsettled == faults = 0 => \A t \in Ids : Held(t) /\ final[t] = <<>> => raw[t] = "out"
=============================================================================
