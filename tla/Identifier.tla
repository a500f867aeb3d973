------------------------------ MODULE Identifier ------------------------------
(***************************************************************************)
(* The identifier service (services/identifier): one worker per audio      *)
(* lane cuts the audio of every session into windows, and each window is   *)
(* embedded, searched in the store of voiceprints, and published as an     *)
(* identity if its voice is known.  Voiceprints are enrolled and deleted   *)
(* meanwhile: the searches run in threads.                                 *)
(*                                                                         *)
(* An action is what lies between two awaits.  The workers share a         *)
(* TaskGroup, so an exception in one ends the process.                     *)
(***************************************************************************)
EXTENDS Integers, Sequences, FiniteSets, SequencesExt

CONSTANTS
    Lanes,       \* "live", "backfill"
    Audio,       \* lane -> what its stream holds: <<[eos, session, voice], ...>>
    WINDOW,      \* chunks of a window: _WINDOW_SAMPLES / 1536
    Voices,
    MaxWishes,   \* bound: enrolments and deletions
    MaxFaults    \* bound: failing calls, slow windows, ends of the process

Sessions == UNION {{Audio[l][i].session : i \in DOMAIN Audio[l]} : l \in Lanes}
NoVoice  == "None"

ASSUME AudioAssumption ==
    /\ WINDOW \in Nat \ {0} /\ {MaxWishes, MaxFaults} \subseteq Nat /\ NoVoice \notin Voices
    /\ \A l \in Lanes : Audio[l] \in Seq([eos : BOOLEAN, session : Sessions, voice : Voices])

VARIABLES
    up,          \* the process runs
    at,          \* lane -> "fetch", "search", "publish", "ack"
    hand,        \* lane -> the message in hand, or 0
    buffers,     \* lane -> session -> chunks that wait for a window
    audio,       \* lane -> the window that is being identified
    speaker,     \* lane -> what the search found, or NoVoice
    \* NATS
    raw,         \* lane -> message -> "new", "out" (delivered), "again", "acked"
    identities,  \* lane -> speakers published on transcript.identity.<lane>
    \* LanceDB
    prints,      \* voices with a row
    enrolling,   \* the voice whose old row is deleted and whose new one is not added
    wishes, faults,
    \* observers
    windows,     \* lane -> windows that were cut
    lost         \* voices whose enrolment failed

worker == <<at, hand, buffers, audio, speaker>>
store  == <<prints, enrolling, lost>>
vars   == <<up, worker, raw, identities, store, wishes, faults, windows>>

Wish  == wishes < MaxWishes /\ wishes' = wishes + 1
Fault == faults < MaxFaults /\ faults' = faults + 1
NoBuffers == [s \in Sessions |-> <<>>]
Go(l, where) == at' = [at EXCEPT ![l] = where]
-----------------------------------------------------------------------------
(* _worker.                                                                *)

\* The memory is gone, and what was not acknowledged comes again.
Ends ==
    /\ up' = FALSE
    /\ at' = [l \in Lanes |-> "fetch"] /\ hand' = [l \in Lanes |-> 0]
    /\ buffers' = [l \in Lanes |-> NoBuffers]
    /\ audio' = [l \in Lanes |-> <<>>] /\ speaker' = [l \in Lanes |-> NoVoice]
    /\ raw' = [l \in Lanes |-> [i \in DOMAIN raw[l] |->
                 IF raw[l][i] = "out" THEN "again" ELSE raw[l][i]]]

\* Mutant: one buffer serves all sessions.
OneBuffer(l, i) == Append(LET held == {s \in Sessions : buffers[l][s] # <<>>}
                          IN IF held = {} THEN <<>> ELSE buffers[l][CHOOSE s \in held : TRUE], i)

\* _AudioBuffer.add.
Added(l, i) == Append(buffers[l][Audio[l][i].session], i)

\* _AudioBuffer.consume: the chunks become the window.
Consumed(l, i) == [buffers EXCEPT ![l][Audio[l][i].session] = <<>>]

\* Mutant: the marker leaves the partial window in its buffer.
KeepPartial(l, s) == UNCHANGED buffers

\* The marker of a session drops its partial window.
Discard(l, s) == buffers' = [buffers EXCEPT ![l][s] = <<>>]

\* The next message; a full buffer is consumed and goes to the embedder.
Fetch(l) ==
    /\ up /\ at[l] = "fetch"
    /\ \E i \in DOMAIN raw[l] :
          /\ raw[l][i] = "again" \/ (raw[l][i] = "new" /\ \A j \in 1 .. i - 1 : raw[l][j] # "new")
          /\ hand' = [hand EXCEPT ![l] = i]
          /\ raw' = [raw EXCEPT ![l][i] = "out"]
          /\ LET s == Audio[l][i].session
             IN  \/ /\ Audio[l][i].eos
                    /\ Discard(l, s) /\ Go(l, "ack") /\ UNCHANGED <<audio, windows>>
                 \/ /\ ~Audio[l][i].eos /\ Len(Added(l, i)) < WINDOW
                    /\ buffers' = [buffers EXCEPT ![l][s] = Added(l, i)]
                    /\ Go(l, "ack") /\ UNCHANGED <<audio, windows>>
                 \/ /\ ~Audio[l][i].eos /\ Len(Added(l, i)) >= WINDOW
                    /\ audio' = [audio EXCEPT ![l] = Added(l, i)]
                    /\ windows' = [windows EXCEPT ![l] = Append(@, Added(l, i))]
                    /\ buffers' = Consumed(l, i)
                    /\ Go(l, "search")
    /\ UNCHANGED <<up, speaker, identities, store, wishes, faults>>

\* The embedding is that of a voice in the window; the nearest voiceprint is its own,
\* if it is enrolled at that moment.  A failing inference or search finds nobody.
Search(l) ==
    /\ up /\ at[l] = "search"
    /\ \/ /\ \E i \in DOMAIN audio[l] : LET v == Audio[l][audio[l][i]].voice
             IN IF v \in prints THEN speaker' = [speaker EXCEPT ![l] = v] /\ Go(l, "publish")
                ELSE Go(l, "ack") /\ UNCHANGED speaker
          /\ UNCHANGED faults
       \/ Fault /\ Go(l, "ack") /\ UNCHANGED speaker
    /\ UNCHANGED <<up, hand, buffers, audio, raw, identities, store, wishes, windows>>

\* A failing publish is logged.
Publish(l) ==
    /\ up /\ at[l] = "publish"
    /\ Go(l, "ack") /\ speaker' = [speaker EXCEPT ![l] = NoVoice]
    /\ \/ identities' = [identities EXCEPT ![l] = Append(@, speaker[l])] /\ UNCHANGED faults
       \/ Fault /\ UNCHANGED identities
    /\ UNCHANGED <<up, hand, buffers, audio, raw, store, wishes, windows>>

\* Mutant: the message is not acknowledged.
NoAck(l) ==
    /\ up /\ at[l] = "ack"
    /\ Go(l, "fetch")
    /\ hand' = [hand EXCEPT ![l] = 0] /\ audio' = [audio EXCEPT ![l] = <<>>]
    /\ UNCHANGED <<up, buffers, speaker, raw, identities, store, wishes, faults, windows>>

\* msg.ack is outside of every try: when it raises, the service ends.
Ack(l) ==
    /\ up /\ at[l] = "ack"
    /\ \/ /\ raw' = [raw EXCEPT ![l][hand[l]] = "acked"]
          /\ Go(l, "fetch")
          /\ hand' = [hand EXCEPT ![l] = 0] /\ audio' = [audio EXCEPT ![l] = <<>>]
          /\ UNCHANGED <<up, buffers, speaker, faults>>
       \/ Fault /\ Ends
    /\ UNCHANGED <<identities, store, wishes, windows>>

\* An embedding takes longer than the ack wait.
Redeliver(l) ==
    /\ hand[l] # 0 /\ raw[l][hand[l]] = "out" /\ Fault
    /\ raw' = [raw EXCEPT ![l][hand[l]] = "again"]
    /\ UNCHANGED <<up, worker, identities, store, wishes, windows>>

Crash == up /\ Fault /\ Ends /\ UNCHANGED <<identities, store, wishes, windows>>

Boot ==
    /\ ~up /\ up' = TRUE
    /\ UNCHANGED <<worker, raw, identities, store, wishes, faults, windows>>
-----------------------------------------------------------------------------
(* LanceDBVoiceprintStore.                                                 *)

\* enroll deletes the row of the name,
Enroll(v) ==
    /\ enrolling = NoVoice /\ Wish
    /\ prints' = prints \ {v} /\ enrolling' = v
    /\ UNCHANGED <<up, worker, raw, identities, lost, faults, windows>>

\* Mutant: only a name that was not enrolled before is added.
AddNew(v) == IF v \in lost THEN prints \cup {v} ELSE prints

WithRow(v) == prints \cup {v}

\* and adds the new one, or raises.
EnrollAdd ==
    /\ enrolling # NoVoice
    /\ enrolling' = NoVoice
    /\ \/ prints' = WithRow(enrolling) /\ lost' = lost \ {enrolling} /\ UNCHANGED faults
       \/ lost' = lost \cup {enrolling} /\ UNCHANGED prints /\ Fault
    /\ UNCHANGED <<up, worker, raw, identities, wishes, windows>>

Delete(v) ==
    /\ enrolling = NoVoice /\ v \in prints /\ Wish
    /\ prints' = prints \ {v} /\ lost' = lost \cup {v}
    /\ UNCHANGED <<up, worker, raw, identities, enrolling, faults, windows>>
-----------------------------------------------------------------------------
Init ==
    /\ up = TRUE
    /\ at = [l \in Lanes |-> "fetch"] /\ hand = [l \in Lanes |-> 0]
    /\ buffers = [l \in Lanes |-> NoBuffers]
    /\ audio = [l \in Lanes |-> <<>>] /\ speaker = [l \in Lanes |-> NoVoice]
    /\ raw = [l \in Lanes |-> [i \in DOMAIN Audio[l] |-> "new"]]
    /\ identities = [l \in Lanes |-> <<>>]
    /\ prints = Voices /\ enrolling = NoVoice
    /\ wishes = 0 /\ faults = 0
    /\ windows = [l \in Lanes |-> <<>>] /\ lost = {}

Worker(l) == Fetch(l) \/ Search(l) \/ Publish(l) \/ Ack(l)
Store     == EnrollAdd \/ \E v \in Voices : Enroll(v) \/ Delete(v)

Next == (\E l \in Lanes : Worker(l) \/ Redeliver(l)) \/ Crash \/ Boot \/ Store

Spec == Init /\ [][Next]_vars

\* The workers are scheduled, and Docker restarts the process.
FairSpec == Spec /\ WF_vars(Boot) /\ \A l \in Lanes : WF_vars(Worker(l))
-----------------------------------------------------------------------------
\* Every variable has its type; a process that is down holds nothing.
TypeOK ==
    /\ up \in BOOLEAN
    /\ \A l \in Lanes :
          /\ at[l] \in {"fetch", "search", "publish", "ack"}
          /\ hand[l] \in DOMAIN Audio[l] \cup {0} /\ (hand[l] = 0 <=> at[l] = "fetch")
          /\ \A s \in Sessions : buffers[l][s] \in Seq(DOMAIN Audio[l])
                                 /\ Len(buffers[l][s]) < WINDOW
          /\ audio[l] \in Seq(DOMAIN Audio[l]) /\ windows[l] \in Seq(Seq(DOMAIN Audio[l]))
          /\ speaker[l] \in Voices \cup {NoVoice} /\ (speaker[l] # NoVoice <=> at[l] = "publish")
          /\ raw[l] \in [DOMAIN Audio[l] -> {"new", "out", "again", "acked"}]
          /\ identities[l] \in Seq(Voices)
          /\ ~up => hand[l] = 0 /\ buffers[l] = NoBuffers
    /\ prints \subseteq Voices /\ enrolling \in Voices \cup {NoVoice} /\ lost \subseteq Voices

\* A window holds audio of one session, whatever is lost, comes again, or trails the
\* marker of its session.
OneSession ==
    \A l \in Lanes : \A w \in DOMAIN windows[l] :
        \A i, j \in DOMAIN windows[l][w] :
            Audio[l][windows[l][w][i]].session = Audio[l][windows[l][w][j]].session

\* What a lane should cut: the windows that end at chunk i, by counting the chunks of
\* its session since the last marker of that session.
Since(l, i) ==
    {j \in 1 .. i : /\ Audio[l][j].session = Audio[l][i].session /\ ~Audio[l][j].eos
                    /\ \A k \in j .. i : Audio[l][k].session = Audio[l][i].session
                                            => ~Audio[l][k].eos}
Complete(l) == {i \in DOMAIN Audio[l] : Since(l, i) # {} /\ Cardinality(Since(l, i)) % WINDOW = 0}

\* Without faults the windows are those that counting gives: none is lost, cut twice,
\* or put together from both sides of a marker.
WindowsWhole ==
    \A l \in Lanes : faults = 0 /\ (\A i \in DOMAIN raw[l] : raw[l][i] = "acked") =>
        /\ {Last(windows[l][w]) : w \in DOMAIN windows[l]} = Complete(l)
        /\ Len(windows[l]) = Cardinality(Complete(l))
        /\ \A w \in DOMAIN windows[l] :
              /\ ToSet(windows[l][w]) \subseteq Since(l, Last(windows[l][w]))
              /\ Cardinality(ToSet(windows[l][w])) = WINDOW

\* Between enrolments every voice has its voiceprint, but for one that was deleted or
\* whose enrolment failed half-way, which loses the old voiceprint, too.
EnrolledKept == enrolling = NoVoice => prints = Voices \ lost

\* Every message is acknowledged in the end, whatever fails, and whichever lane's
\* failing ack takes the other lane down with it.
Drains ==
    \A l \in Lanes : <>(\A i \in DOMAIN raw[l] : raw[l][i] = "acked")
=============================================================================
