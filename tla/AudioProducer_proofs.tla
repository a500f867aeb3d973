------------------------ MODULE AudioProducer_proofs ------------------------
(***************************************************************************)
(* Proofs about AudioProducer for every value of its constants: types, one *)
(* session at a time, what the KV store, the announcements and a backfill  *)
(* may name, and which silence stops a session.                            *)
(***************************************************************************)
EXTENDS AudioProducer, TLAPS

-----------------------------------------------------------------------------
(* What the building blocks of the actions do.                             *)

Between(x) == x' = x \/ x' = x + 1

\* Goto moves one task and leaves both tasks with a legal state and reply.
LEMMA GotoFrame ==
    ASSUME TasksOK, NEW a \in Tasks, NEW p \in StatesOf(a), NEW r \in Replies,
           Goto(a, p, r)
    PROVE  TasksOK' /\ pc' = [pc EXCEPT ![a] = p]
<1>1. pc' = [pc EXCEPT ![a] = p]
  BY DEF Goto
<1>2. pc' \in [Tasks -> CtrlStates \cup AudioStates]
  BY <1>1 DEF TasksOK, StatesOf
<1>3. \A b \in Tasks : pc'[b] \in StatesOf(b)
  BY <1>1 DEF TasksOK
<1>4. reply' \in [Tasks -> Replies]
  BY DEF Goto, TasksOK, Replies
<1>5. QED
  BY <1>1, <1>2, <1>3, <1>4 DEF TasksOK

\* A call that was not stored has cost a fault, and a call costs at most one.
LEMMA CallFrame ==
    ASSUME TasksOK, faults \in 0 .. MaxFaults, NEW a \in Tasks,
           NEW p \in StatesOf(a), NEW stored \in BOOLEAN, Call(a, p, stored)
    PROVE  /\ TasksOK' /\ pc' = [pc EXCEPT ![a] = p]
           /\ faults' \in 0 .. MaxFaults
           /\ Between(faults)
           /\ ~stored => faults' = faults + 1
<1>1. CASE /\ stored
           /\ Goto(a, p, IF /\ SameStream(p, pc[Other(a)])
                            /\ reply[Other(a)] # "lost" THEN "behind" ELSE "due")
           /\ UNCHANGED faults
  BY <1>1, GotoFrame DEF Replies, Between
<1>2. CASE Fault /\ Goto(a, p, "lost")
  <2>1. "lost" \in Replies
    BY DEF Replies
  <2>2. TasksOK' /\ pc' = [pc EXCEPT ![a] = p]
    BY <1>2, <2>1, GotoFrame
  <2>3. faults' = faults + 1 /\ faults' \in 0 .. MaxFaults
    BY <1>2, BoundsAssumption DEF Fault, Bounds
  <2>4. QED
    BY <2>2, <2>3 DEF Between
<1>3. QED
  BY <1>1, <1>2 DEF Call

\* The end of a handler changes its task, the two things it tells, and nothing
\* else that the invariants speak of.
LEMMA ReturnFrame ==
    ASSUME TasksOK, NEW a \in Tasks, NEW c \in CommandMessages, Return(a, c)
    PROVE  /\ TasksOK' /\ cmd' \in CommandMessages
           /\ \E p \in {Home(a), "dead"} : pc' = [pc EXCEPT ![a] = p]
           /\ a = "audio" => pc' = [pc EXCEPT ![a] = "read"]
<1>1. Home(a) \in StatesOf(a) /\ "due" \in Replies /\ "dead" \in StatesOf("ctrl")
  BY DEF Home, StatesOf, CtrlStates, AudioStates, Replies, Tasks
<1>2. NoCmd \in CommandMessages
  BY DEF NoCmd, CommandMessages
<1>3. cmd' \in CommandMessages
  BY <1>2 DEF Return
<1>4. CASE Goto(a, Home(a), "due")
  BY <1>1, <1>3, <1>4, GotoFrame DEF Home
<1>5. CASE a = "ctrl" /\ Goto(a, "dead", "due")
  BY <1>1, <1>3, <1>5, GotoFrame
<1>6. QED
  BY <1>4, <1>5 DEF Return

LEMMA FinishFrame ==
    ASSUME TasksOK, faults \in 0 .. MaxFaults, held \in [Tasks -> Nat],
           NEW a \in Tasks, NEW s, NEW c \in CommandMessages, Finish(a, s, c)
    PROVE  /\ TasksOK'
           /\ \E p \in {Home(a), "dead"} : pc' = [pc EXCEPT ![a] = p]
           /\ a = "audio" => pc' = [pc EXCEPT ![a] = "read"]
           /\ held' = [held EXCEPT ![a] = None]
           /\ announced' \in {announced, s}
           /\ cmd' \in CommandMessages
           /\ faults' \in 0 .. MaxFaults
           /\ Between(faults)
<1>1. Return(a, c)
  BY DEF Finish
<1>2. held' = [held EXCEPT ![a] = None] /\ announced' \in {announced, s}
  BY DEF Finish
<1>3. faults' \in 0 .. MaxFaults /\ Between(faults)
  BY BoundsAssumption DEF Finish, Fault, Bounds, Between
<1>4. QED
  BY <1>1, <1>2, <1>3, ReturnFrame

\* Going idle clears the session and the key, or loses a call, or had no key to
\* clear.
LEMMA GoIdleFrame ==
    ASSUME TypeOK, NEW a \in Tasks, GoIdle(a)
    PROVE  /\ TasksOK' /\ faults' \in 0 .. MaxFaults /\ Between(faults)
           /\ \E p \in {"delete", "dead", Home(a)} : pc' = [pc EXCEPT ![a] = p]
           /\ held' \in [Tasks -> 0 .. lastSid]
           /\ announced' \in {announced, None}
           /\ cmd' \in CommandMessages
           /\ session_id' = None
           /\ kv' \in {kv, None}
           /\ kv_ready => kv' = None \/ faults' = faults + 1
<1> USE DEF TypeOK
<1>0. held \in [Tasks -> Nat] /\ None \in 0 .. lastSid
  BY DEF None
<1>1. CASE kv_ready
  <2>1. PICK stored \in BOOLEAN :
           Call(a, "delete", stored) /\ kv' = ClearedKv(stored)
    BY <1>1 DEF GoIdle
  <2>2. "delete" \in StatesOf(a)
    BY DEF StatesOf, CtrlStates, AudioStates
  <2>3. /\ TasksOK' /\ pc' = [pc EXCEPT ![a] = "delete"]
        /\ faults' \in 0 .. MaxFaults /\ Between(faults)
        /\ ~stored => faults' = faults + 1
    BY <2>1, <2>2, CallFrame
  <2>4. UNCHANGED <<cmd, announced, held>> /\ session_id' = None
    BY <1>1 DEF GoIdle
  <2>5. QED
    BY <2>1, <2>3, <2>4 DEF ClearedKv
<1>2. CASE ~kv_ready
  <2>1. Finish(a, None, cmd) /\ session_id' = None /\ kv' = kv
    BY <1>2 DEF GoIdle
  <2>2. /\ TasksOK' /\ \E p \in {Home(a), "dead"} : pc' = [pc EXCEPT ![a] = p]
        /\ held' = [held EXCEPT ![a] = None]
        /\ announced' \in {announced, None} /\ cmd' \in CommandMessages
        /\ faults' \in 0 .. MaxFaults /\ Between(faults)
    BY <1>0, <2>1, FinishFrame
  <2>3. QED
    BY <1>0, <1>2, <2>1, <2>2
<1>3. QED
  BY <1>1, <1>2

\* Publishing the marker touches the live stream and the task that stops.
LEMMA PublishEosFrame ==
    ASSUME TypeOK, NEW a \in Tasks, PublishEos(a)
    PROVE  /\ TasksOK' /\ faults' \in 0 .. MaxFaults /\ Between(faults)
           /\ pc' = [pc EXCEPT ![a] = "eos"]
           /\ held' \in [Tasks -> 0 .. lastSid]
           /\ live' \in [Ids -> LiveStates]
           /\ UNCHANGED <<session_id, kv, announced>>
<1> USE DEF TypeOK
<1>1. PICK stored \in BOOLEAN :
         /\ Call(a, "eos", stored)
         /\ live' = IF stored THEN AppendEos(session_id) ELSE live
  BY DEF PublishEos
<1>2. "eos" \in StatesOf(a)
  BY DEF StatesOf, CtrlStates, AudioStates
<1>3. /\ TasksOK' /\ pc' = [pc EXCEPT ![a] = "eos"]
      /\ faults' \in 0 .. MaxFaults /\ Between(faults)
  BY <1>1, <1>2, CallFrame
<1>4. live' \in [Ids -> LiveStates]
  BY <1>1 DEF AppendEos, LiveStates
<1>5. held' \in [Tasks -> 0 .. lastSid] /\ UNCHANGED <<session_id, kv, announced>>
  BY DEF PublishEos
<1>6. QED
  BY <1>3, <1>4, <1>5
-----------------------------------------------------------------------------
(* Type correctness.                                                       *)

LEMMA InitType == Init => TypeOK
<1> SUFFICES ASSUME Init PROVE TypeOK
  OBVIOUS
<1> USE DEF Init, None
<1>1. TasksOK
  BY DEF TasksOK, Home, Tasks, StatesOf, CtrlStates, AudioStates, Replies
<1>2. cmd \in CommandMessages
  BY DEF NoCmd, CommandMessages
<1>3. /\ flush \in [Ids -> FlushStates] /\ live \in [Ids -> LiveStates]
      /\ unread \in [Ids -> SUBSET Eras] /\ backfill \in [Ids -> SUBSET Eras]
  BY DEF FlushStates, LiveStates
<1>4. /\ lastSid \in 0 .. MaxSessions /\ faults \in 0 .. MaxFaults
      /\ outages \in 0 .. MaxOutages /\ crashes \in 0 .. MaxCrashes
      /\ commands \in 0 .. MaxCommands
  BY BoundsAssumption DEF Bounds
<1>5. held \in [Tasks -> 0 .. lastSid] /\ preroll \in SUBSET Eras
  OBVIOUS
<1>6. silence \in Nat /\ quiet \in Nat /\ timeout \in Nat \ {0}
  BY DefaultAssumption
<1>7. up \in BOOLEAN /\ kv_ready \in BOOLEAN
  OBVIOUS
<1>8. /\ session_id \in 0 .. lastSid /\ kv \in 0 .. lastSid
      /\ announced \in 0 .. lastSid
  OBVIOUS
<1> HIDE DEF Init
<1>9. QED
  BY <1>1, <1>2, <1>3, <1>4, <1>5, <1>6, <1>7, <1>8 DEF TypeOK

\* While the KV write of a start is awaited no session is active, and the task
\* holds the newest id.
PutHolds == pc["ctrl"] = "put" => /\ session_id = None
                                  /\ held["ctrl"] = lastSid
                                  /\ lastSid # None

\* Every action keeps the types; the era of a chunk needs PutHolds.
LEMMA TypeStep == TypeOK /\ PutHolds /\ [Next]_vars => TypeOK'
<1> SUFFICES ASSUME TypeOK, PutHolds, [Next]_vars PROVE TypeOK'
  OBVIOUS
<1> USE DEF memory, flushes, nats, counters
<1>a. /\ TasksOK /\ faults \in 0 .. MaxFaults
      /\ held \in [Tasks -> Nat] /\ held \in [Tasks -> 0 .. lastSid]
      /\ lastSid \in Nat /\ MaxSessions \in Nat
  BY BoundsAssumption DEF TypeOK, Bounds
<1>b. /\ DefaultTimeout \in Nat \ {0}
      /\ \A n \in Timeouts : n \in Nat \ {0}
      /\ None \in 0 .. lastSid
  BY <1>a, DefaultAssumption, TimeoutsAssumption DEF None
<1>c. "ctrl" \in Tasks /\ "audio" \in Tasks
  BY DEF Tasks
<1>d. Delivered \in CommandMessages /\ NoCmd \in CommandMessages
  BY DEF TypeOK, Delivered, NoCmd, CommandMessages
<1>e. ASSUME NEW n \in Nat, NEW l PROVE CountSilence(n, l) \in Nat
  BY DEF CountSilence
<1>1. CASE StartSession
  <2>1. PICK stored \in BOOLEAN : /\ Call("ctrl", "put", stored)
                                  /\ kv' = IF stored THEN lastSid + 1 ELSE kv
    BY <1>1 DEF StartSession
  <2>2. "put" \in StatesOf("ctrl")
    BY DEF StatesOf, CtrlStates
  <2>3. TasksOK' /\ faults' \in 0 .. MaxFaults
    BY <1>a, <1>c, <2>1, <2>2, CallFrame
  <2>4. lastSid' = lastSid + 1 /\ lastSid' \in 0 .. MaxSessions
    BY <1>1, <1>a DEF StartSession, StartServed, TypeOK
  <2>5. kv' \in 0 .. lastSid'
    BY <1>a, <2>1, <2>4 DEF TypeOK
  <2>6. /\ 0 .. lastSid \subseteq 0 .. lastSid' /\ lastSid + 1 \in 0 .. lastSid'
    BY <1>a, <2>4
  <2>7. held' \in [Tasks -> 0 .. lastSid']
    BY <1>1, <1>a, <2>6 DEF StartSession
  <2>8. session_id \in 0 .. lastSid' /\ announced \in 0 .. lastSid'
    BY <2>6 DEF TypeOK
  <2>9. QED
    BY <1>1, <1>d, <2>3, <2>4, <2>5, <2>7, <2>8 DEF StartSession, TypeOK
<1>2. CASE PutReply
  <2>1. "config" \in StatesOf("ctrl") /\ "due" \in Replies
    BY DEF StatesOf, CtrlStates, Replies
  <2>2. TasksOK'
    BY <1>2, <1>a, <1>c, <2>1, GotoFrame DEF PutReply
  <2>3. session_id' \in 0 .. lastSid
    BY <1>2, <1>a, <1>c DEF PutReply
  <2>4. QED
    BY <1>2, <1>b, <2>2, <2>3 DEF PutReply, TypeOK
<1>3. CASE ConfigReply
  <2>1. Finish("ctrl", held["ctrl"], cmd) /\ cmd \in CommandMessages
    BY <1>3 DEF ConfigReply, TypeOK
  <2>2. /\ TasksOK' /\ held' = [held EXCEPT !["ctrl"] = None]
        /\ announced' \in {announced, held["ctrl"]}
        /\ cmd' \in CommandMessages /\ faults' \in 0 .. MaxFaults
    BY <1>a, <1>c, <2>1, FinishFrame
  <2>3. held' \in [Tasks -> 0 .. lastSid] /\ announced' \in 0 .. lastSid
    BY <1>a, <1>b, <1>c, <2>2 DEF TypeOK
  <2>4. flush' \in [Ids -> FlushStates]
    BY <1>3 DEF ConfigReply, TypeOK, FlushStates
  <2>5. timeout' \in Nat \ {0} /\ silence' \in Nat
    BY <1>3, <1>b DEF ConfigReply, CountReset
  <2>6. QED
    BY <1>3, <2>2, <2>3, <2>4, <2>5 DEF ConfigReply, TypeOK
<1>4. CASE StartWithoutKv
  <2>1. Finish("ctrl", lastSid + 1, Delivered)
    BY <1>4 DEF StartWithoutKv
  <2>2. /\ TasksOK' /\ held' = [held EXCEPT !["ctrl"] = None]
        /\ announced' \in {announced, lastSid + 1}
        /\ cmd' \in CommandMessages /\ faults' \in 0 .. MaxFaults
    BY <1>a, <1>c, <1>d, <2>1, FinishFrame
  <2>3. lastSid' = lastSid + 1 /\ lastSid' \in 0 .. MaxSessions
    BY <1>4, <1>a DEF StartWithoutKv, StartServed, TypeOK
  <2>4. /\ held' \in [Tasks -> 0 .. lastSid'] /\ announced' \in 0 .. lastSid'
        /\ session_id' \in 0 .. lastSid' /\ kv' \in 0 .. lastSid'
    BY <1>4, <1>a, <1>b, <1>c, <2>2, <2>3 DEF StartWithoutKv, TypeOK
  <2>5. flush' \in [Ids -> FlushStates]
    BY <1>4 DEF StartWithoutKv, TypeOK, FlushStates
  <2>6. QED
    BY <1>4, <1>b, <2>2, <2>3, <2>4, <2>5 DEF StartWithoutKv, CountReset, TypeOK
<1>5. CASE IgnoreCommand
  <2>1. cmd' \in CommandMessages /\ TasksOK'
    BY <1>5, <1>a, <1>c, <1>d, ReturnFrame DEF IgnoreCommand
  <2>2. faults' \in 0 .. MaxFaults
    BY <1>5, <1>a, BoundsAssumption DEF IgnoreCommand, Fault, Bounds
  <2>3. QED
    BY <1>5, <2>1, <2>2 DEF IgnoreCommand, TypeOK
<1>6. CASE StopCommand
  <2>1. PublishEos("ctrl")
    BY <1>6 DEF StopCommand
  <2>2. /\ TasksOK' /\ faults' \in 0 .. MaxFaults
        /\ held' \in [Tasks -> 0 .. lastSid] /\ live' \in [Ids -> LiveStates]
        /\ UNCHANGED <<session_id, kv, announced>>
    BY <1>c, <2>1, PublishEosFrame
  <2>3. QED
    BY <1>6, <1>d, <2>2 DEF StopCommand, TypeOK
<1>7. ASSUME NEW a \in Tasks, EosReply(a) PROVE TypeOK'
  <2>1. /\ TasksOK' /\ faults' \in 0 .. MaxFaults
        /\ held' \in [Tasks -> 0 .. lastSid]
        /\ announced' \in {announced, None} /\ cmd' \in CommandMessages
        /\ session_id' = None /\ kv' \in {kv, None}
    BY <1>7, GoIdleFrame DEF EosReply
  <2>2. QED
    BY <1>7, <1>b, <2>1 DEF EosReply, TypeOK
<1>8. ASSUME NEW a \in Tasks, DeleteReply(a) PROVE TypeOK'
  <2>1. Finish(a, None, cmd) /\ cmd \in CommandMessages
    BY <1>8 DEF DeleteReply, TypeOK
  <2>2. /\ TasksOK' /\ held' = [held EXCEPT ![a] = None]
        /\ announced' \in {announced, None}
        /\ cmd' \in CommandMessages /\ faults' \in 0 .. MaxFaults
    BY <1>8, <1>a, <2>1, FinishFrame
  <2>3. held' \in [Tasks -> 0 .. lastSid]
    BY <1>a, <1>b, <2>2
  <2>4. QED
    BY <1>8, <1>b, <2>2, <2>3 DEF DeleteReply, TypeOK
<1>9. CASE PrerollChunk
  <2>1. Started \in Eras
    BY <1>a DEF Started, TypeOK, PutHolds, Eras, None
  <2>2. QED
    BY <1>9, <2>1 DEF PrerollChunk, tasks, TypeOK, TasksOK
<1>10. CASE LiveChunk
  <2>1. PICK stored \in BOOLEAN :
           /\ Call("audio", "live", stored)
           /\ live' = IF stored THEN AppendChunk(session_id) ELSE live
    BY <1>10 DEF LiveChunk
  <2>2. "live" \in StatesOf("audio")
    BY DEF StatesOf, AudioStates
  <2>3. TasksOK' /\ faults' \in 0 .. MaxFaults
    BY <1>a, <1>c, <2>1, <2>2, CallFrame
  <2>4. live' \in [Ids -> LiveStates]
    BY <2>1 DEF AppendChunk, TypeOK, LiveStates
  <2>5. held' \in [Tasks -> 0 .. lastSid]
    BY <1>10, <1>a DEF LiveChunk, TypeOK
  <2>6. QED
    BY <1>10, <2>3, <2>4, <2>5 DEF LiveChunk, TypeOK
<1>11. CASE LiveLost
  <2>1. "read" \in StatesOf("audio") /\ "due" \in Replies
    BY DEF StatesOf, AudioStates, Replies
  <2>2. TasksOK'
    BY <1>11, <1>a, <1>c, <2>1, GotoFrame DEF LiveLost
  <2>3. QED
    BY <1>11, <1>a, <1>b, <2>2 DEF LiveLost, TypeOK
<1>12. CASE LiveReply
  <2>1. silence' \in Nat /\ quiet' \in Nat
    BY <1>12, <1>e DEF LiveReply, TypeOK
  <2>2. CASE /\ Goto("audio", "read", "due")
             /\ held' = [held EXCEPT !["audio"] = None]
             /\ UNCHANGED <<session_id, cmd, kv, live, announced, faults>>
    <3>1. "read" \in StatesOf("audio") /\ "due" \in Replies
      BY DEF StatesOf, AudioStates, Replies
    <3>2. TasksOK'
      BY <2>2, <1>a, <1>c, <3>1, GotoFrame
    <3>3. QED
      BY <1>12, <1>a, <1>b, <2>1, <2>2, <3>2 DEF LiveReply, TypeOK
  <2>3. CASE PublishEos("audio") /\ UNCHANGED cmd
    <3>1. /\ TasksOK' /\ faults' \in 0 .. MaxFaults
          /\ held' \in [Tasks -> 0 .. lastSid] /\ live' \in [Ids -> LiveStates]
          /\ UNCHANGED <<session_id, kv, announced>>
      BY <1>c, <2>3, PublishEosFrame
    <3>2. QED
      BY <1>12, <2>1, <2>3, <3>1 DEF LiveReply, TypeOK
  <2>4. CASE GoIdle("audio") /\ UNCHANGED live
    <3>1. /\ TasksOK' /\ faults' \in 0 .. MaxFaults
          /\ held' \in [Tasks -> 0 .. lastSid]
          /\ announced' \in {announced, None} /\ cmd' \in CommandMessages
          /\ session_id' = None /\ kv' \in {kv, None}
      BY <1>c, <2>4, GoIdleFrame
    <3>2. QED
      BY <1>12, <1>b, <2>1, <2>4, <3>1 DEF LiveReply, TypeOK
  <2>5. QED
    BY <1>12, <2>2, <2>3, <2>4 DEF LiveReply
<1>13. ASSUME NEW s \in Ids, Flush(s) PROVE TypeOK'
  <2>1. flush' \in [Ids -> FlushStates]
    BY <1>13 DEF Flush, FlushSubscribe, FlushCopy, FlushEnd, TypeOK, FlushStates
  <2>2. unread' \in [Ids -> SUBSET Eras] /\ backfill' \in [Ids -> SUBSET Eras]
    BY <1>13 DEF Flush, FlushSubscribe, FlushCopy, FlushEnd, TypeOK
  <2>3. faults' \in 0 .. MaxFaults
    BY <1>13, <1>a, BoundsAssumption
       DEF Flush, FlushSubscribe, FlushCopy, FlushEnd, Fault, Bounds
  <2>4. UNCHANGED <<up, memory, tasks, cmd, kv, live, preroll, announced,
                    lastSid, quiet, counters>>
    BY <1>13 DEF Flush, FlushSubscribe, FlushCopy, FlushEnd
  <2>5. QED
    BY <2>1, <2>2, <2>3, <2>4 DEF tasks, TypeOK, TasksOK
<1>14. ASSUME NEW k \in Commands, Command(k) PROVE TypeOK'
  <2>1. cmd' \in CommandMessages
    BY <1>14 DEF Command, CommandMessages
  <2>2. commands' \in 0 .. MaxCommands
    BY <1>14, BoundsAssumption DEF Command, TypeOK, Bounds
  <2>3. QED
    BY <1>14, <2>1, <2>2 DEF Command, tasks, TypeOK, TasksOK
<1>15. CASE ExpireCommand
  BY <1>15, <1>d DEF ExpireCommand, tasks, TypeOK, TasksOK
<1>16. CASE Crash
  <2>1. TasksOK'
    BY <1>16 DEF Crash, TasksOK, Home, Tasks, StatesOf, CtrlStates, AudioStates,
                 Replies
  <2>2. held' \in [Tasks -> 0 .. lastSid]
    BY <1>16, <1>b DEF Crash
  <2>3. flush' \in [Ids -> FlushStates] /\ unread' \in [Ids -> SUBSET Eras]
    BY <1>16 DEF Crash, TypeOK, FlushStates
  <2>4. crashes' \in 0 .. MaxCrashes
    BY <1>16, BoundsAssumption DEF Crash, TypeOK, Bounds
  <2>5. QED
    BY <1>16, <1>b, <2>1, <2>2, <2>3, <2>4 DEF Crash, TypeOK
<1>17. CASE Boot
  <2>1. session_id' \in 0 .. lastSid
    BY <1>17, <1>b DEF Boot, Recovered, TypeOK
  <2>2. TasksOK'
    BY <1>17 DEF Boot, TypeOK, TasksOK, StatesOf, CtrlStates, Tasks
  <2>3. outages' \in 0 .. MaxOutages /\ faults' \in 0 .. MaxFaults
    BY <1>17, BoundsAssumption DEF Boot, Fault, TypeOK, Bounds
  <2>4. kv_ready' \in BOOLEAN /\ up' \in BOOLEAN
    BY <1>17 DEF Boot
  <2>5. QED
    BY <1>17, <2>1, <2>2, <2>3, <2>4 DEF Boot, TypeOK
<1>18. CASE UNCHANGED vars
  BY <1>18 DEF vars, tasks, TypeOK, TasksOK
<1>19. QED
  BY <1>1, <1>2, <1>3, <1>4, <1>5, <1>6, <1>7, <1>8, <1>9, <1>10, <1>11, <1>12,
     <1>13, <1>14, <1>15, <1>16, <1>17, <1>18, <1>c
     DEF Next, Control, Answer, Stop

-----------------------------------------------------------------------------
(* What a step does to the session, its id and its key.                    *)

\* Whether a KV write is awaited, and for which session, stays as it is.
SamePut == /\ (pc'["ctrl"] = "put") <=> (pc["ctrl"] = "put")
           /\ pc["ctrl"] = "put" => held'["ctrl"] = held["ctrl"]

\* The session, its key and the process are left alone.
Steady == /\ SamePut /\ Between(faults)
          /\ up \/ UNCHANGED pc
          /\ UNCHANGED <<up, kv_ready, session_id, kv, lastSid, outages>>

\* The second half of a stop.
GoesIdle == /\ SamePut /\ Between(faults)
            /\ up /\ session_id' = None /\ kv' \in {kv, None}
            /\ kv_ready => kv' = None \/ faults' = faults + 1
            /\ UNCHANGED <<up, kv_ready, lastSid, outages>>

\* A stop that goes idle, in either task.
LEMMA GoIdleKind ==
    ASSUME TypeOK, NEW a \in Tasks, pc["ctrl"] = "put" => a # "ctrl", up,
           GoIdle(a), UNCHANGED <<up, kv_ready, lastSid, outages>>
    PROVE  GoesIdle
<1>1. /\ Between(faults) /\ session_id' = None /\ kv' \in {kv, None}
      /\ \E p \in {"delete", "dead", Home(a)} : pc' = [pc EXCEPT ![a] = p]
      /\ kv_ready => kv' = None \/ faults' = faults + 1
  BY GoIdleFrame
<1>2. (pc'["ctrl"] = "put") <=> (pc["ctrl"] = "put")
  BY <1>1 DEF TypeOK, TasksOK, Home, Tasks
<1>3. pc["ctrl"] = "put" => held'["ctrl"] = held["ctrl"]
  BY DEF GoIdle, Finish, TypeOK, Tasks
<1>4. QED
  BY <1>1, <1>2, <1>3 DEF GoesIdle, SamePut

\* Every step is one of five that matter here, or steady, or half a stop.
LEMMA StepKinds ==
    ASSUME TypeOK, [Next]_vars
    PROVE  \/ Steady \/ GoesIdle
           \/ StartSession \/ PutReply \/ StartWithoutKv \/ Crash \/ Boot
<1> USE DEF memory, tasks, flushes, nats, counters
<1>a. /\ TasksOK /\ faults \in 0 .. MaxFaults /\ held \in [Tasks -> Nat]
      /\ cmd \in CommandMessages /\ pc \in [Tasks -> CtrlStates \cup AudioStates]
  BY BoundsAssumption DEF TypeOK, TasksOK, Bounds
<1>b. "ctrl" \in Tasks /\ "audio" \in Tasks
  BY DEF Tasks
<1>c. Delivered \in CommandMessages
  BY DEF TypeOK, Delivered, CommandMessages
<1>1. CASE ConfigReply
  <2>1. /\ Between(faults)
        /\ \E p \in {"fetch", "dead"} : pc' = [pc EXCEPT !["ctrl"] = p]
    BY <1>1, <1>a, <1>b, FinishFrame DEF ConfigReply, Home
  <2>2. QED
    BY <1>1, <1>a, <1>b, <2>1 DEF ConfigReply, Awaits, Steady, SamePut
<1>2. CASE IgnoreCommand
  <2>1. \E p \in {"fetch", "dead"} : pc' = [pc EXCEPT !["ctrl"] = p]
    BY <1>2, <1>a, <1>b, <1>c, ReturnFrame DEF IgnoreCommand, Home
  <2>2. QED
    BY <1>2, <1>a, <1>b, <2>1
       DEF IgnoreCommand, Fetched, Fault, Steady, SamePut, Between
<1>3. CASE StopCommand
  <2>1. /\ Between(faults) /\ pc' = [pc EXCEPT !["ctrl"] = "eos"]
        /\ UNCHANGED <<session_id, kv, announced>>
    BY <1>3, <1>b, PublishEosFrame DEF StopCommand
  <2>2. QED
    BY <1>3, <1>a, <1>b, <2>1 DEF StopCommand, Fetched, Steady, SamePut
<1>4. ASSUME NEW a \in Tasks, EosReply(a) PROVE GoesIdle
  BY <1>4, GoIdleKind DEF EosReply, Awaits
<1>5. ASSUME NEW a \in Tasks, DeleteReply(a) PROVE Steady
  <2>1. /\ Between(faults)
        /\ \E p \in {Home(a), "dead"} : pc' = [pc EXCEPT ![a] = p]
        /\ held' = [held EXCEPT ![a] = None]
    BY <1>5, <1>a, FinishFrame DEF DeleteReply
  <2>2. QED
    BY <1>5, <1>a, <1>b, <2>1 DEF DeleteReply, Awaits, Steady, SamePut, Home
<1>6. CASE PrerollChunk
  BY <1>6 DEF PrerollChunk, Steady, SamePut, Between
<1>7. CASE LiveChunk
  <2>1. Between(faults) /\ pc' = [pc EXCEPT !["audio"] = "live"]
    <3>1. PICK stored \in BOOLEAN : Call("audio", "live", stored)
      BY <1>7 DEF LiveChunk
    <3>2. "live" \in StatesOf("audio")
      BY DEF StatesOf, AudioStates
    <3>3. QED
      BY <1>a, <1>b, <3>1, <3>2, CallFrame
  <2>2. QED
    BY <1>7, <1>a, <1>b, <2>1 DEF LiveChunk, Steady, SamePut
<1>8. CASE LiveLost
  BY <1>8, <1>a, <1>b DEF LiveLost, Awaits, Goto, Steady, SamePut, Between
<1>9. CASE LiveReply
  <2>1. CASE /\ Goto("audio", "read", "due")
             /\ held' = [held EXCEPT !["audio"] = None]
             /\ UNCHANGED <<session_id, cmd, kv, live, announced, faults>>
    BY <1>9, <1>a, <1>b, <2>1 DEF LiveReply, Awaits, Goto, Steady, SamePut,
                                      Between
  <2>2. CASE PublishEos("audio")
    <3>1. /\ Between(faults) /\ pc' = [pc EXCEPT !["audio"] = "eos"]
          /\ UNCHANGED <<session_id, kv, announced>>
      BY <2>2, <1>b, PublishEosFrame
    <3>2. QED
      BY <1>9, <1>a, <1>b, <2>2, <3>1 DEF LiveReply, Awaits, PublishEos,
                                            Steady, SamePut
  <2>3. CASE GoIdle("audio")
    BY <1>9, <1>b, <2>3, GoIdleKind DEF LiveReply, Awaits
  <2>4. QED
    BY <1>9, <2>1, <2>2, <2>3 DEF LiveReply
<1>10. ASSUME NEW s \in Ids, Flush(s) PROVE Steady
  BY <1>10 DEF Flush, FlushSubscribe, FlushCopy, FlushEnd, Fault, Steady,
               SamePut, Between
<1>11. ASSUME NEW k \in Commands, Command(k) PROVE Steady
  BY <1>11 DEF Command, Steady, SamePut, Between
<1>12. CASE ExpireCommand
  BY <1>12 DEF ExpireCommand, Steady, SamePut, Between
<1>13. CASE UNCHANGED vars
  BY <1>13 DEF vars, Steady, SamePut, Between
<1>14. QED
  BY <1>1, <1>2, <1>3, <1>4, <1>5, <1>6, <1>7, <1>8, <1>9, <1>10, <1>11, <1>12,
     <1>13, <1>b DEF Next, Control, Answer, Stop
-----------------------------------------------------------------------------
(* The inductive invariant: types, and what relates the session in memory   *)
(* to its key.                                                              *)

\* A process that is down has forgotten everything.
DownIdle == ~up => session_id = None /\ pc = [a \in Tasks |-> Home(a)]

\* Only an outage at boot leaves a process without its buckets.
ReadyKv == up /\ outages = 0 => kv_ready

\* An idle process left its key behind only if a call was lost: the premise
\* that makes a start write the key over nothing, or over one lost delete.
KvBehind == up /\ outages = 0 /\ session_id = None /\ pc["ctrl"] # "put"
            => kv = None \/ faults >= 1

SessionInv == PutHolds /\ DownIdle /\ ReadyKv /\ KvBehind /\ KvNamesLatest
IInv == TypeOK /\ SessionInv

LEMMA InitInv == Init => IInv
<1> SUFFICES ASSUME Init PROVE IInv
  OBVIOUS
<1>1. PutHolds /\ DownIdle /\ ReadyKv /\ KvBehind /\ KvNamesLatest
  BY DEF Init, PutHolds, DownIdle, ReadyKv, KvBehind, KvNamesLatest, Home, Tasks
<1>2. QED
  BY <1>1, InitType DEF IInv, SessionInv

\* A start: the KV write is issued while the key is empty, or a call was lost.
LEMMA StartInv == IInv /\ StartSession => SessionInv'
<1> SUFFICES ASSUME IInv, StartSession PROVE SessionInv'
  OBVIOUS
<1> USE DEF memory, counters, TypeOK
<1>a. /\ TypeOK /\ PutHolds /\ ReadyKv /\ KvBehind /\ KvNamesLatest
      /\ faults \in Nat /\ outages \in Nat /\ lastSid \in Nat
  BY BoundsAssumption DEF IInv, SessionInv, Bounds
<1>1. PICK stored \in BOOLEAN : /\ Call("ctrl", "put", stored)
                                /\ kv' = IF stored THEN lastSid + 1 ELSE kv
  BY DEF StartSession
<1>2. "ctrl" \in Tasks /\ "put" \in StatesOf("ctrl")
  BY DEF Tasks, StatesOf, CtrlStates
<1>3. /\ pc' = [pc EXCEPT !["ctrl"] = "put"] /\ Between(faults)
      /\ ~stored => faults' = faults + 1
  BY <1>a, <1>1, <1>2, CallFrame
<1>4. pc["ctrl"] = "fetch" /\ up /\ session_id = None /\ kv_ready
  BY DEF StartSession, StartServed, Fetched, is_active
<1>5. /\ UNCHANGED <<up, kv_ready, session_id, outages>>
      /\ lastSid' = lastSid + 1 /\ held'["ctrl"] = lastSid'
  BY <1>a, <1>2 DEF StartSession
<1>6. pc'["ctrl"] = "put"
  BY <1>a, <1>2, <1>3 DEF TasksOK
<1>7. PutHolds' /\ DownIdle' /\ ReadyKv' /\ KvBehind'
  BY <1>a, <1>4, <1>5, <1>6 DEF PutHolds, DownIdle, ReadyKv, KvBehind, None
<1>8. KvNamesLatest'
  BY <1>a, <1>1, <1>3, <1>4, <1>5 DEF KvNamesLatest, KvBehind, Between
<1>9. QED
  BY <1>7, <1>8 DEF SessionInv

\* Going idle empties the key, or loses a call.
LEMMA IdleInv == IInv /\ GoesIdle => SessionInv'
<1> SUFFICES ASSUME IInv, GoesIdle PROVE SessionInv'
  OBVIOUS
<1>a. /\ faults \in Nat /\ outages \in Nat
      /\ PutHolds /\ ReadyKv /\ KvBehind /\ KvNamesLatest
  BY BoundsAssumption DEF IInv, SessionInv, TypeOK, Bounds
<1>1. PutHolds' /\ DownIdle' /\ ReadyKv'
  BY <1>a DEF GoesIdle, SamePut, PutHolds, DownIdle, ReadyKv
<1>2. KvBehind' /\ KvNamesLatest'
  BY <1>a DEF GoesIdle, SamePut, Between, ReadyKv, KvBehind, KvNamesLatest
<1>3. QED
  BY <1>1, <1>2 DEF SessionInv

\* A boot resumes the session of the key, or loses a call.
LEMMA BootInv == IInv /\ Boot => SessionInv'
<1> SUFFICES ASSUME IInv, Boot PROVE SessionInv'
  OBVIOUS
<1>a. /\ faults \in Nat /\ outages \in Nat /\ DownIdle /\ KvNamesLatest
  BY BoundsAssumption DEF IInv, SessionInv, TypeOK, Bounds
<1>1. /\ ~up /\ up' /\ UNCHANGED <<lastSid, kv>>
      /\ kv_ready' \/ outages' = outages + 1
      /\ outages' = outages \/ outages' = outages + 1
  BY DEF Boot, nats
<1>2. \/ session_id' = Recovered(kv_ready') /\ UNCHANGED faults
      \/ faults' = faults + 1
  BY DEF Boot, Fault
<1>3. pc["ctrl"] = "fetch" /\ pc'["ctrl"] # "put"
  BY <1>a, <1>1 DEF DownIdle, Boot, Home, Tasks
<1>4. PutHolds' /\ DownIdle'
  BY <1>1, <1>3 DEF PutHolds, DownIdle
<1>5. ReadyKv'
  BY <1>a, <1>1 DEF ReadyKv
<1>6. KvBehind' /\ KvNamesLatest'
  BY <1>a, <1>1, <1>2 DEF Recovered, KvBehind, KvNamesLatest
<1>7. QED
  BY <1>4, <1>5, <1>6 DEF SessionInv

LEMMA SessionStep == IInv /\ [Next]_vars => SessionInv'
<1> SUFFICES ASSUME IInv, [Next]_vars PROVE SessionInv'
  OBVIOUS
<1> USE DEF memory, nats, counters
<1>a. /\ TypeOK /\ PutHolds /\ DownIdle /\ ReadyKv /\ KvBehind /\ KvNamesLatest
      /\ faults \in Nat /\ outages \in Nat /\ lastSid \in Nat
      /\ pc \in [Tasks -> CtrlStates \cup AudioStates] /\ "ctrl" \in Tasks
  BY BoundsAssumption DEF IInv, SessionInv, TypeOK, TasksOK, Tasks, Bounds
<1>1. CASE Steady
  <2>1. PutHolds' /\ ReadyKv' /\ KvBehind' /\ KvNamesLatest'
    BY <1>1, <1>a DEF Steady, SamePut, Between, PutHolds, ReadyKv, KvBehind,
                      KvNamesLatest
  <2>2. DownIdle'
    BY <1>1, <1>a DEF Steady, DownIdle
  <2>3. QED
    BY <2>1, <2>2 DEF SessionInv
<1>2. CASE PutReply
  <2>1. /\ pc["ctrl"] = "put" /\ pc'["ctrl"] = "config" /\ up
        /\ session_id' = held["ctrl"]
        /\ UNCHANGED <<up, kv_ready, kv, lastSid, faults, outages>>
    BY <1>2, <1>a DEF PutReply, Awaits, Goto
  <2>2. QED
    BY <1>a, <2>1 DEF SessionInv, PutHolds, DownIdle, ReadyKv, KvBehind,
                      KvNamesLatest
<1>3. CASE StartWithoutKv
  <2>1. up /\ ~kv_ready /\ pc["ctrl"] = "fetch" /\ outages # 0
    BY <1>3, <1>a DEF StartWithoutKv, StartServed, Fetched, ReadyKv
  <2>2. UNCHANGED <<up, kv_ready, outages>> /\ pc'["ctrl"] # "put"
    BY <1>3, <1>a DEF StartWithoutKv, Finish, Return, Goto, Home
  <2>3. QED
    BY <2>1, <2>2 DEF SessionInv, PutHolds, DownIdle, ReadyKv, KvBehind,
                      KvNamesLatest
<1>4. CASE Crash
  <2>1. /\ ~up' /\ session_id' = None /\ pc' = [b \in Tasks |-> Home(b)]
        /\ UNCHANGED <<kv, lastSid, faults, outages>>
    BY <1>4 DEF Crash
  <2>2. pc'["ctrl"] # "put"
    BY <1>a, <2>1 DEF Home
  <2>3. QED
    BY <1>a, <2>1, <2>2 DEF SessionInv, PutHolds, DownIdle, ReadyKv, KvBehind,
                            KvNamesLatest
<1>5. QED
  BY <1>1, <1>2, <1>3, <1>4, StepKinds, StartInv, IdleInv, BootInv, <1>a

LEMMA StepInv == IInv /\ [Next]_vars => IInv'
BY TypeStep, SessionStep DEF IInv, SessionInv

LEMMA Invariant == Spec => []IInv
<1>1. QED
  BY InitInv, StepInv, PTL DEF Spec

\* Every variable keeps its type.
THEOREM TypeCorrect == Spec => []TypeOK
<1>1. IInv => TypeOK
  BY DEF IInv
<1>2. QED
  BY <1>1, Invariant, PTL

\* Key "current" names the newest session or none, unless two calls were lost
\* or a process ran without its buckets.
THEOREM KvLatest == Spec => []KvNamesLatest
<1>1. IInv => KvNamesLatest
  BY DEF IInv, SessionInv
<1>2. QED
  BY <1>1, Invariant, PTL

\* No step replaces the session of a running process by another one.
THEOREM NeverReplaced == Spec => SessionNeverReplaced
<1>1. ASSUME IInv, [Next]_vars, session_id # None
      PROVE  session_id' \in {session_id, None}
  <2>a. PutHolds /\ DownIdle /\ TypeOK
    BY <1>1 DEF IInv, SessionInv
  <2>1. Steady => session_id' = session_id
    BY DEF Steady
  <2>2. GoesIdle => session_id' = None
    BY DEF GoesIdle
  <2>3. ~StartSession /\ ~StartWithoutKv
    BY <1>1 DEF StartSession, StartWithoutKv, StartServed, is_active
  <2>4. ~PutReply
    BY <1>1, <2>a DEF PutReply, Awaits, PutHolds
  <2>5. Crash => session_id' = None
    BY DEF Crash
  <2>6. ~Boot
    BY <1>1, <2>a DEF Boot, DownIdle
  <2>7. QED
    BY <1>1, <2>a, <2>1, <2>2, <2>3, <2>4, <2>5, <2>6, StepKinds
<1>2. IInv /\ [Next]_vars
      => [session_id # None => session_id' \in {session_id, None}]_session_id
  BY <1>1
<1>3. QED
  BY <1>2, Invariant, PTL DEF Spec, SessionNeverReplaced

-----------------------------------------------------------------------------
(* The refinement.  One lost call and no outage are within what the service *)
(* hides; two lost calls (a delete, then the next put) are not.             *)

FewFaults == MaxFaults \in {0, 1} /\ MaxOutages = 0

\* Under FewFaults the key is the newest session or none, at all times.
LEMMA FewFaultsKv ==
    ASSUME FewFaults, IInv
    PROVE  outages = 0 /\ kv \in {None, lastSid}
  BY DEF FewFaults, IInv, SessionInv, TypeOK, KvNamesLatest

LEMMA LifecycleInit == Init => Lifecycle!Init
  BY DEF Init, Lifecycle!Init, Started, None, Home, Tasks

\* A step of the service is a step of the lifecycle, or none.
LEMMA LifecycleStep ==
    ASSUME FewFaults, IInv, [Next]_vars
    PROVE  [Lifecycle!Next]_<<session_id, Started>>
<1> USE DEF memory, nats, counters, None
<1>a. /\ TypeOK /\ PutHolds /\ DownIdle /\ ReadyKv
      /\ outages = 0 /\ kv \in {None, lastSid}
      /\ lastSid \in Nat /\ session_id \in Nat
      /\ pc \in [Tasks -> CtrlStates \cup AudioStates] /\ "ctrl" \in Tasks
  BY FewFaultsKv, BoundsAssumption
     DEF IInv, SessionInv, TypeOK, TasksOK, Tasks, Bounds
<1>1. CASE Steady
  BY <1>1 DEF Steady, SamePut, Started
<1>2. CASE GoesIdle
  <2>1. session_id' = 0 /\ Started' = Started
    BY <1>2 DEF GoesIdle, SamePut, Started
  <2>2. QED
    BY <2>1 DEF Lifecycle!Next, Lifecycle!End
<1>3. CASE StartSession
  <2>1. /\ pc["ctrl"] = "fetch" /\ UNCHANGED session_id
        /\ lastSid' = lastSid + 1 /\ pc'["ctrl"] = "put"
    BY <1>3, <1>a DEF StartSession, StartServed, Fetched, Call, Goto
  <2>2. QED
    BY <1>a, <2>1 DEF Started
<1>4. CASE PutReply
  <2>1. /\ pc["ctrl"] = "put" /\ pc'["ctrl"] = "config"
        /\ session_id' = held["ctrl"] /\ lastSid' = lastSid
    BY <1>4, <1>a DEF PutReply, Awaits, Goto
  <2>2. /\ session_id = 0 /\ session_id' = lastSid
        /\ Started = lastSid - 1 /\ Started' = lastSid
    BY <1>a, <2>1 DEF PutHolds, Started
  <2>3. QED
    BY <1>a, <2>2 DEF Lifecycle!Next, Lifecycle!Begin
<1>5. CASE StartWithoutKv
  BY <1>5, <1>a DEF StartWithoutKv, StartServed, Fetched, ReadyKv
<1>6. CASE Crash
  <2>1. session_id' = 0 /\ lastSid' = lastSid /\ pc'["ctrl"] = "fetch"
    BY <1>6, <1>a DEF Crash, Home
  <2>2. CASE pc["ctrl"] = "put"
    <3>1. session_id = 0 /\ Started = lastSid - 1 /\ Started' = lastSid
      BY <1>a, <2>1, <2>2 DEF PutHolds, Started
    <3>2. QED
      BY <1>a, <2>1, <3>1 DEF Lifecycle!Next, Lifecycle!Take
  <2>3. CASE pc["ctrl"] # "put"
    BY <2>1, <2>3 DEF Started, Lifecycle!Next, Lifecycle!End
  <2>4. QED
    BY <2>2, <2>3
<1>7. CASE Boot
  <2>1. session_id' \in {0, kv} /\ lastSid' = lastSid
    BY <1>7 DEF Boot, Recovered
  <2>2. session_id = 0 /\ pc["ctrl"] = "fetch" /\ pc'["ctrl"] # "put"
    BY <1>7, <1>a DEF Boot, DownIdle, Home
  <2>3. Started = lastSid /\ Started' = lastSid
    BY <2>1, <2>2 DEF Started
  <2>4. QED
    BY <1>a, <2>1, <2>2, <2>3 DEF Lifecycle!Next, Lifecycle!Resume
<1>8. QED
  BY <1>a, <1>1, <1>2, <1>3, <1>4, <1>5, <1>6, <1>7, StepKinds

\* The service implements the session lifecycle.
THEOREM Refinement ==
    ASSUME FewFaults
    PROVE  Spec => ImplementsLifecycle
<1>1. IInv /\ [Next]_vars => [Lifecycle!Next]_<<session_id, Started>>
  BY LifecycleStep, FewFaults
<1>2. QED
  BY <1>1, LifecycleInit, Invariant, PTL DEF Spec, ImplementsLifecycle, Lifecycle!Spec
-----------------------------------------------------------------------------
(* No session is abandoned, as long as no silence stops a session: with one *)
(* stopper only, the second half of a stop clears the session it was for.   *)

OneStopper == "silent" \notin Levels

AudioNeverStops == pc["audio"] \in {"read", "live"}

\* The key is the session in memory, or the one that is being started.
KeyKept == faults = 0 /\ outages = 0 =>
           /\ session_id # None => kv = session_id
           /\ pc["ctrl"] = "put" => kv = lastSid

EosSent == pc["ctrl"] = "eos" /\ faults = 0 /\ outages = 0 =>
           session_id \in Ids /\ HasEos(session_id)

NamedOrEnded == faults = 0 /\ outages = 0 =>
                \A s \in Ids : s <= lastSid => s = kv \/ HasEos(s)

EndInv == AudioNeverStops /\ KeyKept /\ EosSent /\ NamedOrEnded

\* The marker stays on a live stream.
LEMMA EosStays ==
    ASSUME TypeOK, [Next]_vars, NEW s \in Ids, HasEos(s)
    PROVE  HasEos(s)'
<1> USE DEF nats
<1>a. live \in [Ids -> LiveStates]
  BY DEF TypeOK
<1>1. \A t : live' = AppendChunk(t) => HasEos(s)'
  BY <1>a DEF AppendChunk, HasEos
<1>2. \A t : live' = AppendEos(t) => HasEos(s)'
  BY <1>a DEF AppendEos, HasEos
<1>3. live' = live => HasEos(s)'
  BY DEF HasEos
<1>4. \/ live' = live
      \/ \E t : live' = AppendChunk(t) \/ live' = AppendEos(t)
  <2>1. Control => live' = live \/ \E t : live' = AppendEos(t)
    BY DEF Control, StartSession, PutReply, ConfigReply, StartWithoutKv,
           IgnoreCommand, StopCommand, PublishEos, Stop, EosReply, DeleteReply
  <2>2. Answer => live' = live \/ \E t : live' = AppendEos(t)
    BY DEF Answer, LiveLost, LiveReply, PublishEos, Stop, EosReply, DeleteReply
  <2>3. LiveChunk => live' = live \/ \E t : live' = AppendChunk(t)
    BY DEF LiveChunk
  <2>4. PrerollChunk \/ ExpireCommand \/ Crash \/ Boot \/ UNCHANGED vars
        => live' = live
    BY DEF PrerollChunk, ExpireCommand, Crash, Boot, vars
  <2>5. \A r \in Ids : Flush(r) => live' = live
    BY DEF Flush, FlushSubscribe, FlushCopy, FlushEnd
  <2>6. \A k \in Commands : Command(k) => live' = live
    BY DEF Command
  <2>7. QED
    BY <2>1, <2>2, <2>3, <2>4, <2>5, <2>6 DEF Next
<1>5. QED
  BY <1>1, <1>2, <1>3, <1>4

\* Who may be publishing a marker, and when the key changes.
MarkerBegun == pc'["ctrl"] = "eos" =>
               StopCommand \/ (pc["ctrl"] = "eos" /\ UNCHANGED session_id)
KeyWritten  == UNCHANGED kv \/ StartSession \/ pc["ctrl"] = "eos"

\* With nothing silent to hear, the audio task never stops a session.
LEMMA OneStopperStep ==
    ASSUME OneStopper, TypeOK, DownIdle, AudioNeverStops, [Next]_vars
    PROVE  AudioNeverStops' /\ MarkerBegun /\ KeyWritten
<1> USE DEF memory, tasks, nats, AudioNeverStops, MarkerBegun, KeyWritten
<1>a. /\ pc \in [Tasks -> CtrlStates \cup AudioStates]
      /\ "ctrl" \in Tasks /\ "audio" \in Tasks
      /\ \A a \in Tasks : a \in {"ctrl", "audio"}
  BY DEF TypeOK, TasksOK, Tasks
<1>1. CASE StartSession
  BY <1>1, <1>a DEF StartSession, Call, Goto
<1>2. CASE PutReply
  BY <1>2, <1>a DEF PutReply, Goto
<1>3. CASE ConfigReply
  BY <1>3, <1>a DEF ConfigReply, Finish, Return, Goto, Home
<1>4. CASE StartWithoutKv
  BY <1>4, <1>a DEF StartWithoutKv, Finish, Return, Goto, Home
<1>5. CASE IgnoreCommand
  BY <1>5, <1>a DEF IgnoreCommand, Return, Goto, Home
<1>6. CASE StopCommand
  BY <1>6, <1>a DEF StopCommand, PublishEos, Call, Goto
<1>7. ASSUME NEW a \in Tasks, EosReply(a)
      PROVE  AudioNeverStops' /\ MarkerBegun /\ KeyWritten
  <2>1. a = "ctrl" /\ pc["ctrl"] = "eos"
    BY <1>7, <1>a DEF EosReply, Awaits
  <2>2. pc'["audio"] = pc["audio"] /\ pc'["ctrl"] # "eos"
    BY <1>7, <1>a, <2>1 DEF EosReply, GoIdle, Call, Finish, Return, Goto, Home
  <2>3. QED
    BY <2>1, <2>2
<1>8. ASSUME NEW a \in Tasks, DeleteReply(a)
      PROVE  AudioNeverStops' /\ MarkerBegun /\ KeyWritten
  <2>1. a = "ctrl"
    BY <1>8, <1>a DEF DeleteReply, Awaits
  <2>2. QED
    BY <1>8, <1>a, <2>1 DEF DeleteReply, Finish, Return, Goto, Home
<1>9. CASE PrerollChunk
  BY <1>9 DEF PrerollChunk
<1>10. CASE LiveChunk
  BY <1>10, <1>a DEF LiveChunk, Call, Goto
<1>11. CASE LiveLost
  BY <1>11, <1>a DEF LiveLost, Goto
<1>12. CASE LiveReply
  <2>1. silence' = 0 /\ timeout \in Nat \ {0}
    BY <1>12, LevelsAssumption DEF LiveReply, TimedOut, CountSilence, OneStopper, TypeOK
  <2>2. ~TimedOut
    BY <2>1 DEF TimedOut
  <2>3. Goto("audio", "read", "due") /\ UNCHANGED <<session_id, kv>>
    BY <1>12, <2>2 DEF LiveReply
  <2>4. QED
    BY <1>a, <2>3 DEF Goto
<1>13. ASSUME NEW s \in Ids, Flush(s)
       PROVE  AudioNeverStops' /\ MarkerBegun /\ KeyWritten
  BY <1>13 DEF Flush, FlushSubscribe, FlushCopy, FlushEnd
<1>14. ASSUME NEW k \in Commands, Command(k)
       PROVE  AudioNeverStops' /\ MarkerBegun /\ KeyWritten
  BY <1>14 DEF Command
<1>15. CASE ExpireCommand
  BY <1>15 DEF ExpireCommand
<1>16. CASE Crash
  BY <1>16, <1>a DEF Crash, Home
<1>17. CASE Boot
  <2>1. pc["ctrl"] = "fetch" /\ pc["audio"] = "read"
    BY <1>17, <1>a DEF Boot, DownIdle, Home
  <2>2. QED
    BY <1>17, <1>a, <2>1 DEF Boot
<1>18. CASE UNCHANGED vars
  BY <1>18 DEF vars
<1>19. QED
  BY <1>1, <1>2, <1>3, <1>4, <1>5, <1>6, <1>7, <1>8, <1>9, <1>10, <1>11, <1>12,
     <1>13, <1>14, <1>15, <1>16, <1>17, <1>18, <1>a
     DEF Next, Control, Answer, Stop

LEMMA InitEnd == Init => EndInv
<1> SUFFICES ASSUME Init PROVE EndInv
  OBVIOUS
<1>1. pc["ctrl"] = "fetch" /\ pc["audio"] = "read"
  BY DEF Init, Home, Tasks
<1>2. \A s \in Ids : ~(s <= lastSid)
  BY BoundsAssumption DEF Init, Ids, Bounds
<1>3. QED
  BY <1>1, <1>2 DEF Init, EndInv, AudioNeverStops, KeyKept, EosSent, NamedOrEnded

\* The key follows the session, in both halves of a start and of a stop.
LEMMA KeyStep ==
    ASSUME OneStopper, IInv, EndInv, [Next]_vars, MarkerBegun, KeyWritten
    PROVE  KeyKept'
<1> USE DEF memory, nats, counters
<1>a. /\ TypeOK /\ PutHolds /\ DownIdle /\ KvNamesLatest /\ KeyKept /\ ReadyKv
      /\ faults \in Nat /\ outages \in Nat /\ lastSid \in Nat
      /\ TasksOK /\ faults \in 0 .. MaxFaults /\ "ctrl" \in Tasks
      /\ pc \in [Tasks -> CtrlStates \cup AudioStates]
  BY BoundsAssumption
     DEF IInv, SessionInv, EndInv, TypeOK, TasksOK, Tasks, Bounds
<1>1. CASE Steady
  BY <1>1, <1>a DEF Steady, SamePut, Between, KeyKept
<1>2. CASE GoesIdle
  <2>1. pc["ctrl"] = "put" => UNCHANGED kv
    BY <1>2, <1>a DEF GoesIdle, KeyWritten, StartSession, StartServed, Fetched
  <2>2. QED
    BY <1>2, <1>a, <2>1 DEF GoesIdle, SamePut, Between, KeyKept
<1>3. CASE StartSession
  <2>1. PICK stored \in BOOLEAN : /\ Call("ctrl", "put", stored)
                                  /\ kv' = IF stored THEN lastSid + 1 ELSE kv
    BY <1>3 DEF StartSession
  <2>2. "put" \in StatesOf("ctrl")
    BY DEF StatesOf, CtrlStates
  <2>3. Between(faults) /\ (~stored => faults' = faults + 1)
    BY <1>a, <2>1, <2>2, CallFrame
  <2>4. lastSid' = lastSid + 1 /\ session_id' = None
    BY <1>3 DEF StartSession, StartServed, is_active
  <2>5. QED
    BY <1>a, <2>1, <2>3, <2>4 DEF KeyKept, Between
<1>4. CASE PutReply
  <2>1. /\ pc["ctrl"] = "put" /\ pc'["ctrl"] = "config"
        /\ session_id' = held["ctrl"]
        /\ UNCHANGED <<kv, lastSid, faults, outages>>
    BY <1>4, <1>a DEF PutReply, Awaits, Goto
  <2>2. QED
    BY <1>a, <2>1 DEF PutHolds, KeyKept
<1>5. CASE StartWithoutKv
  <2>1. outages' # 0
    BY <1>5, <1>a DEF StartWithoutKv, StartServed, Fetched, ReadyKv
  <2>2. QED
    BY <2>1 DEF KeyKept
<1>6. CASE Crash
  <2>1. session_id' = None /\ pc'["ctrl"] # "put"
    BY <1>6, <1>a DEF Crash, Home
  <2>2. QED
    BY <2>1 DEF KeyKept
<1>7. CASE Boot
  <2>1. /\ kv_ready' \/ outages' = outages + 1
        /\ session_id' = Recovered(kv_ready') \/ faults' = faults + 1
        /\ UNCHANGED kv
    BY <1>7 DEF Boot, Fault
  <2>2. pc'["ctrl"] # "put"
    BY <1>7, <1>a DEF Boot, DownIdle, Home
  <2>3. QED
    BY <1>a, <2>1, <2>2 DEF KeyKept, Recovered
<1>8. QED
  BY <1>a, <1>1, <1>2, <1>3, <1>4, <1>5, <1>6, <1>7, StepKinds

\* Losses are counted up, and the newest id changes in a start only.
LEMMA Counting ==
    ASSUME TypeOK, [Next]_vars
    PROVE  /\ faults' = 0 => faults = 0
           /\ outages' = 0 => outages = 0
           /\ lastSid' = lastSid \/ StartSession \/ StartWithoutKv
<1> USE DEF counters
<1>a. /\ faults \in Nat /\ outages \in Nat
      /\ TasksOK /\ faults \in 0 .. MaxFaults /\ "ctrl" \in Tasks
      /\ held \in [Tasks -> Nat]
  BY BoundsAssumption DEF TypeOK, Tasks, Bounds
<1>b. Delivered \in CommandMessages
  BY DEF TypeOK, Delivered, CommandMessages
<1>1. CASE Steady \/ GoesIdle
  BY <1>1, <1>a DEF Steady, GoesIdle, Between
<1>2. CASE StartSession
  <2>1. PICK stored \in BOOLEAN : Call("ctrl", "put", stored)
    BY <1>2 DEF StartSession
  <2>2. "put" \in StatesOf("ctrl")
    BY DEF StatesOf, CtrlStates
  <2>3. Between(faults)
    BY <1>a, <2>1, <2>2, CallFrame
  <2>4. QED
    BY <1>2, <1>a, <2>3 DEF StartSession, Between
<1>3. CASE PutReply \/ Crash
  BY <1>3 DEF PutReply, Crash
<1>4. CASE StartWithoutKv
  <2>1. Finish("ctrl", lastSid + 1, Delivered)
    BY <1>4 DEF StartWithoutKv
  <2>2. Between(faults)
    BY <1>a, <1>b, <2>1, FinishFrame
  <2>3. QED
    BY <1>4, <1>a, <2>2 DEF StartWithoutKv, Between
<1>5. CASE Boot
  BY <1>5, <1>a DEF Boot, Fault
<1>6. QED
  BY <1>1, <1>2, <1>3, <1>4, <1>5, StepKinds

\* A stop command publishes its marker before it waits for anything.
LEMMA MarkerStep ==
    ASSUME IInv, EndInv, [Next]_vars, MarkerBegun
    PROVE  EosSent'
<1> SUFFICES ASSUME pc'["ctrl"] = "eos", faults' = 0, outages' = 0
             PROVE  session_id' \in Ids /\ HasEos(session_id)'
  BY DEF EosSent
<1>a. /\ TypeOK /\ EosSent /\ faults = 0 /\ outages = 0 /\ TasksOK
      /\ faults \in 0 .. MaxFaults /\ "ctrl" \in Tasks
      /\ lastSid \in Nat /\ lastSid <= MaxSessions
      /\ MaxSessions \in Nat /\ session_id \in 0 .. lastSid
      /\ live \in [Ids -> LiveStates]
  BY Counting, BoundsAssumption DEF IInv, EndInv, TypeOK, Tasks, Bounds
<1>1. CASE StopCommand
  <2>1. /\ session_id \in Ids /\ UNCHANGED session_id
    BY <1>1, <1>a DEF StopCommand, PublishEos, is_active, Ids, None
  <2>2. PICK stored \in BOOLEAN :
           /\ Call("ctrl", "eos", stored)
           /\ live' = IF stored THEN AppendEos(session_id) ELSE live
    BY <1>1 DEF StopCommand, PublishEos
  <2>3. "eos" \in StatesOf("ctrl")
    BY DEF StatesOf, CtrlStates
  <2>4. stored
    BY <1>a, <2>2, <2>3, CallFrame
  <2>5. live'[session_id] \in {"closed", "trailing"}
    BY <1>a, <2>1, <2>2, <2>4 DEF AppendEos
  <2>6. QED
    BY <2>1, <2>5 DEF HasEos
<1>2. CASE pc["ctrl"] = "eos" /\ UNCHANGED session_id
  <2>1. session_id \in Ids /\ HasEos(session_id)
    BY <1>2, <1>a DEF EosSent
  <2>2. QED
    BY <1>2, <1>a, <2>1, EosStays DEF HasEos
<1>3. QED
  BY <1>1, <1>2 DEF MarkerBegun

\* A key is cleared when its session has ended, and rewritten when it is empty.
LEMMA NamedStep ==
    ASSUME IInv, EndInv, [Next]_vars, KeyWritten
    PROVE  NamedOrEnded'
<1> SUFFICES ASSUME faults' = 0, outages' = 0, NEW s \in Ids, s <= lastSid'
             PROVE  s = kv' \/ HasEos(s)'
  BY DEF NamedOrEnded, HasEos
<1>a. /\ TypeOK /\ KvBehind /\ KvNamesLatest /\ ReadyKv
      /\ KeyKept /\ EosSent /\ NamedOrEnded
      /\ faults = 0 /\ outages = 0 /\ lastSid \in Nat /\ s \in Nat /\ s # 0
      /\ TasksOK /\ faults \in 0 .. MaxFaults /\ "ctrl" \in Tasks
  BY Counting, BoundsAssumption
     DEF IInv, SessionInv, EndInv, TypeOK, Tasks, Bounds, Ids
<1>b. HasEos(s) => HasEos(s)'
  BY <1>a, EosStays
<1>1. CASE StartSession
  <2>1. PICK stored \in BOOLEAN : /\ Call("ctrl", "put", stored)
                                  /\ kv' = IF stored THEN lastSid + 1 ELSE kv
    BY <1>1 DEF StartSession
  <2>2. "put" \in StatesOf("ctrl")
    BY DEF StatesOf, CtrlStates
  <2>3. stored
    BY <1>a, <2>1, <2>2, CallFrame
  <2>4. lastSid' = lastSid + 1 /\ kv = None
    BY <1>1, <1>a DEF StartSession, StartServed, Fetched, is_active, KvBehind
  <2>5. QED
    BY <1>a, <1>b, <2>1, <2>3, <2>4 DEF NamedOrEnded, None
<1>2. CASE StartWithoutKv
  BY <1>2, <1>a DEF StartWithoutKv, StartServed, Fetched, ReadyKv
<1>3. CASE lastSid' = lastSid /\ UNCHANGED kv
  BY <1>3, <1>a, <1>b DEF NamedOrEnded
<1>4. CASE lastSid' = lastSid /\ pc["ctrl"] = "eos"
  <2>1. kv = session_id /\ HasEos(session_id)
    BY <1>4, <1>a DEF EosSent, KeyKept, Ids, None
  <2>2. s = kv \/ HasEos(s)
    BY <1>4, <1>a DEF NamedOrEnded
  <2>3. QED
    BY <1>b, <2>1, <2>2
<1>5. QED
  BY <1>a, <1>1, <1>2, <1>3, <1>4, Counting DEF KeyWritten

LEMMA StepEnd == ASSUME OneStopper, IInv, EndInv, [Next]_vars PROVE IInv' /\ EndInv'
<1>1. AudioNeverStops' /\ MarkerBegun /\ KeyWritten
  BY OneStopperStep DEF IInv, SessionInv, EndInv
<1>2. IInv' /\ KeyKept' /\ EosSent' /\ NamedOrEnded'
  BY <1>1, StepInv, KeyStep, MarkerStep, NamedStep
<1>3. QED
  BY <1>1, <1>2 DEF EndInv

\* Without silence, and with no call lost, no session is abandoned: a manual
\* stop leaves the EOS marker of the session that it clears.
THEOREM ManualStopsEnd ==
    ASSUME OneStopper
    PROVE  Spec => []NoSessionAbandoned
<1>1. Init => IInv /\ EndInv
  BY InitInv, InitEnd
<1>2. IInv /\ EndInv /\ [Next]_vars => (IInv /\ EndInv)'
  BY StepEnd, OneStopper
<1>3. EndInv => NoSessionAbandoned
  BY DEF EndInv, NamedOrEnded, NoSessionAbandoned, Abandoned
<1>4. QED
  BY <1>1, <1>2, <1>3, PTL DEF Spec

\* With both loops at rest the KV store names the session in memory, in a process that was never
\* refused its buckets and lost no call.
THEOREM StoreAgrees ==
    ASSUME OneStopper
    PROVE  Spec => []KvAgrees
<1>1. Init => IInv /\ EndInv
  BY InitInv, InitEnd
<1>2. IInv /\ EndInv /\ [Next]_vars => (IInv /\ EndInv)'
  BY StepEnd, OneStopper
<1>3. IInv /\ EndInv => KvAgrees
  BY DEF IInv, SessionInv, EndInv, KvBehind, KeyKept, KvAgrees, AtRest
<1>4. QED
  BY <1>1, <1>2, <1>3, PTL DEF Spec
-----------------------------------------------------------------------------
(* What the clients were told.                                              *)

\* Where the control task is, as long as nothing was lost, says which session was announced.
ToldWhere ==
    /\ ~up => kv = None /\ announced = None
    /\ pc["ctrl"] \in {"fetch", "eos"} => announced = session_id
    /\ pc["ctrl"] # "dead"
    /\ pc["ctrl"] = "config" => session_id = held["ctrl"]
    /\ pc["ctrl"] = "delete" => session_id = None

ToldInv == faults = 0 /\ crashes = 0 => ToldWhere

LEMMA InitTold == Init => ToldInv
  BY DEF Init, ToldInv, ToldWhere, Home, Tasks

\* A handler that ends with no call lost has announced its session, and its task waits for a command.
LEMMA FinishTold ==
    ASSUME TypeOK, NEW a \in Tasks, NEW s, NEW c, Finish(a, s, c), faults = 0, faults' = 0
    PROVE  announced' = s /\ pc' = [pc EXCEPT ![a] = Home(a)]
<1>1. ~Fault
  BY DEF Fault
<1>2. announced' = s
  BY <1>1, Zenon DEF Finish
<1>3. Goto(a, Home(a), "due")
  BY DEF Finish, Return
<1>4. QED
  BY <1>2, <1>3 DEF Goto

LEMMA ToldStep ==
    ASSUME OneStopper, IInv, EndInv, ToldInv, [Next]_vars
    PROVE  ToldInv'
<1> USE DEF memory, tasks, nats, flushes, counters
<1> SUFFICES ASSUME faults' = 0, crashes' = 0 PROVE ToldWhere'
  BY DEF ToldInv
<1>a. /\ pc \in [Tasks -> CtrlStates \cup AudioStates] /\ TypeOK
      /\ "ctrl" \in Tasks /\ "audio" \in Tasks /\ held \in [Tasks -> 0 .. lastSid]
      /\ \A a \in Tasks : a \in {"ctrl", "audio"}
      /\ faults \in Nat /\ crashes \in Nat
  BY BoundsAssumption DEF IInv, TypeOK, TasksOK, Tasks, Bounds
<1>b. faults = 0 /\ ~Fault /\ PutHolds /\ DownIdle /\ AudioNeverStops
  BY <1>a, Counting DEF IInv, SessionInv, EndInv, Fault
<1>c. ~Crash /\ crashes = 0
  <2>1. ~Crash
    BY <1>a DEF Crash
  <2>2. crashes' = crashes
    BY <2>1 DEF Next, Control, Answer, Stop, Flush, StartSession, PutReply, ConfigReply, StartWithoutKv,
           IgnoreCommand, StopCommand, EosReply, DeleteReply, PrerollChunk, LiveChunk, LiveLost,
           LiveReply, FlushSubscribe, FlushCopy, FlushEnd, Command, ExpireCommand, Boot, vars
  <2>3. QED
    BY <2>1, <2>2
<1>d. ToldWhere
  BY <1>b, <1>c DEF ToldInv
<1>1. CASE StartSession
  <2>1. /\ pc["ctrl"] = "fetch" /\ up /\ up' = up
        /\ pc' = [pc EXCEPT !["ctrl"] = "put"]
    BY <1>1 DEF StartSession, StartServed, Fetched, Call, Goto
  <2>2. QED
    BY <1>a, <2>1 DEF ToldWhere
<1>2. CASE PutReply
  <2>1. /\ up /\ up' = up /\ pc' = [pc EXCEPT !["ctrl"] = "config"]
        /\ session_id' = held["ctrl"] /\ held' = held
    BY <1>2 DEF PutReply, Awaits, Goto
  <2>2. QED
    BY <1>a, <2>1 DEF ToldWhere
<1>3. CASE ConfigReply
  <2>1. /\ up /\ up' = up /\ pc["ctrl"] = "config" /\ session_id' = session_id
        /\ Finish("ctrl", held["ctrl"], cmd)
    BY <1>3 DEF ConfigReply, Awaits
  <2>2. announced' = held["ctrl"] /\ pc' = [pc EXCEPT !["ctrl"] = "fetch"]
    BY <1>a, <1>b, <2>1, FinishTold DEF Home
  <2>3. QED
    BY <1>a, <1>d, <2>1, <2>2 DEF ToldWhere
<1>4. CASE StartWithoutKv
  <2>1. up /\ up' = up /\ session_id' = lastSid + 1 /\ Finish("ctrl", lastSid + 1, Delivered)
    BY <1>4 DEF StartWithoutKv, StartServed, Fetched
  <2>2. announced' = lastSid + 1 /\ pc' = [pc EXCEPT !["ctrl"] = "fetch"]
    BY <1>a, <1>b, <2>1, FinishTold DEF Home
  <2>3. QED
    BY <1>a, <2>1, <2>2 DEF ToldWhere
<1>5. CASE IgnoreCommand
  <2>1. up /\ up' = up /\ pc["ctrl"] = "fetch" /\ UNCHANGED <<session_id, announced>>
    BY <1>5 DEF IgnoreCommand, Fetched
  <2>2. pc' = [pc EXCEPT !["ctrl"] = "fetch"]
    BY <1>5, <1>b DEF IgnoreCommand, Return, Goto, Home
  <2>3. QED
    BY <1>a, <1>d, <2>1, <2>2 DEF ToldWhere
<1>6. CASE StopCommand
  <2>1. /\ up /\ up' = up /\ pc["ctrl"] = "fetch" /\ UNCHANGED <<session_id, announced>>
        /\ pc' = [pc EXCEPT !["ctrl"] = "eos"]
    BY <1>6 DEF StopCommand, Fetched, PublishEos, Call, Goto
  <2>2. QED
    BY <1>a, <1>d, <2>1 DEF ToldWhere
<1>7. ASSUME NEW a \in Tasks, EosReply(a) PROVE ToldWhere'
  <2>1. a = "ctrl" /\ up /\ up' = up /\ session_id' = None
    BY <1>7, <1>a, <1>b DEF EosReply, Awaits, GoIdle, AudioNeverStops
  <2>2. CASE kv_ready
    <3>1. pc' = [pc EXCEPT !["ctrl"] = "delete"]
      BY <1>7, <2>1, <2>2 DEF EosReply, GoIdle, Call, Goto
    <3>2. QED
      BY <1>a, <2>1, <3>1 DEF ToldWhere
  <2>3. CASE ~kv_ready
    <3>1. Finish("ctrl", None, cmd)
      BY <1>7, <2>1, <2>3 DEF EosReply, GoIdle
    <3>2. announced' = None /\ pc' = [pc EXCEPT !["ctrl"] = "fetch"]
      BY <1>a, <1>b, <3>1, FinishTold DEF Home
    <3>3. QED
      BY <1>a, <2>1, <3>2 DEF ToldWhere
  <2>4. QED
    BY <2>2, <2>3
<1>8. ASSUME NEW a \in Tasks, DeleteReply(a) PROVE ToldWhere'
  <2>1. /\ a = "ctrl" /\ up /\ up' = up /\ pc["ctrl"] = "delete" /\ session_id' = session_id
        /\ Finish("ctrl", None, cmd)
    BY <1>8, <1>a, <1>b DEF DeleteReply, Awaits, AudioNeverStops
  <2>2. announced' = None /\ pc' = [pc EXCEPT !["ctrl"] = "fetch"]
    BY <1>a, <1>b, <2>1, FinishTold DEF Home
  <2>3. QED
    BY <1>a, <1>d, <2>1, <2>2 DEF ToldWhere
<1>9. CASE Boot
  <2>1. up' /\ pc["ctrl"] = "fetch" /\ session_id = None /\ kv = None /\ announced = None
    BY <1>9, <1>a, <1>b, <1>d DEF Boot, DownIdle, Home, ToldWhere
  <2>2. session_id' = Recovered(kv_ready') /\ pc' = pc /\ announced' = announced
    BY <1>9, <1>b DEF Boot
  <2>3. QED
    BY <2>1, <2>2 DEF ToldWhere, Recovered
<1>10. ASSUME UNCHANGED <<up, kv, announced, session_id>>, pc'["ctrl"] = pc["ctrl"],
              held'["ctrl"] = held["ctrl"]
       PROVE  ToldWhere'
  BY <1>d, <1>10 DEF ToldWhere
<1>11. CASE PrerollChunk \/ ExpireCommand \/ UNCHANGED vars
  BY <1>10, <1>11 DEF PrerollChunk, ExpireCommand, vars
<1>12. ASSUME NEW s \in Ids, Flush(s) PROVE ToldWhere'
  BY <1>10, <1>12 DEF Flush, FlushSubscribe, FlushCopy, FlushEnd
<1>13. ASSUME NEW k \in Commands, Command(k) PROVE ToldWhere'
  BY <1>10, <1>13 DEF Command
<1>14. CASE LiveChunk
  BY <1>10, <1>14, <1>a DEF LiveChunk, Call, Goto
<1>15. CASE LiveLost
  BY <1>10, <1>15, <1>a DEF LiveLost, Goto
<1>16. CASE LiveReply
  <2>1. silence' = 0 /\ timeout \in Nat \ {0}
    BY <1>16, <1>a, LevelsAssumption DEF LiveReply, TimedOut, CountSilence, OneStopper, TypeOK
  <2>2. ~TimedOut
    BY <2>1 DEF TimedOut
  <2>3. /\ Goto("audio", "read", "due") /\ held' = [held EXCEPT !["audio"] = None]
        /\ UNCHANGED <<up, session_id, kv, announced>>
    BY <1>16, <2>2 DEF LiveReply
  <2>4. QED
    BY <1>10, <1>a, <2>3 DEF Goto
<1>17. QED
  BY <1>1, <1>2, <1>3, <1>4, <1>5, <1>6, <1>7, <1>8, <1>9, <1>11, <1>12, <1>13, <1>14, <1>15, <1>16,
     <1>a, <1>c DEF Next, Control, Answer, Stop

\* The last lifecycle event names the session in memory whenever both loops are at rest, in a process
\* that lost no call: a start that is ignored and a stop of nothing announce nothing.
THEOREM ClientsAgree ==
    ASSUME OneStopper
    PROVE  Spec => []AnnouncedAgrees
<1>1. Init => IInv /\ EndInv /\ ToldInv
  BY InitInv, InitEnd, InitTold
<1>2. IInv /\ EndInv /\ ToldInv /\ [Next]_vars => (IInv /\ EndInv /\ ToldInv)'
  BY StepEnd, ToldStep, OneStopper
<1>3. ToldInv => AnnouncedAgrees
  BY DEF ToldInv, ToldWhere, AnnouncedAgrees, AtRest
<1>4. QED
  BY <1>1, <1>2, <1>3, PTL DEF Spec
-----------------------------------------------------------------------------
(* A session that stops by itself.                                          *)

\* A chunk of a session's predecessor may be counted, unless it is still to be acknowledged.
Borrowed == IF pc["audio"] = "live" /\ held["audio"] # session_id THEN 0 ELSE 1

\* Silence is counted from nothing: in the first session never beyond what was acknowledged, and in
\* the later ones, once their timeout was read, by one chunk at most.
QuietInv ==
    /\ pc["audio"] = "live" => held["audio"] \in 1 .. Started
    /\ ~up \/ Started = 0 => silence = 0
    /\ lastSid = 1 /\ session_id # None => silence <= quiet
    /\ session_id # None /\ pc["ctrl"] # "config" => silence <= quiet + Borrowed

LEMMA CountGrows ==
    ASSUME NEW n \in Nat, NEW m \in Nat, n <= m, NEW l
    PROVE  /\ CountSilence(n, l) <= CountSilence(m, l)
           /\ CountSilence(n, l) \in Nat /\ CountSilence(m, l) \in Nat
<1>1. \A t \in Timeouts \cup {DefaultTimeout} : t \in Nat
  BY TimeoutsAssumption, DefaultAssumption
<1>2. CASE l = "loud"
  BY <1>2 DEF CountSilence
<1>3. CASE l # "loud" /\ n < m
  BY <1>3 DEF CountSilence
<1>4. CASE l # "loud" /\ n = m
  BY <1>4 DEF CountSilence
<1>5. QED
  BY <1>2, <1>3, <1>4

LEMMA CountStep ==
    ASSUME NEW n \in Nat, NEW l
    PROVE  CountSilence(n, l) \in Nat /\ CountSilence(n, l) <= n + 1
BY DEF CountSilence

LEMMA Within ==
    ASSUME NEW m \in Nat, NEW n \in Nat, NEW k \in Nat, m <= n
    PROVE  m <= n + k
OBVIOUS

LEMMA Reached ==
    ASSUME NEW m \in Nat, NEW n \in Nat, NEW k \in Nat, NEW t \in Nat, m <= n + k, m >= t
    PROVE  n + k >= t
OBVIOUS

\* A count that is one ahead gains nothing on the other: it saturates first.
LEMMA CountBorrowed ==
    ASSUME NEW n \in Nat, NEW m \in Nat, n <= m + 1, NEW l
    PROVE  CountSilence(n, l) <= CountSilence(m, l) + 1
<1>1. \A t \in Timeouts \cup {DefaultTimeout} : t \in Nat
  BY TimeoutsAssumption, DefaultAssumption
<1>2. CASE l = "loud"
  BY <1>2 DEF CountSilence
<1>3. CASE l # "loud" /\ \E t \in Timeouts \cup {DefaultTimeout} : m < t
  BY <1>3 DEF CountSilence
<1>4. CASE l # "loud" /\ ~\E t \in Timeouts \cup {DefaultTimeout} : m < t
  <2>1. CountSilence(m, l) = m
    BY <1>4 DEF CountSilence
  <2>2. CASE n <= m
    BY <2>1, <2>2, CountStep
  <2>3. CASE n = m + 1
    <3>1. \A t \in Timeouts \cup {DefaultTimeout} : ~(n < t)
      BY <1>1, <1>4, <2>3
    <3>2. CountSilence(n, l) = n
      BY <1>4, <3>1 DEF CountSilence
    <3>3. QED
      BY <2>1, <2>3, <3>2
  <2>4. QED
    BY <2>2, <2>3
<1>5. QED
  BY <1>2, <1>3, <1>4

\* Sessions are started, never unstarted.
LEMMA StartedGrows ==
    ASSUME IInv, [Next]_vars
    PROVE  Started \in Nat /\ Started' \in Nat /\ Started <= Started'
<1> USE DEF memory, nats, counters
<1>a. /\ TypeOK /\ PutHolds /\ DownIdle /\ lastSid \in Nat
      /\ pc \in [Tasks -> CtrlStates \cup AudioStates] /\ "ctrl" \in Tasks
  BY BoundsAssumption DEF IInv, SessionInv, TypeOK, TasksOK, Tasks, Bounds
<1>b. Started \in Nat
  BY <1>a DEF Started, PutHolds, None
<1>1. CASE Steady \/ GoesIdle
  BY <1>1, <1>b DEF Steady, GoesIdle, SamePut, Started
<1>2. CASE StartSession
  <2>1. pc["ctrl"] = "fetch" /\ lastSid' = lastSid + 1 /\ pc'["ctrl"] = "put"
    BY <1>2, <1>a DEF StartSession, StartServed, Fetched, Call, Goto
  <2>2. QED
    BY <1>a, <2>1 DEF Started
<1>3. CASE PutReply
  <2>1. pc["ctrl"] = "put" /\ pc'["ctrl"] = "config" /\ lastSid' = lastSid
    BY <1>3, <1>a DEF PutReply, Awaits, Goto
  <2>2. QED
    BY <1>a, <1>b, <2>1 DEF Started
<1>4. CASE StartWithoutKv
  <2>1. pc["ctrl"] = "fetch" /\ pc'["ctrl"] # "put" /\ lastSid' = lastSid + 1
    BY <1>4, <1>a DEF StartWithoutKv, StartServed, Fetched, Finish, Return, Goto, Home
  <2>2. QED
    BY <1>a, <2>1 DEF Started
<1>5. CASE Crash
  <2>1. pc'["ctrl"] # "put" /\ lastSid' = lastSid
    BY <1>5, <1>a DEF Crash, Home
  <2>2. QED
    BY <1>a, <1>b, <2>1 DEF Started
<1>6. CASE Boot
  <2>1. pc["ctrl"] = "fetch" /\ pc'["ctrl"] # "put" /\ lastSid' = lastSid
    BY <1>6, <1>a DEF Boot, DownIdle, Home, Tasks
  <2>2. QED
    BY <1>a, <2>1 DEF Started
<1>7. QED
  BY <1>a, <1>1, <1>2, <1>3, <1>4, <1>5, <1>6, StepKinds

\* The audio task awaits an acknowledgement from the moment it published a chunk.
LEMMA LiveSince ==
    ASSUME TypeOK, DownIdle, [Next]_vars, pc'["audio"] = "live"
    PROVE  LiveChunk \/ (pc["audio"] = "live" /\ held'["audio"] = held["audio"] /\ ~LiveReply)
<1> USE DEF memory, tasks, nats
<1>a. /\ pc \in [Tasks -> CtrlStates \cup AudioStates] /\ held \in [Tasks -> 0 .. lastSid]
      /\ "ctrl" \in Tasks /\ "audio" \in Tasks
      /\ \A a \in Tasks : a \in {"ctrl", "audio"}
  BY DEF TypeOK, TasksOK, Tasks
<1> DEFINE Same == pc'["audio"] = pc["audio"] /\ held'["audio"] = held["audio"]
<1>1. ASSUME StartSession \/ PutReply \/ ConfigReply \/ StartWithoutKv \/ IgnoreCommand \/ StopCommand
      PROVE  Same
  BY <1>1, <1>a DEF StartSession, PutReply, ConfigReply, StartWithoutKv, IgnoreCommand, StopCommand,
                    PublishEos, Call, Finish, Return, Goto, Home
<1>2. ASSUME NEW a \in Tasks, EosReply(a) PROVE Same
  <2>1. \E p \in {"delete", "dead", Home(a)} : pc' = [pc EXCEPT ![a] = p]
    BY <1>2 DEF EosReply, GoIdle, Call, Finish, Return, Goto
  <2>2. a # "audio"
    BY <1>a, <2>1 DEF Home
  <2>3. a = "ctrl"
    BY <1>a, <2>2
  <2>4. QED
    BY <1>2, <1>a, <2>1, <2>3 DEF EosReply, GoIdle, Finish
<1>3. ASSUME NEW a \in Tasks, DeleteReply(a) PROVE Same
  <2>1. \E p \in {"dead", Home(a)} : pc' = [pc EXCEPT ![a] = p]
    BY <1>3 DEF DeleteReply, Finish, Return, Goto
  <2>2. a # "audio"
    BY <1>a, <2>1 DEF Home
  <2>3. a = "ctrl"
    BY <1>a, <2>2
  <2>4. QED
    BY <1>3, <1>a, <2>1, <2>3 DEF DeleteReply, Finish
<1>4. ~LiveLost /\ ~Crash
  BY <1>a DEF LiveLost, Goto, Crash, Home
<1>5. ~LiveReply
  BY <1>a DEF LiveReply, Goto, PublishEos, GoIdle, Call, Finish, Return, Home
<1>6. ASSUME PrerollChunk \/ ExpireCommand \/ Boot \/ UNCHANGED vars PROVE Same
  <2>1. CASE Boot
    BY <2>1, <1>a DEF Boot
  <2>2. CASE PrerollChunk \/ ExpireCommand \/ UNCHANGED vars
    BY <2>2 DEF PrerollChunk, ExpireCommand, vars
  <2>3. QED
    BY <1>6, <2>1, <2>2
<1>7. ASSUME NEW s \in Ids, Flush(s) PROVE Same
  BY <1>7 DEF Flush, FlushSubscribe, FlushCopy, FlushEnd
<1>8. ASSUME NEW k \in Commands, Command(k) PROVE Same
  BY <1>8 DEF Command
<1>9. LiveChunk \/ Same
  BY <1>1, <1>2, <1>3, <1>4, <1>5, <1>6, <1>7, <1>8, <1>a DEF Next, Control, Answer, Stop
<1>10. QED
  BY <1>5, <1>9

\* Who counts.
LEMMA CountedBy ==
    ASSUME [Next]_vars
    PROVE  UNCHANGED <<silence, quiet>> \/ LiveReply \/ PutReply \/ ConfigReply \/ StartWithoutKv \/ Crash
<1>1. Control => UNCHANGED <<silence, quiet>> \/ PutReply \/ ConfigReply \/ StartWithoutKv
  BY DEF Control, StartSession, IgnoreCommand, StopCommand, Stop, EosReply, DeleteReply, memory
<1>2. Answer => UNCHANGED <<silence, quiet>> \/ LiveReply
  BY DEF Answer, LiveLost, Stop, EosReply, DeleteReply, memory
<1>3. PrerollChunk \/ LiveChunk \/ ExpireCommand \/ Boot \/ UNCHANGED vars => UNCHANGED <<silence, quiet>>
  BY DEF PrerollChunk, LiveChunk, ExpireCommand, Boot, vars, memory
<1>4. \A s \in Ids : Flush(s) => UNCHANGED <<silence, quiet>>
  BY DEF Flush, FlushSubscribe, FlushCopy, FlushEnd, memory
<1>5. \A k \in Commands : Command(k) => UNCHANGED <<silence, quiet>>
  BY DEF Command, memory
<1>6. QED
  BY <1>1, <1>2, <1>3, <1>4, <1>5 DEF Next

\* In the first session an acknowledged chunk counts for both.
LEMMA BothCount ==
    ASSUME IInv, QuietInv, LiveReply, lastSid = 1, session_id # None
    PROVE  silence' <= quiet' /\ silence' \in Nat /\ quiet' \in Nat
<1>1. /\ pc["audio"] = "live" /\ TypeOK
      /\ \E level \in Levels :
            /\ silence' = CountSilence(silence, level)
            /\ quiet' = IF held["audio"] = session_id THEN CountSilence(quiet, level) ELSE quiet
  BY DEF LiveReply, Awaits, IInv
<1>2. session_id = 1
  BY DEF IInv, TypeOK, None
<1>3. held["audio"] = 1
  <2>1. held["audio"] \in 1 .. Started
    BY <1>1 DEF QuietInv
  <2>2. Started \in {0, 1}
    BY DEF Started
  <2>3. QED
    BY <2>1, <2>2
<1>4. silence \in Nat /\ quiet \in Nat /\ silence <= quiet
  BY <1>1 DEF TypeOK, QuietInv
<1>5. QED
  BY <1>1, <1>2, <1>3, <1>4, CountGrows

\* In a later one it counts for silence alone when it was published to the predecessor, once.
LEMMA BorrowedCount ==
    ASSUME TypeOK, QuietInv, LiveReply, session_id # None, pc["ctrl"] # "config"
    PROVE  silence' <= quiet' + 1 /\ silence' \in Nat /\ quiet' \in Nat
<1>1. PICK level \in Levels :
         /\ silence' = CountSilence(silence, level)
         /\ quiet' = IF held["audio"] = session_id THEN CountSilence(quiet, level) ELSE quiet
  BY DEF LiveReply
<1>2. pc["audio"] = "live" /\ silence \in Nat /\ quiet \in Nat
  BY DEF LiveReply, Awaits, TypeOK
<1> DEFINE s == CountSilence(silence, level)
           q == CountSilence(quiet, level)
<1>3. s \in Nat /\ q \in Nat /\ s <= silence + 1 /\ (silence <= quiet + 1 => s <= q + 1)
  BY <1>2, CountStep, CountBorrowed
<1> HIDE DEF s, q
<1>4. CASE held["audio"] # session_id
  <2>1. silence <= quiet
    BY <1>2, <1>4 DEF QuietInv, Borrowed
  <2>2. silence' = s /\ quiet' = quiet
    BY <1>1, <1>4 DEF s
  <2>3. QED
    BY <1>2, <1>3, <2>1, <2>2
<1>5. CASE held["audio"] = session_id
  <2>1. silence <= quiet + 1
    BY <1>2, <1>5 DEF QuietInv, Borrowed
  <2>2. silence' = s /\ quiet' = q
    BY <1>1, <1>5 DEF s, q
  <2>3. QED
    BY <1>2, <1>3, <2>1, <2>2
<1>6. QED
  BY <1>4, <1>5

LEMMA InitQuiet == Init => QuietInv
  BY DEF Init, QuietInv, Borrowed, Home, Tasks, None

\* The control task leaves the reading of the timeout by its answer, or with its process.
LEMMA ReadEnds ==
    ASSUME TypeOK, [Next]_vars, pc["ctrl"] = "config", pc'["ctrl"] # "config", up, up'
    PROVE  ConfigReply
<1> USE DEF memory, tasks, nats
<1>a. /\ pc \in [Tasks -> CtrlStates \cup AudioStates]
      /\ "ctrl" \in Tasks /\ "audio" \in Tasks
      /\ \A a \in Tasks : a \in {"ctrl", "audio"}
  BY DEF TypeOK, TasksOK, Tasks
<1>1. /\ ~StartSession /\ ~PutReply /\ ~StartWithoutKv /\ ~IgnoreCommand /\ ~StopCommand
  BY DEF StartSession, PutReply, StartWithoutKv, IgnoreCommand, StopCommand, StartServed, Fetched, Awaits
<1>2. ASSUME NEW a \in Tasks, EosReply(a) PROVE FALSE
  <2>1. a = "audio"
    BY <1>2, <1>a DEF EosReply, Awaits
  <2>2. \E p \in {"delete", "dead", "read"} : pc' = [pc EXCEPT !["audio"] = p]
    BY <1>2, <2>1 DEF EosReply, GoIdle, Call, Finish, Return, Goto, Home
  <2>3. QED
    BY <1>a, <2>2
<1>3. ASSUME NEW a \in Tasks, DeleteReply(a) PROVE FALSE
  <2>1. a = "audio"
    BY <1>3, <1>a DEF DeleteReply, Awaits
  <2>2. \E p \in {"dead", "read"} : pc' = [pc EXCEPT !["audio"] = p]
    BY <1>3, <2>1 DEF DeleteReply, Finish, Return, Goto, Home
  <2>3. QED
    BY <1>a, <2>2
<1>4. ~LiveLost /\ ~LiveChunk /\ ~LiveReply
  <2>1. ASSUME LiveLost \/ LiveChunk \/ LiveReply
        PROVE  \E p \in {"live", "eos", "delete", "dead", "read"} : pc' = [pc EXCEPT !["audio"] = p]
    BY <2>1 DEF LiveLost, LiveChunk, LiveReply, PublishEos, GoIdle, Call, Finish, Return, Goto, Home
  <2>2. QED
    BY <1>a, <2>1
<1>5. ~PrerollChunk /\ ~ExpireCommand /\ ~UNCHANGED vars
  BY DEF PrerollChunk, ExpireCommand, vars
<1>6. ~Boot /\ ~Crash
  BY DEF Boot, Crash
<1>7. \A s \in Ids : ~Flush(s)
  BY DEF Flush, FlushSubscribe, FlushCopy, FlushEnd
<1>8. \A k \in Commands : ~Command(k)
  BY DEF Command
<1>9. QED
  BY <1>1, <1>2, <1>3, <1>4, <1>5, <1>6, <1>7, <1>8, <1>a DEF Next, Control, Answer, Stop

LEMMA QuietStep == ASSUME IInv, IInv', QuietInv, [Next]_vars PROVE QuietInv'
<1> USE DEF memory, nats, counters
<1>a. /\ TypeOK /\ PutHolds /\ DownIdle /\ lastSid \in Nat /\ silence \in Nat /\ quiet \in Nat
      /\ pc \in [Tasks -> CtrlStates \cup AudioStates] /\ "ctrl" \in Tasks /\ "audio" \in Tasks
      /\ Started \in Nat /\ Started' \in Nat /\ Started <= Started'
  BY StartedGrows, BoundsAssumption DEF IInv, SessionInv, TypeOK, TasksOK, Tasks, Bounds
<1>b. quiet' \in Nat /\ (ConfigReply \/ StartWithoutKv \/ Crash => silence' = 0)
  BY DEF IInv, TypeOK, ConfigReply, StartWithoutKv, CountReset, Crash
<1>1. pc'["audio"] = "live" => held'["audio"] \in 1 .. Started'
  <2> SUFFICES ASSUME pc'["audio"] = "live" PROVE held'["audio"] \in 1 .. Started'
    OBVIOUS
  <2>1. CASE LiveChunk
    <3>1. held'["audio"] = session_id /\ session_id # None /\ session_id \in 0 .. lastSid
      BY <1>a, <2>1 DEF LiveChunk, TypeOK, is_active
    <3>2. Started = lastSid
      BY <1>a, <3>1 DEF PutHolds, Started
    <3>3. QED
      BY <1>a, <3>1, <3>2 DEF None
  <2>2. CASE pc["audio"] = "live" /\ held'["audio"] = held["audio"]
    BY <1>a, <2>2 DEF QuietInv
  <2>3. QED
    BY <1>a, <2>1, <2>2, LiveSince
<1>2. ~up' \/ Started' = 0 => silence' = 0
  <2> SUFFICES ASSUME ~up' \/ Started' = 0 PROVE silence' = 0
    OBVIOUS
  <2>1. ASSUME ~Crash PROVE ~up \/ Started = 0
    <3>1. Started' = 0 => Started = 0
      BY <1>a
    <3>2. ~up' => ~up
      BY <2>1, StepKinds, <1>a DEF Steady, GoesIdle, StartSession, PutReply, StartWithoutKv, Boot
    <3>3. QED
      BY <3>1, <3>2
  <2>2. ~up \/ Started = 0 => silence = 0 /\ ~LiveReply
    <3>1. Started = 0 => ~LiveReply
      BY <1>a DEF QuietInv, LiveReply, Awaits
    <3>2. QED
      BY <3>1 DEF QuietInv, LiveReply, Awaits
  <2>3. PutReply => silence' = silence
    BY DEF PutReply
  <2>4. QED
    BY <1>b, <2>1, <2>2, <2>3, CountedBy
<1>3. lastSid' = 1 /\ session_id' # None => silence' <= quiet'
  <2> SUFFICES ASSUME lastSid' = 1, session_id' # None PROVE silence' <= quiet'
    OBVIOUS
  <2>1. CASE PutReply
    <3>1. pc["ctrl"] = "put" /\ lastSid = 1 /\ silence' = silence /\ quiet' = 0
      BY <2>1 DEF PutReply, Awaits
    <3>2. Started = 0
      BY <3>1 DEF Started
    <3>3. QED
      BY <3>1, <3>2 DEF QuietInv
  <2>2. CASE Boot
    BY <1>a, <2>2 DEF Boot, QuietInv
  <2>3. CASE Steady
    <3>1. lastSid = 1 /\ session_id # None
      BY <2>3 DEF Steady
    <3>2. silence <= quiet
      BY <3>1 DEF QuietInv
    <3>3. QED
      BY <1>a, <1>b, <2>1, <3>1, <3>2, BothCount, CountedBy
  <2>4. ~GoesIdle /\ ~Crash
    BY DEF GoesIdle, Crash
  <2>5. CASE StartWithoutKv
    BY <1>b, <2>5
  <2>6. ~StartSession
    BY DEF StartSession, StartServed, is_active
  <2>7. QED
    BY <1>a, <2>1, <2>2, <2>3, <2>4, <2>5, <2>6, StepKinds
<1>4. session_id' # None /\ pc'["ctrl"] # "config" => silence' <= quiet' + Borrowed'
  <2> SUFFICES ASSUME session_id' # None, pc'["ctrl"] # "config" PROVE silence' <= quiet' + Borrowed'
    OBVIOUS
  <2> DEFINE b == Borrowed
             c == Borrowed'
  <2>a. silence' \in Nat /\ b \in {0, 1} /\ c \in {0, 1}
    BY DEF Borrowed, IInv, TypeOK
  <2> HIDE DEF b, c
  <2> SUFFICES silence' <= quiet' + c
    BY DEF c
  <2>1. ~PutReply
    BY <1>a DEF PutReply, Goto
  <2>2. CASE ConfigReply \/ StartWithoutKv
    <3>1. silence' = 0 /\ silence' <= quiet'
      BY <1>b, <2>2
    <3>2. QED
      BY <1>b, <2>a, <3>1, Within
  <2>3. CASE Boot
    <3>1. silence' = 0 /\ silence' <= quiet'
      BY <1>b, <2>3 DEF Boot, QuietInv
    <3>2. QED
      BY <1>b, <2>a, <3>1, Within
  <2>4. CASE Steady /\ ~ConfigReply
    <3>1. session_id' = session_id /\ session_id # None
      BY <2>4 DEF Steady
    <3>2. pc["ctrl"] # "config"
      <4>1. CASE up
        <5>1. up'
          BY <2>4, <4>1 DEF Steady
        <5>2. QED
          BY <1>a, <2>4, <4>1, <5>1, ReadEnds
      <4>2. CASE ~up
        BY <2>4, <4>2 DEF Steady
      <4>3. QED
        BY <4>1, <4>2
    <3>3. silence <= quiet + b
      BY <3>1, <3>2 DEF QuietInv, b
    <3>4. CASE LiveReply
      <4>1. pc'["audio"] # "live"
        BY <1>a, <3>4 DEF LiveReply, PublishEos, GoIdle, Call, Finish, Return, Goto, Home
      <4>2. c = 1
        BY <4>1 DEF Borrowed, c
      <4>3. QED
        BY <1>a, <3>1, <3>2, <3>4, <4>2, BorrowedCount
    <3>5. CASE ~LiveReply
      <4>1. silence' = silence /\ quiet' = quiet
        BY <2>1, <2>4, <3>1, <3>5, CountedBy DEF StartWithoutKv, StartServed, is_active, Crash
      <4>2. b <= c
        <5>1. CASE pc'["audio"] = "live" /\ held'["audio"] # session_id'
          <6>1. ~LiveChunk
            BY <1>a, <3>1, <5>1 DEF LiveChunk, TypeOK, TasksOK
          <6>2. pc["audio"] = "live" /\ held'["audio"] = held["audio"]
            BY <1>a, <5>1, <6>1, LiveSince
          <6>3. b = 0 /\ c = 0
            BY <3>1, <5>1, <6>2 DEF Borrowed, b, c
          <6>4. QED
            BY <6>3
        <5>2. CASE ~(pc'["audio"] = "live" /\ held'["audio"] # session_id')
          <6>1. c = 1
            BY <5>2 DEF Borrowed, c
          <6>2. QED
            BY <2>a, <6>1
        <5>3. QED
          BY <5>1, <5>2
      <4>3. QED
        BY <1>a, <2>a, <3>3, <4>1, <4>2
    <3>6. QED
      BY <3>4, <3>5
  <2>5. ~GoesIdle /\ ~Crash /\ ~StartSession
    BY DEF GoesIdle, Crash, StartSession, StartServed, is_active
  <2>6. QED
    BY <1>a, <2>1, <2>2, <2>3, <2>4, <2>5, StepKinds
<1>5. QED
  BY <1>1, <1>2, <1>3, <1>4 DEF QuietInv

\* Only the acknowledgement of a chunk makes the audio task stop a session, and only at the timeout.
LEMMA StopsByReply ==
    ASSUME TypeOK, [Next]_vars, pc["audio"] = "live", pc'["audio"] = "eos"
    PROVE  LiveReply
<1> USE DEF memory, tasks, nats
<1>a. /\ pc \in [Tasks -> CtrlStates \cup AudioStates]
      /\ "ctrl" \in Tasks /\ "audio" \in Tasks
      /\ \A a \in Tasks : a \in {"ctrl", "audio"}
  BY DEF TypeOK, TasksOK, Tasks
<1>1. /\ ~StartSession /\ ~PutReply /\ ~ConfigReply /\ ~StartWithoutKv /\ ~IgnoreCommand /\ ~StopCommand
  BY <1>a DEF StartSession, PutReply, ConfigReply, StartWithoutKv, IgnoreCommand, StopCommand,
              PublishEos, Call, Finish, Return, Goto, Home
<1>2. ASSUME NEW a \in Tasks, EosReply(a) PROVE FALSE
  <2>1. a = "ctrl"
    BY <1>2, <1>a DEF EosReply, Awaits
  <2>2. \E p \in {"delete", "dead", "fetch"} : pc' = [pc EXCEPT !["ctrl"] = p]
    BY <1>2, <2>1 DEF EosReply, GoIdle, Call, Finish, Return, Goto, Home
  <2>3. QED
    BY <1>a, <2>2
<1>3. ASSUME NEW a \in Tasks, DeleteReply(a) PROVE FALSE
  <2>1. a = "ctrl"
    BY <1>3, <1>a DEF DeleteReply, Awaits
  <2>2. \E p \in {"dead", "fetch"} : pc' = [pc EXCEPT !["ctrl"] = p]
    BY <1>3, <2>1 DEF DeleteReply, Finish, Return, Goto, Home
  <2>3. QED
    BY <1>a, <2>2
<1>4. ~LiveLost /\ ~Crash /\ ~LiveChunk
  BY <1>a DEF LiveLost, Goto, Crash, Home, LiveChunk
<1>5. ~PrerollChunk /\ ~ExpireCommand /\ ~UNCHANGED vars
  BY DEF PrerollChunk, ExpireCommand, vars
<1>6. ~Boot
  BY <1>a DEF Boot
<1>7. \A s \in Ids : ~Flush(s)
  BY DEF Flush, FlushSubscribe, FlushCopy, FlushEnd
<1>8. \A k \in Commands : ~Command(k)
  BY DEF Command
<1>9. QED
  BY <1>1, <1>2, <1>3, <1>4, <1>5, <1>6, <1>7, <1>8, <1>a DEF Next, Control, Answer, Stop

LEMMA ReplyStops ==
    ASSUME TypeOK, LiveReply, pc'["audio"] = "eos"
    PROVE  TimedOut /\ session_id # None
<1>a. pc \in [Tasks -> CtrlStates \cup AudioStates] /\ "audio" \in Tasks
  BY DEF TypeOK, TasksOK, Tasks
<1>1. ~Goto("audio", "read", "due")
  BY <1>a DEF Goto
<1>2. ~GoIdle("audio")
  BY <1>a DEF GoIdle, Call, Finish, Return, Goto, Home
<1>3. QED
  BY <1>1, <1>2 DEF LiveReply, is_active

\* A session stops by itself only after a whole silence timeout of acknowledged silent chunks of its
\* own: the counter is reset when it begins and by anything loud, and never runs ahead of the
\* acknowledgements by more than the one chunk that its predecessor may have left under way.
THEOREM StopIsEarned == Spec => AutoStopEarned
<1>1. ASSUME IInv, QuietInv, [Next]_vars
      PROVE  [/\ pc["audio"] = "live" /\ pc'["audio"] = "eos"
              /\ lastSid = 1 \/ pc["ctrl"] # "config"
              => quiet' + (IF lastSid = 1 THEN 0 ELSE 1) >= timeout]_vars
  <2> SUFFICES ASSUME pc["audio"] = "live", pc'["audio"] = "eos", lastSid = 1 \/ pc["ctrl"] # "config"
               PROVE  quiet' + (IF lastSid = 1 THEN 0 ELSE 1) >= timeout
    OBVIOUS
  <2>1. LiveReply
    BY <1>1, StopsByReply DEF IInv
  <2>2. TimedOut /\ session_id # None
    BY <2>1, <1>1, ReplyStops DEF IInv
  <2>3. timeout \in Nat /\ silence' >= timeout
    BY <1>1, <2>2 DEF IInv, TypeOK, TimedOut
  <2> DEFINE k == IF lastSid = 1 THEN 0 ELSE 1
  <2>4. k \in Nat /\ silence' <= quiet' + k /\ silence' \in Nat /\ quiet' \in Nat
    <3>1. CASE lastSid = 1
      <4>1. silence' <= quiet' /\ silence' \in Nat /\ quiet' \in Nat /\ k = 0
        BY <1>1, <2>1, <2>2, <3>1, BothCount
      <4>2. QED
        BY <4>1, Within
    <3>2. CASE lastSid # 1
      <4>1. silence' <= quiet' + 1 /\ silence' \in Nat /\ quiet' \in Nat /\ k = 1
        BY <1>1, <2>1, <2>2, <3>2, BorrowedCount DEF IInv
      <4>2. QED
        BY <4>1
    <3>3. QED
      BY <3>1, <3>2
  <2>5. quiet' + k >= timeout
    <3> HIDE DEF k
    <3>1. QED
      BY <2>3, <2>4, Reached
  <2>6. QED
    BY <2>5
<1>2. IInv /\ QuietInv /\ [Next]_vars => (IInv /\ QuietInv)'
  BY StepInv, QuietStep
<1>3. QED
  BY <1>1, <1>2, InitInv, InitQuiet, PTL DEF Spec, AutoStopEarned
-----------------------------------------------------------------------------
(* What the backfill of a session holds.                                    *)

\* Session s is, or is about to be, or may again become the session of the process.
Current(s) == s \in {session_id, kv} \/ (pc["ctrl"] = "put" /\ held["ctrl"] = s)

\* The flush of session s has yet to open its consumer.
Opening(s) == flush[s] = "subscribe" \/ (pc["ctrl"] \in {"put", "config"} /\ held["ctrl"] = s)

Before(s, eras) == \A e \in eras : e < s

PrerollOK == \A e \in preroll : e <= Started

\* A session has no flush before it is announced.
FreshOK ==
    \A s \in Ids : s > Started \/ (pc["ctrl"] = "config" /\ held["ctrl"] = s)
                   => flush[s] = "none" /\ backfill[s] = {} /\ unread[s] = {}

\* A process that has no buckets runs no flush of the session that the key may still name,
NoKvOK ==
    /\ ~up => \A s \in Ids : ~Flushing(s)
    /\ up /\ ~kv_ready => /\ pc["ctrl"] \notin {"put", "config"}
                          /\ \A s \in Ids : s = kv => ~Flushing(s)

\* and one that has them leaves no key behind.
IdleOK ==
    faults = 0 /\ up /\ kv_ready /\ session_id = None
    => kv = None \/ (pc["ctrl"] = "put" /\ kv = lastSid)

PastOK ==
    faults = 0 => \A s \in Ids : Current(s) => /\ Before(s, backfill[s]) /\ Before(s, unread[s])
                                               /\ Opening(s) => Before(s, preroll)

PastInv == PrerollOK /\ FreshOK /\ NoKvOK /\ IdleOK /\ PastOK

flushed == <<flush, unread, backfill, preroll>>

\* Who touches a flush.
LEMMA FlushedBy ==
    ASSUME [Next]_vars
    PROVE  \/ UNCHANGED flushed
           \/ ConfigReply \/ StartWithoutKv \/ PrerollChunk \/ Crash
           \/ \E s \in Ids : Flush(s)
<1> USE DEF flushed, flushes, nats
<1>1. Control => UNCHANGED flushed \/ ConfigReply \/ StartWithoutKv
  BY DEF Control, StartSession, PutReply, IgnoreCommand, StopCommand, Stop, EosReply, DeleteReply
<1>2. Answer => UNCHANGED flushed
  BY DEF Answer, LiveLost, LiveReply, Stop, EosReply, DeleteReply
<1>3. LiveChunk \/ ExpireCommand \/ Boot \/ UNCHANGED vars => UNCHANGED flushed
  BY DEF LiveChunk, ExpireCommand, Boot, vars
<1>4. \A k \in Commands : Command(k) => UNCHANGED flushed
  BY DEF Command
<1>5. QED
  BY <1>1, <1>2, <1>3, <1>4 DEF Next

\* A start is under way from its KV write to its timeout.
LEMMA OpenedBy ==
    ASSUME TypeOK, DownIdle, [Next]_vars, pc'["ctrl"] \in {"put", "config"}
    PROVE  \/ StartSession \/ PutReply
           \/ pc'["ctrl"] = pc["ctrl"] /\ held'["ctrl"] = held["ctrl"]
<1> USE DEF memory, tasks, nats
<1>a. /\ pc \in [Tasks -> CtrlStates \cup AudioStates] /\ held \in [Tasks -> 0 .. lastSid]
      /\ "ctrl" \in Tasks /\ "audio" \in Tasks
      /\ \A a \in Tasks : a \in {"ctrl", "audio"}
  BY DEF TypeOK, TasksOK, Tasks
<1> DEFINE Same == pc'["ctrl"] = pc["ctrl"] /\ held'["ctrl"] = held["ctrl"]
<1>1. ~ConfigReply /\ ~StartWithoutKv /\ ~IgnoreCommand /\ ~StopCommand
  BY <1>a DEF ConfigReply, StartWithoutKv, IgnoreCommand, StopCommand,
              PublishEos, Call, Finish, Return, Goto, Home
<1>2. ASSUME NEW a \in Tasks, EosReply(a) PROVE Same
  <2>1. \E p \in {"delete", "dead", Home(a)} : pc' = [pc EXCEPT ![a] = p]
    BY <1>2 DEF EosReply, GoIdle, Call, Finish, Return, Goto
  <2>2. a # "ctrl"
    BY <1>a, <2>1 DEF Home
  <2>3. a = "audio"
    BY <1>a, <2>2
  <2>4. QED
    BY <1>2, <1>a, <2>1, <2>3 DEF EosReply, GoIdle, Finish
<1>3. ASSUME NEW a \in Tasks, DeleteReply(a) PROVE Same
  <2>1. \E p \in {"dead", Home(a)} : pc' = [pc EXCEPT ![a] = p]
    BY <1>3 DEF DeleteReply, Finish, Return, Goto
  <2>2. a # "ctrl"
    BY <1>a, <2>1 DEF Home
  <2>3. a = "audio"
    BY <1>a, <2>2
  <2>4. QED
    BY <1>3, <1>a, <2>1, <2>3 DEF DeleteReply, Finish
<1>4. LiveLost => Same
  BY <1>a DEF LiveLost, Goto
<1>5. LiveReply => Same
  <2>1. ASSUME Goto("audio", "read", "due"), held' = [held EXCEPT !["audio"] = None] PROVE Same
    BY <1>a, <2>1 DEF Goto
  <2>2. ASSUME PublishEos("audio") PROVE Same
    BY <1>a, <2>2 DEF PublishEos, Call, Goto
  <2>3. ASSUME GoIdle("audio") PROVE Same
    BY <1>a, <2>3 DEF GoIdle, Call, Finish, Return, Goto
  <2>4. QED
    BY <2>1, <2>2, <2>3 DEF LiveReply
<1>6. LiveChunk => Same
  BY <1>a DEF LiveChunk, Call, Goto
<1>7. PrerollChunk \/ ExpireCommand \/ UNCHANGED vars => Same
  BY DEF PrerollChunk, ExpireCommand, vars
<1>8. ~Crash
  BY <1>a DEF Crash, Home
<1>9. ~Boot
  BY <1>a DEF Boot, DownIdle, Home
<1>10. ASSUME NEW s \in Ids, Flush(s) PROVE Same
  BY <1>10 DEF Flush, FlushSubscribe, FlushCopy, FlushEnd
<1>11. ASSUME NEW k \in Commands, Command(k) PROVE Same
  BY <1>11 DEF Command
<1>12. QED
  BY <1>1, <1>2, <1>3, <1>4, <1>5, <1>6, <1>7, <1>8, <1>9, <1>10, <1>11, <1>a
     DEF Next, Control, Answer, Stop

\* The number of sessions grows where a start is completed, or lost in a crash.
LEMMA StartedBy ==
    ASSUME IInv, [Next]_vars
    PROVE  Started' = Started \/ PutReply \/ StartWithoutKv \/ Crash
<1> USE DEF memory, nats, counters
<1>a. /\ TypeOK /\ PutHolds /\ DownIdle /\ lastSid \in Nat
      /\ pc \in [Tasks -> CtrlStates \cup AudioStates] /\ "ctrl" \in Tasks
  BY BoundsAssumption DEF IInv, SessionInv, TypeOK, TasksOK, Tasks, Bounds
<1>1. CASE Steady \/ GoesIdle
  BY <1>1 DEF Steady, GoesIdle, SamePut, Started
<1>2. CASE StartSession
  <2>1. pc["ctrl"] = "fetch" /\ lastSid' = lastSid + 1 /\ pc'["ctrl"] = "put"
    BY <1>2, <1>a DEF StartSession, StartServed, Fetched, Call, Goto
  <2>2. QED
    BY <1>a, <2>1 DEF Started
<1>3. CASE Boot
  <2>1. pc["ctrl"] = "fetch" /\ pc'["ctrl"] # "put" /\ lastSid' = lastSid
    BY <1>3, <1>a DEF Boot, DownIdle, Home, Tasks
  <2>2. QED
    BY <2>1 DEF Started
<1>4. QED
  BY <1>a, <1>1, <1>2, <1>3, StepKinds

\* A start makes its session current, and nothing else makes one so.
LEMMA CurrentWas ==
    ASSUME IInv, [Next]_vars, NEW s \in Ids, Current(s)'
    PROVE  /\ s <= lastSid'
           /\ \/ Current(s) /\ s <= lastSid
              \/ s = lastSid + 1 /\ (StartSession \/ StartWithoutKv)
<1> USE DEF memory, nats, counters
<1>a. /\ TypeOK /\ PutHolds /\ DownIdle /\ lastSid \in Nat /\ s \in Nat /\ s # None
      /\ pc \in [Tasks -> CtrlStates \cup AudioStates] /\ "ctrl" \in Tasks
      /\ kv \in 0 .. lastSid /\ session_id \in 0 .. lastSid /\ held \in [Tasks -> 0 .. lastSid]
  BY BoundsAssumption DEF IInv, SessionInv, TypeOK, TasksOK, Tasks, Bounds, Ids, None
<1>b. Current(s) => s <= lastSid
  BY <1>a DEF Current
<1>1. CASE Steady \/ GoesIdle
  <2>1. Current(s) /\ lastSid' = lastSid
    BY <1>1, <1>a DEF Steady, GoesIdle, SamePut, Current
  <2>2. QED
    BY <1>b, <2>1
<1>2. CASE StartSession
  <2>1. lastSid' = lastSid + 1 /\ session_id' = session_id /\ kv' \in {kv, lastSid + 1}
        /\ held'["ctrl"] = lastSid + 1
    BY <1>2, <1>a DEF StartSession
  <2>2. QED
    BY <1>2, <1>a, <1>b, <2>1 DEF Current
<1>3. CASE PutReply
  <2>1. pc["ctrl"] = "put" /\ session_id' = held["ctrl"] /\ held' = held /\ lastSid' = lastSid
        /\ kv' = kv
    BY <1>3 DEF PutReply, Awaits
  <2>2. Current(s)
    BY <2>1 DEF Current
  <2>3. QED
    BY <1>b, <2>1, <2>2
<1>4. CASE StartWithoutKv
  <2>1. /\ lastSid' = lastSid + 1 /\ session_id' = lastSid + 1 /\ kv' = kv
        /\ pc'["ctrl"] # "put"
    BY <1>4, <1>a DEF StartWithoutKv, Finish, Return, Goto, Home
  <2>2. QED
    BY <1>4, <1>a, <1>b, <2>1 DEF Current
<1>5. CASE Crash
  <2>1. session_id' = None /\ kv' = kv /\ lastSid' = lastSid /\ pc'["ctrl"] # "put"
    BY <1>5, <1>a DEF Crash, Home
  <2>2. QED
    BY <1>a, <1>b, <2>1 DEF Current
<1>6. CASE Boot
  <2>1. session_id' \in {None, kv} /\ kv' = kv /\ lastSid' = lastSid /\ pc'["ctrl"] # "put"
    BY <1>6, <1>a DEF Boot, Recovered, DownIdle, Home
  <2>2. QED
    BY <1>a, <1>b, <2>1 DEF Current
<1>7. QED
  BY <1>a, <1>1, <1>2, <1>3, <1>4, <1>5, <1>6, StepKinds

LEMMA InitPast == Init => PastInv
  BY DEF Init, PastInv, PrerollOK, FreshOK, NoKvOK, IdleOK, PastOK, Flushing, Before, Ids, None

\* What an idle microphone adds to the stream is no older than the sessions started.
LEMMA PrerollStep == ASSUME IInv, PrerollOK, [Next]_vars PROVE PrerollOK'
<1> USE DEF nats
<1>a. /\ Started \in Nat /\ Started' \in Nat /\ Started <= Started'
      /\ \A e \in preroll : e \in Nat
  BY StartedGrows, BoundsAssumption DEF IInv, TypeOK, Eras, Bounds
<1>1. preroll' = preroll \/ preroll' = preroll \cup {Started}
  <2>1. ConfigReply \/ StartWithoutKv \/ Crash => preroll' = preroll
    BY DEF ConfigReply, StartWithoutKv, Crash
  <2>2. PrerollChunk => preroll' = preroll \cup {Started}
    BY DEF PrerollChunk
  <2>3. \A s \in Ids : Flush(s) => preroll' = preroll
    BY DEF Flush, FlushSubscribe, FlushCopy, FlushEnd
  <2>4. QED
    BY <2>1, <2>2, <2>3, FlushedBy DEF flushed
<1>2. \A e \in preroll' : e <= Started'
  BY <1>a, <1>1 DEF PrerollOK
<1>3. QED
  BY <1>2 DEF PrerollOK

\* The control task is done with the start whose timeout it has read.
LEMMA ConfigEnds ==
    ASSUME IInv, ConfigReply
    PROVE  /\ pc["ctrl"] = "config" /\ pc'["ctrl"] \notin {"put", "config"}
           /\ Started' = lastSid /\ held["ctrl"] \in 0 .. lastSid
           /\ flush' = [flush EXCEPT ![held["ctrl"]] = "subscribe"]
           /\ UNCHANGED <<unread, backfill, preroll>>
<1>a. /\ pc \in [Tasks -> CtrlStates \cup AudioStates] /\ "ctrl" \in Tasks
      /\ held \in [Tasks -> 0 .. lastSid]
  BY DEF IInv, TypeOK, TasksOK, Tasks
<1>1. pc["ctrl"] = "config" /\ pc'["ctrl"] \notin {"put", "config"} /\ lastSid' = lastSid
  BY <1>a DEF ConfigReply, Awaits, Finish, Return, Goto, Home
<1>2. QED
  BY <1>a, <1>1 DEF ConfigReply, Started

LEMMA BareStart ==
    ASSUME IInv, StartWithoutKv
    PROVE  /\ up /\ ~kv_ready /\ pc["ctrl"] = "fetch" /\ pc'["ctrl"] \notin {"put", "config"}
           /\ Started' = lastSid + 1
           /\ flush' = [flush EXCEPT ![lastSid + 1] = "subscribe"]
           /\ UNCHANGED <<unread, kv, backfill, preroll>>
<1>a. pc \in [Tasks -> CtrlStates \cup AudioStates] /\ "ctrl" \in Tasks
  BY DEF IInv, TypeOK, TasksOK, Tasks
<1>1. /\ pc["ctrl"] = "fetch" /\ pc'["ctrl"] \notin {"put", "config"}
      /\ lastSid' = lastSid + 1
  BY <1>a DEF StartWithoutKv, StartServed, Fetched, Finish, Return, Goto, Home
<1>2. QED
  BY <1>1 DEF StartWithoutKv, StartServed, Fetched, Started

\* A flush changes its own session only.
LEMMA FlushOwn ==
    ASSUME TypeOK, NEW s \in Ids, NEW t \in Ids, Flush(t), s # t
    PROVE  flush'[s] = flush[s] /\ unread'[s] = unread[s] /\ backfill'[s] = backfill[s]
<1> USE DEF nats
<1>a. /\ flush \in [Ids -> FlushStates] /\ unread \in [Ids -> SUBSET Eras]
      /\ backfill \in [Ids -> SUBSET Eras]
  BY DEF TypeOK
<1>1. FlushSubscribe(t) => /\ flush'[s] = flush[s] /\ unread'[s] = unread[s]
                           /\ backfill'[s] = backfill[s]
  BY <1>a DEF FlushSubscribe
<1>2. FlushCopy(t) => /\ flush'[s] = flush[s] /\ unread'[s] = unread[s]
                      /\ backfill'[s] = backfill[s]
  BY <1>a DEF FlushCopy
<1>3. FlushEnd(t) => /\ flush'[s] = flush[s] /\ unread'[s] = unread[s]
                     /\ backfill'[s] = backfill[s]
  BY <1>a DEF FlushEnd
<1>4. QED
  BY <1>1, <1>2, <1>3 DEF Flush

LEMMA FreshStep == ASSUME IInv, FreshOK, [Next]_vars PROVE FreshOK'
<1> USE DEF memory, nats, counters
<1>a. /\ TypeOK /\ PutHolds /\ DownIdle /\ lastSid \in Nat
      /\ Started \in Nat /\ Started' \in Nat /\ Started <= Started'
      /\ pc \in [Tasks -> CtrlStates \cup AudioStates] /\ "ctrl" \in Tasks
      /\ flush \in [Ids -> FlushStates] /\ unread \in [Ids -> SUBSET Eras]
  BY StartedGrows, BoundsAssumption DEF IInv, SessionInv, TypeOK, TasksOK, Tasks, Bounds
<1> SUFFICES ASSUME NEW s \in Ids,
                    s > Started' \/ (pc'["ctrl"] = "config" /\ held'["ctrl"] = s)
             PROVE  flush'[s] = "none" /\ backfill'[s] = {} /\ unread'[s] = {}
  BY DEF FreshOK
<1>b. s \in Nat
  BY DEF Ids
<1>1. s > Started \/ (pc["ctrl"] = "config" /\ held["ctrl"] = s)
  <2>1. CASE s > Started'
    BY <1>a, <1>b, <2>1
  <2>2. CASE pc'["ctrl"] = "config" /\ held'["ctrl"] = s
    <3>1. ~StartSession
      BY <2>2, <1>a DEF StartSession, Call, Goto
    <3>2. PutReply => s > Started
      <4>1. PutReply => pc["ctrl"] = "put" /\ s = held["ctrl"]
        BY <2>2 DEF PutReply, Awaits
      <4>2. PutReply => s = lastSid /\ Started = lastSid - 1
        BY <1>a, <4>1 DEF PutHolds, Started
      <4>3. QED
        BY <1>a, <1>b, <4>2
    <3>3. QED
      BY <2>2, <3>1, <3>2, <1>a, OpenedBy
  <2>3. QED
    BY <2>1, <2>2
<1>2. flush[s] = "none" /\ backfill[s] = {} /\ unread[s] = {}
  BY <1>1 DEF FreshOK
<1>3. CASE UNCHANGED flushed
  BY <1>2, <1>3 DEF flushed
<1>4. CASE ConfigReply
  <2>1. s # held["ctrl"]
    BY <1>4, <1>a, <1>b, ConfigEnds
  <2>2. QED
    BY <1>4, <1>2, <1>a, <2>1, ConfigEnds
<1>5. CASE StartWithoutKv
  <2>1. s # lastSid + 1
    BY <1>5, <1>a, <1>b, BareStart
  <2>2. QED
    BY <1>5, <1>2, <1>a, <2>1, BareStart
<1>6. CASE PrerollChunk
  BY <1>6, <1>2 DEF PrerollChunk
<1>7. CASE Crash
  BY <1>7, <1>2 DEF Crash
<1>8. ASSUME NEW t \in Ids, Flush(t) PROVE flush'[s] = "none" /\ backfill'[s] = {} /\ unread'[s] = {}
  <2>1. s # t
    BY <1>8, <1>2 DEF Flush, FlushSubscribe, FlushCopy, FlushEnd
  <2>2. QED
    BY <1>8, <1>2, <1>a, <2>1, FlushOwn
<1>9. QED
  BY <1>3, <1>4, <1>5, <1>6, <1>7, <1>8, FlushedBy

\* What a step does to a process that is down, or that has no buckets.
LEMMA BareKinds ==
    ASSUME IInv, [Next]_vars
    PROVE  /\ ~up' => Crash \/ ~up
           /\ up' /\ ~kv_ready' => \/ Boot
                                   \/ /\ up /\ ~kv_ready /\ ~Crash
                                      /\ kv' \in {kv, None} \/ pc["ctrl"] = "put"
<1> USE DEF memory, nats, counters
<1>1. Steady \/ GoesIdle => UNCHANGED <<up, kv_ready>> /\ kv' \in {kv, None}
  BY DEF Steady, GoesIdle
<1>2. StartSession => UNCHANGED <<up, kv_ready>> /\ kv_ready
  BY DEF StartSession
<1>3. PutReply => UNCHANGED <<up, kv_ready>> /\ pc["ctrl"] = "put"
  BY DEF PutReply, Awaits
<1>4. StartWithoutKv => UNCHANGED <<up, kv_ready>> /\ kv' = kv
  BY DEF StartWithoutKv
<1>5. Crash => ~up'
  BY DEF Crash
<1>6. Boot => up'
  BY DEF Boot
<1>7. TypeOK
  BY DEF IInv
<1>8. QED
  BY <1>1, <1>2, <1>3, <1>4, <1>5, <1>6, <1>7, StepKinds

LEMMA NoKvStep == ASSUME IInv, NoKvOK, [Next]_vars PROVE NoKvOK'
<1> USE DEF memory, nats, counters
<1>a. /\ TypeOK /\ PutHolds /\ DownIdle /\ lastSid \in Nat /\ kv \in 0 .. lastSid
      /\ pc \in [Tasks -> CtrlStates \cup AudioStates] /\ "ctrl" \in Tasks
      /\ flush \in [Ids -> FlushStates]
  BY BoundsAssumption DEF IInv, SessionInv, TypeOK, TasksOK, Tasks, Bounds
<1>1. ASSUME ~up', NEW s \in Ids PROVE flush'[s] \notin {"subscribe", "copy"}
  <2>1. CASE Crash
    BY <2>1 DEF Crash
  <2>2. CASE ~up
    <3>1. flush[s] \notin {"subscribe", "copy"}
      BY <2>2 DEF NoKvOK, Flushing
    <3>2. /\ ~ConfigReply /\ ~StartWithoutKv /\ ~PrerollChunk /\ ~Crash
          /\ \A t \in Ids : ~Flush(t)
      BY <2>2 DEF ConfigReply, Awaits, StartWithoutKv, StartServed, Fetched, PrerollChunk, Crash,
                  Flush, FlushSubscribe, FlushCopy, FlushEnd
    <3>3. QED
      BY <3>1, <3>2, FlushedBy DEF flushed
  <2>3. QED
    BY <1>1, <2>1, <2>2, BareKinds
<1>2. CASE Boot
  <2>1. ~up /\ flush' = flush /\ pc'["ctrl"] \notin {"put", "config"}
    BY <1>2, <1>a DEF Boot, flushes, DownIdle, Home, Tasks
  <2>2. QED
    BY <1>1, <2>1 DEF NoKvOK, Flushing
<1>3. ASSUME up', ~kv_ready', ~Boot
      PROVE  /\ pc'["ctrl"] \notin {"put", "config"}
             /\ \A s \in Ids : s = kv' => flush'[s] \notin {"subscribe", "copy"}
  <2>1. up /\ ~kv_ready /\ ~Crash /\ (kv' \in {kv, None} \/ pc["ctrl"] = "put")
    BY <1>3, BareKinds
  <2>2. pc["ctrl"] \notin {"put", "config"} /\ \A s \in Ids : s = kv => ~Flushing(s)
    BY <2>1 DEF NoKvOK
  <2>3. pc'["ctrl"] \notin {"put", "config"}
    <3>1. ~StartSession /\ ~PutReply
      BY <2>1, <2>2 DEF StartSession, PutReply, Awaits
    <3>2. QED
      BY <1>a, <2>2, <3>1, OpenedBy
  <2>4. ASSUME NEW s \in Ids, s = kv' PROVE flush'[s] \notin {"subscribe", "copy"}
    <3>1. s = kv /\ s \in Nat /\ flush[s] \notin {"subscribe", "copy"}
      BY <2>1, <2>2, <2>4 DEF Ids, None, Flushing
    <3>2. ~ConfigReply
      BY <2>2 DEF ConfigReply, Awaits
    <3>3. StartWithoutKv => flush'[s] = flush[s]
      BY <1>a, <3>1, BareStart
    <3>4. PrerollChunk => flush'[s] = flush[s]
      BY DEF PrerollChunk
    <3>5. ASSUME NEW t \in Ids, Flush(t) PROVE flush'[s] = flush[s]
      <4>1. s # t
        BY <3>1, <3>5 DEF Flush, FlushSubscribe, FlushCopy, FlushEnd
      <4>2. QED
        BY <1>a, <3>5, <4>1, FlushOwn
    <3>6. QED
      BY <2>1, <3>1, <3>2, <3>3, <3>4, <3>5, FlushedBy DEF flushed
  <2>5. QED
    BY <2>3, <2>4
<1>4. QED
  BY <1>1, <1>2, <1>3 DEF NoKvOK, Flushing

LEMMA IdleStep == ASSUME IInv, IdleOK, [Next]_vars PROVE IdleOK'
<1> USE DEF memory, nats, counters
<1> SUFFICES ASSUME faults' = 0, up', kv_ready', session_id' = None
             PROVE  kv' = None \/ (pc'["ctrl"] = "put" /\ kv' = lastSid')
  BY DEF IdleOK
<1>a. /\ TypeOK /\ PutHolds /\ DownIdle /\ lastSid \in Nat /\ faults = 0
      /\ pc \in [Tasks -> CtrlStates \cup AudioStates] /\ "ctrl" \in Tasks
  BY Counting, BoundsAssumption DEF IInv, SessionInv, TypeOK, TasksOK, Tasks, Bounds
<1>1. CASE Steady
  BY <1>1, <1>a DEF Steady, SamePut, IdleOK
<1>2. CASE GoesIdle
  BY <1>2, <1>a DEF GoesIdle
<1>3. CASE StartSession
  <2>1. /\ up /\ kv_ready /\ session_id = None /\ pc["ctrl"] = "fetch"
        /\ kv' \in {kv, lastSid + 1} /\ lastSid' = lastSid + 1
    BY <1>3 DEF StartSession, StartServed, Fetched, is_active
  <2>2. kv = None
    BY <1>a, <2>1 DEF IdleOK
  <2>3. pc'["ctrl"] = "put"
    BY <1>3, <1>a DEF StartSession, Call, Goto
  <2>4. QED
    BY <2>1, <2>2, <2>3
<1>4. ~PutReply /\ ~StartWithoutKv /\ ~Crash
  BY <1>a DEF PutReply, Awaits, PutHolds, StartWithoutKv, Crash, None
<1>5. CASE Boot
  <2>1. session_id' = Recovered(kv_ready')
    BY <1>5, <1>a DEF Boot, Fault
  <2>2. QED
    BY <1>5, <2>1 DEF Boot, Recovered
<1>6. QED
  BY <1>1, <1>2, <1>3, <1>4, <1>5, <1>a, StepKinds

\* The flush of a current session that an idle microphone may still reach belongs to a start that is
\* not complete.
LEMMA IdleFlush ==
    ASSUME IInv, NoKvOK, IdleOK, faults = 0, PrerollChunk, NEW s \in Ids, Current(s),
           Flushing(s) \/ Opening(s)
    PROVE  Started < s
<1>a. /\ PutHolds /\ lastSid \in Nat /\ s \in Nat /\ s # None
      /\ up /\ session_id = None
  BY BoundsAssumption DEF IInv, SessionInv, TypeOK, Bounds, Ids, None, PrerollChunk, is_active
<1>1. CASE pc["ctrl"] = "put" /\ held["ctrl"] = s
  BY <1>1, <1>a DEF PutHolds, Started
<1>2. CASE s = kv /\ kv_ready
  <2>1. pc["ctrl"] = "put" /\ s = lastSid
    BY <1>2, <1>a DEF IdleOK
  <2>2. QED
    BY <1>a, <2>1 DEF Started
<1>3. CASE s = kv /\ ~kv_ready
  BY <1>3, <1>a DEF NoKvOK, Flushing, Opening
<1>4. QED
  BY <1>1, <1>2, <1>3, <1>a DEF Current

\* A flush that loses no call copies what it finds, in order, and only then ends.
LEMMA FlushKinds ==
    ASSUME TypeOK, NEW s \in Ids, Flush(s), faults = 0, faults' = 0
    PROVE  /\ UNCHANGED <<pc, held, preroll>>
           /\ \/ flush[s] = "subscribe" /\ flush'[s] = "copy" /\ unread'[s] = preroll
                 /\ backfill' = backfill
              \/ \E e \in unread[s] :
                    /\ flush' = flush /\ unread'[s] = unread[s] \ {e}
                    /\ backfill'[s] = backfill[s] \cup {e}
              \/ flush'[s] = "closed" /\ UNCHANGED <<unread, backfill>>
<1> USE DEF nats, tasks
<1>a. /\ flush \in [Ids -> FlushStates] /\ unread \in [Ids -> SUBSET Eras]
      /\ backfill \in [Ids -> SUBSET Eras]
  BY DEF TypeOK
<1>1. ~Fault
  BY DEF Fault
<1>2. CASE FlushSubscribe(s)
  BY <1>a, <1>1, <1>2 DEF FlushSubscribe
<1>3. CASE FlushCopy(s)
  BY <1>a, <1>1, <1>3 DEF FlushCopy
<1>4. CASE FlushEnd(s)
  BY <1>a, <1>1, <1>4 DEF FlushEnd
<1>5. QED
  BY <1>2, <1>3, <1>4 DEF Flush

LEMMA PastStep == ASSUME IInv, PastInv, [Next]_vars PROVE PastOK'
<1> USE DEF nats
<1> DEFINE Past(s) == /\ Before(s, backfill[s]) /\ Before(s, unread[s])
                      /\ Opening(s) => Before(s, preroll)
<1> SUFFICES ASSUME faults' = 0, NEW s \in Ids, Current(s)' PROVE Past(s)'
  BY DEF PastOK
<1>b. /\ TypeOK /\ lastSid \in Nat /\ faults = 0 /\ Started \in Nat /\ Started <= lastSid
  BY Counting, StartedGrows, BoundsAssumption DEF IInv, TypeOK, Bounds, Started
<1>a. /\ TypeOK /\ PutHolds /\ DownIdle /\ lastSid \in Nat /\ faults = 0 /\ s \in Nat
      /\ Started \in Nat /\ Started <= lastSid
      /\ PrerollOK /\ FreshOK /\ NoKvOK /\ IdleOK /\ PastOK
      /\ pc \in [Tasks -> CtrlStates \cup AudioStates] /\ "ctrl" \in Tasks
      /\ held \in [Tasks -> 0 .. lastSid]
      /\ flush \in [Ids -> FlushStates] /\ unread \in [Ids -> SUBSET Eras]
      /\ backfill \in [Ids -> SUBSET Eras] /\ preroll \in SUBSET Nat
  BY <1>b, BoundsAssumption
     DEF IInv, SessionInv, TypeOK, TasksOK, Tasks, Bounds, Ids, PastInv, Eras
<1>1. CASE s = lastSid + 1 /\ (StartSession \/ StartWithoutKv)
  <2>1. backfill[s] = {} /\ unread[s] = {}
    BY <1>1, <1>a DEF FreshOK
  <2>2. UNCHANGED <<unread, backfill, preroll>>
    BY <1>1 DEF StartSession, StartWithoutKv, flushes
  <2>3. Before(s, preroll)
    BY <1>1, <1>a DEF PrerollOK, Before
  <2>4. QED
    BY <2>1, <2>2, <2>3 DEF Before
<1>2. CASE Current(s) /\ s <= lastSid
  <2>1. Past(s)
    BY <1>2, <1>a DEF PastOK
  <2>2. pc'["ctrl"] \in {"put", "config"} /\ held'["ctrl"] = s
        => pc["ctrl"] \in {"put", "config"} /\ held["ctrl"] = s
    <3>1. StartSession => held'["ctrl"] = lastSid + 1
      BY <1>a DEF StartSession
    <3>2. PutReply => pc["ctrl"] = "put" /\ held'["ctrl"] = held["ctrl"]
      BY DEF PutReply, Awaits
    <3>3. QED
      BY <1>2, <1>a, <3>1, <3>2, OpenedBy
  <2>3. CASE UNCHANGED flushed
    BY <2>1, <2>2, <2>3 DEF flushed, Opening
  <2>4. CASE ConfigReply
    <3>1. flush'[s] = flush[s] \/ (pc["ctrl"] = "config" /\ held["ctrl"] = s)
      BY <2>4, <1>a, ConfigEnds
    <3>2. UNCHANGED <<unread, backfill, preroll>>
      BY <2>4, <1>a, ConfigEnds
    <3>3. QED
      BY <2>1, <2>2, <3>1, <3>2 DEF Opening
  <2>5. CASE StartWithoutKv
    <3>1. flush'[s] = flush[s] /\ UNCHANGED <<unread, backfill, preroll>>
      BY <2>5, <1>2, <1>a, BareStart
    <3>2. QED
      BY <2>1, <2>2, <3>1 DEF Opening
  <2>6. CASE PrerollChunk
    <3>1. /\ preroll' = preroll \cup {Started} /\ UNCHANGED <<flush, backfill, pc, held>>
          /\ unread'[s] = IF flush[s] = "copy" THEN unread[s] \cup {Started} ELSE unread[s]
      BY <2>6 DEF PrerollChunk, tasks
    <3>2. flush[s] = "copy" \/ Opening(s) => Started < s
      BY <2>6, <1>2, <1>a, IdleFlush DEF Flushing
    <3>3. Opening(s)' = Opening(s)
      BY <3>1 DEF Opening
    <3>4. QED
      BY <2>1, <3>1, <3>2, <3>3 DEF Before
  <2>7. CASE Crash
    <3>1. /\ unread'[s] = {} /\ backfill' = backfill /\ flush'[s] # "subscribe"
          /\ pc'["ctrl"] = "fetch"
      BY <2>7, <1>a DEF Crash, Home
    <3>2. QED
      BY <2>1, <3>1 DEF Opening, Before
  <2>8. ASSUME NEW t \in Ids, Flush(t), t # s PROVE Past(s)'
    <3>1. /\ flush'[s] = flush[s] /\ unread'[s] = unread[s] /\ backfill'[s] = backfill[s]
          /\ preroll' = preroll
      BY <2>8, <1>a, FlushOwn, FlushKinds
    <3>2. QED
      BY <2>1, <2>2, <3>1 DEF Opening
  <2>9. CASE Flush(s)
    <3>1. UNCHANGED <<pc, held, preroll>>
      BY <2>9, <1>a, FlushKinds
    <3>2. CASE /\ flush[s] = "subscribe" /\ flush'[s] = "copy" /\ unread'[s] = preroll
               /\ backfill' = backfill
      BY <2>1, <3>1, <3>2 DEF Opening
    <3>3. CASE \E e \in unread[s] : /\ flush' = flush /\ unread'[s] = unread[s] \ {e}
                                    /\ backfill'[s] = backfill[s] \cup {e}
      BY <2>1, <3>1, <3>3 DEF Opening, Before
    <3>4. CASE flush'[s] = "closed" /\ UNCHANGED <<unread, backfill>>
      BY <2>1, <3>1, <3>4 DEF Opening
    <3>5. QED
      BY <2>9, <1>a, <3>2, <3>3, <3>4, FlushKinds
  <2>10. QED
    BY <2>3, <2>4, <2>5, <2>6, <2>7, <2>8, <2>9, FlushedBy
<1>3. QED
  BY <1>1, <1>2, CurrentWas

\* The backfill of the session in memory was captured before its start, unless a call was lost: the
\* flush of a stopped session goes on copying what an idle microphone adds, but no process resumes it.
THEOREM BackfillIsOld == Spec => []BackfillIsPast
<1>1. IInv /\ PastInv /\ [Next]_vars => (IInv /\ PastInv)'
  BY StepInv, PrerollStep, FreshStep, NoKvStep, IdleStep, PastStep DEF PastInv
<1>2. IInv /\ PastInv => BackfillIsPast
  <2> SUFFICES ASSUME IInv, PastInv, faults = 0, session_id # None
               PROVE  \A e \in backfill[session_id] : e < session_id
    BY DEF BackfillIsPast
  <2>1. session_id \in Ids /\ Current(session_id)
    BY BoundsAssumption DEF IInv, TypeOK, Ids, None, Bounds, Current
  <2>2. QED
    BY <2>1 DEF PastInv, PastOK, Before
<1>3. QED
  BY <1>1, <1>2, InitInv, InitPast, PTL DEF Spec
=============================================================================
