------------------------ MODULE GatewaySessions_proofs ------------------------
(***************************************************************************)
(* Proofs about GatewaySessions, for any number of sessions and faults:    *)
(* types, that the active session is listed and is the running one, that a *)
(* rename stays with its session, what retention may do to the running     *)
(* one, and that the rows of ended sessions are closed.                    *)
(***************************************************************************)
EXTENDS GatewaySessions, FiniteSetTheorems, SequenceTheorems, TLAPS

(* Type correctness.                                                         *)

LEMMA InitType == Init => TypeOK
<1> SUFFICES ASSUME Init PROVE TypeOK
  OBVIOUS
<1>1. key \in Key /\ rename \in [at : {"idle", "check", "put"}, id : Ids \cup {NoId}, read : Key]
  BY DEF Init, NoKey, NoRename, Key
<1>2. /\ handler \in [at : {"idle", "write", "return"}, ev : Event]
      /\ handler.at = "idle" <=> handler.ev = <<>>
      /\ telling \in Event /\ events \in Seq(Told)
  BY DEF Init, Idle, Event
<1>3. /\ kv \in [at : {"connect", "reply", "done"}, read : Ids \cup {NoId}]
      /\ listing \in [on : BOOLEAN, keep : Ids \cup {NoId}]
      /\ purge \in [at : {"idle", "select", "delete"}, ids : SUBSET Ids, old : SUBSET Ids]
  BY DEF Init, NoListing, NoPurge
<1>4. rows \in [Ids -> {"none", "open", "stopped", "interrupted"}]
  BY DEF Init
<1>5. /\ newest \in Ids \cup {NoId} /\ running \in {NoId, newest} /\ active \in Ids \cup {NoId}
  BY DEF Init
<1>6. faults \in 0 .. MaxFaults
  BY LimitsAssumption DEF Init
<1>7. /\ stage \in {"down", "connecting", "subscribed", "serving"} /\ handles \in BOOLEAN
      /\ unheard \subseteq Ids /\ missed \in BOOLEAN /\ crossed \in BOOLEAN
  BY DEF Init
<1>8. QED
  BY <1>1, <1>2, <1>3, <1>4, <1>5, <1>6, <1>7
     DEF TypeOK, ProducerOK, EventsOK, BeliefOK, HandlerOK, RequestsOK, StoreOK

LEMMA ToldSomething == \A e \in Told : e # <<>> /\ e[1] \in {"started", "stopped"} /\ e[2] \in Ids
  BY DEF Told

LEMMA FaultType == ASSUME StoreOK, Fault PROVE faults' \in 0 .. MaxFaults
  BY LimitsAssumption DEF StoreOK, Fault

\* A part of TypeOK whose variables do not change is kept.
LEMMA Frames ==
    /\ ProducerOK /\ UNCHANGED <<newest, running, telling, key>> => ProducerOK'
    /\ EventsOK /\ UNCHANGED <<events, handles, stage>> => EventsOK'
    /\ BeliefOK /\ UNCHANGED <<active, kv>> => BeliefOK'
    /\ HandlerOK /\ UNCHANGED <<handler>> => HandlerOK'
    /\ RequestsOK /\ UNCHANGED <<listing, rename, purge>> => RequestsOK'
    /\ StoreOK /\ UNCHANGED <<rows, faults, unheard, missed, crossed>> => StoreOK'
  BY DEF ProducerOK, EventsOK, BeliefOK, HandlerOK, RequestsOK, StoreOK

\* Every action keeps the parts that it changes.
LEMMA TypeStep == TypeOK /\ [Next]_vars => TypeOK'
<1> SUFFICES ASSUME TypeOK, [Next]_vars PROVE TypeOK'
  OBVIOUS
<1> USE DEF TypeOK, producer, requests, observed
<1>1. CASE ProducerStart
  <2>1. ProducerOK'
    BY <1>1, LimitsAssumption DEF ProducerStart, ProducerOK, NoKey, Key, Event, Told, Ids, NoId
  <2>2. StoreOK'
    BY <1>1, FaultType DEF ProducerStart, StoreOK, Crossing
  <2>3. QED
    BY <1>1, <2>1, <2>2, Frames DEF ProducerStart
<1>2. CASE ProducerStop
  <2>1. ProducerOK'
    BY <1>2 DEF ProducerStop, ProducerOK, NoKey, Key, Event, Told
  <2>2. StoreOK'
    BY <1>2 DEF ProducerStop, StoreOK, Crossing
  <2>3. QED
    BY <1>2, <2>1, <2>2, Frames DEF ProducerStop
<1>3. CASE Tell
  <2>1. ProducerOK'
    BY <1>3 DEF Tell, ProducerOK, Event
  <2>2. EventsOK'
    <3>1. telling # <<>> /\ telling \in Told
      BY <1>3 DEF Tell, ProducerOK, Event
    <3>2. Append(events, telling) \in Seq(Told)
      BY <3>1 DEF EventsOK
    <3>3. QED
      BY <1>3, <3>2 DEF Tell, EventsOK
  <2>3. StoreOK'
    BY <1>3, FaultType DEF Tell, StoreOK
  <2>4. QED
    BY <1>3, <2>1, <2>2, <2>3, Frames DEF Tell
<1>4. CASE Boot
  <2>1. BeliefOK'
    BY <1>4 DEF Boot, BeliefOK
  <2>2. EventsOK'
    BY <1>4 DEF Boot, EventsOK
  <2>3. StoreOK'
    BY <1>4 DEF Boot, StoreOK
  <2>4. QED
    BY <1>4, <2>1, <2>2, <2>3, Frames DEF Boot
<1>5. CASE Subscribe
  <2>1. EventsOK'
    BY <1>5 DEF Subscribe, EventsOK
  <2>2. RequestsOK'
    BY <1>5 DEF Subscribe, RequestsOK, NoPurge
  <2>3. QED
    BY <1>5, <2>1, <2>2, Frames DEF Subscribe
<1>6. CASE Serve
  <2>1. EventsOK'
    BY <1>6 DEF Serve, EventsOK
  <2>2. QED
    BY <1>6, <2>1, Frames DEF Serve
<1>7. CASE KvConnect
  <2>1. EventsOK'
    BY <1>7 DEF KvConnect, EventsOK
  <2>2. BeliefOK'
    BY <1>7 DEF KvConnect, BeliefOK, ProducerOK, Key
  <2>3. StoreOK'
    BY <1>7 DEF KvConnect, StoreOK
  <2>4. QED
    BY <1>7, <2>1, <2>2, <2>3, Frames DEF KvConnect
<1>8. CASE KvReply
  <2>1. BeliefOK'
    BY <1>8 DEF KvReply, BeliefOK
  <2>2. StoreOK'
    BY <1>8, FaultType DEF KvReply, StoreOK, BeliefOK
  <2>3. QED
    BY <1>8, <2>1, <2>2, Frames DEF KvReply
<1>9. CASE Crash
  <2>1. EventsOK'
    <3>1. events' = <<>> /\ <<>> \in Seq(Told)
      BY <1>9 DEF Crash
    <3>2. QED
      BY <1>9, <3>1 DEF Crash, EventsOK
  <2>2. BeliefOK'
    BY <1>9 DEF Crash, BeliefOK
  <2>3. HandlerOK'
    BY <1>9 DEF Crash, HandlerOK, Idle, Event
  <2>4. RequestsOK'
    BY <1>9 DEF Crash, RequestsOK, NoListing, NoRename, NoPurge, NoKey, Key
  <2>5. StoreOK'
    BY <1>9, FaultType DEF Crash, StoreOK
  <2>6. QED
    BY <1>9, <2>1, <2>2, <2>3, <2>4, <2>5, Frames DEF Crash
<1>10. CASE TakeEvent
  <2>1. EventsOK'
    BY <1>10 DEF TakeEvent, EventsOK
  <2>2. HandlerOK'
    <3>1. Head(events) \in Told
      BY <1>10 DEF TakeEvent, EventsOK
    <3>2. Head(events) # <<>>
      BY <3>1, ToldSomething
    <3>3. handler' = [at |-> "write", ev |-> Head(events)]
      BY <1>10 DEF TakeEvent
    <3>4. QED
      BY <3>1, <3>2, <3>3 DEF HandlerOK, Event
  <2>3. QED
    BY <1>10, <2>1, <2>2, Frames DEF TakeEvent
<1>11. CASE WriteEvent
  <2>1. HandlerOK'
    BY <1>11 DEF WriteEvent, HandlerOK, Idle, Event
  <2>2. StoreOK'
    BY <1>11, FaultType DEF WriteEvent, StoreOK, Recorded
  <2>3. QED
    BY <1>11, <2>1, <2>2, Frames DEF WriteEvent
<1>12. CASE ReturnEvent
  <2>1. BeliefOK'
    BY <1>12 DEF ReturnEvent, BeliefOK, HandlerOK, Event, Told
  <2>2. HandlerOK'
    BY <1>12 DEF ReturnEvent, HandlerOK, Idle, Event
  <2>3. StoreOK'
    BY <1>12 DEF ReturnEvent, StoreOK
  <2>4. QED
    BY <1>12, <2>1, <2>2, <2>3, Frames DEF ReturnEvent
<1>13. CASE List
  <2>1. RequestsOK'
    BY <1>13 DEF List, RequestsOK, BeliefOK
  <2>2. QED
    BY <1>13, <2>1, Frames DEF List
<1>14. CASE CloseOrphans
  <2>1. RequestsOK'
    BY <1>14 DEF CloseOrphans, RequestsOK, NoListing
  <2>2. StoreOK'
    BY <1>14 DEF CloseOrphans, StoreOK
  <2>3. QED
    BY <1>14, <2>1, <2>2, Frames DEF CloseOrphans
<1>15. ASSUME NEW s \in Ids, RenameRow(s) PROVE TypeOK'
  <2>1. RequestsOK'
    BY <1>15 DEF RenameRow, RequestsOK, NoRename, NoKey, Key
  <2>2. QED
    BY <1>15, <2>1, Frames DEF RenameRow
<1>16. CASE RenameCheck
  <2>1. RequestsOK'
    <3>1. NoRename \in [at : {"idle", "check", "put"}, id : Ids \cup {NoId}, read : Key]
      BY DEF NoRename, NoKey, Key
    <3>2. [rename EXCEPT !.at = "put", !.read = key]
              \in [at : {"idle", "check", "put"}, id : Ids \cup {NoId}, read : Key]
      BY DEF RequestsOK, ProducerOK
    <3>3. QED
      BY <1>16, <3>1, <3>2 DEF RenameCheck, RequestsOK
  <2>2. StoreOK'
    BY <1>16 DEF RenameCheck, StoreOK
  <2>3. QED
    BY <1>16, <2>1, <2>2, Frames DEF RenameCheck
<1>17. CASE RenamePut
  <2>1. ProducerOK'
    BY <1>17 DEF RenamePut, ProducerOK, RequestsOK, Key
  <2>2. RequestsOK'
    BY <1>17 DEF RenamePut, RequestsOK, NoRename, NoKey, Key
  <2>3. QED
    BY <1>17, <2>1, <2>2, Frames DEF RenamePut
<1>18. CASE DailyPurge
  <2>1. RequestsOK'
    BY <1>18 DEF DailyPurge, RequestsOK, NoPurge
  <2>2. QED
    BY <1>18, <2>1, Frames DEF DailyPurge
<1>19. CASE PurgeSelect
  <2>1. RequestsOK'
    BY <1>19 DEF PurgeSelect, RequestsOK, NoPurge, TooMany, TooOld, Completed
  <2>2. QED
    BY <1>19, <2>1, Frames DEF PurgeSelect
<1>20. CASE PurgeDelete
  <2>1. RequestsOK'
    BY <1>20 DEF PurgeDelete, RequestsOK, NoPurge
  <2>2. StoreOK'
    BY <1>20, FaultType DEF PurgeDelete, StoreOK, RequestsOK
  <2>3. QED
    BY <1>20, <2>1, <2>2, Frames DEF PurgeDelete
<1>21. CASE UNCHANGED vars
  BY <1>21, Frames DEF vars
<1>22. QED
  BY <1>1, <1>2, <1>3, <1>4, <1>5, <1>6, <1>7, <1>8, <1>9, <1>10, <1>11, <1>12, <1>13, <1>14, <1>15, <1>16, <1>17, <1>18, <1>19, <1>20, <1>21
     DEF Next, Producer, Lifespan, KvTask, Handler, Retention, Requests

\* Every variable of the gateway's sessions keeps its type.
THEOREM TypeCorrect == Spec => []TypeOK
  BY InitType, TypeStep, PTL DEF Spec
-----------------------------------------------------------------------------
(* The active session is listed.                                             *)

\* The row of a session that is about to become active is there, or was purged.
RowWritten == handler.at = "return" /\ handler.ev[1] = "started" =>
                  rows[handler.ev[2]] # "none" \/ handler.ev[2] \in unheard

ListedInv == ActiveListed /\ RowWritten

\* No row is lost that is not remembered as purged.
LEMMA RowsStay ==
    ASSUME TypeOK, [Next]_vars
    PROVE  /\ unheard \subseteq unheard'
           /\ \A s \in Ids : rows[s] # "none" => rows'[s] # "none" \/ s \in unheard'
<1> USE DEF TypeOK, StoreOK, producer, requests, observed
<1>1. CASE WriteEvent
  BY <1>1 DEF WriteEvent, Recorded
<1>2. CASE CloseOrphans
  BY <1>2 DEF CloseOrphans
<1>3. CASE PurgeDelete
  BY <1>3 DEF PurgeDelete
<1>4. CASE KvReply
  BY <1>4 DEF KvReply
<1>5. CASE UNCHANGED <<rows, unheard>>
  BY <1>5
<1>6. QED
  BY <1>1, <1>2, <1>3, <1>4, <1>5
     DEF Next, Producer, Lifespan, KvTask, Handler, Retention, Requests, vars, ProducerStart,
         ProducerStop, Tell, Boot, Subscribe, Serve, KvConnect, Crash, TakeEvent, ReturnEvent,
         List, RenameRow, RenameCheck, RenamePut, DailyPurge, PurgeSelect

\* Most steps change neither the active session nor the event in hand.
LEMMA ListedKept ==
    ASSUME TypeOK, [Next]_vars, ListedInv, UNCHANGED <<active, handler>>
    PROVE  ListedInv'
<1>1. handler.at = "return" => handler.ev[2] \in Ids
  BY ToldSomething DEF TypeOK, HandlerOK, Event
<1>2. ActiveListed'
  BY RowsStay DEF ListedInv, ActiveListed, TypeOK, BeliefOK
<1>3. RowWritten'
  BY <1>1, RowsStay DEF ListedInv, RowWritten
<1>4. QED
  BY <1>2, <1>3 DEF ListedInv

LEMMA ListedStep == TypeOK /\ ListedInv /\ [Next]_vars => ListedInv'
<1> SUFFICES ASSUME TypeOK, ListedInv, [Next]_vars PROVE ListedInv'
  OBVIOUS
<1>0. handler.at # "idle" => handler.ev \in Told
  BY DEF TypeOK, HandlerOK, Event
<1>1. CASE KvReply
  <2>1. handler' = handler /\ (active' = active \/ active' \in unheard')
    BY <1>1 DEF KvReply
  <2>2. ActiveListed'
    BY <2>1, RowsStay DEF ListedInv, ActiveListed, TypeOK, BeliefOK
  <2>3. RowWritten'
    BY <1>0, <2>1, RowsStay, ToldSomething DEF ListedInv, RowWritten
  <2>4. QED
    BY <2>2, <2>3 DEF ListedInv
<1>2. CASE Crash
  BY <1>2 DEF Crash, ListedInv, ActiveListed, RowWritten, Idle
<1>3. CASE TakeEvent
  <2>1. active' = active /\ handler'.at = "write"
    BY <1>3 DEF TakeEvent
  <2>2. QED
    BY <2>1, RowsStay DEF ListedInv, ActiveListed, RowWritten, TypeOK, BeliefOK
<1>4. CASE WriteEvent
  <2>1. active' = active
    BY <1>4 DEF WriteEvent
  <2>2. ActiveListed'
    BY <2>1, RowsStay DEF ListedInv, ActiveListed, TypeOK, BeliefOK
  <2>3. RowWritten'
    BY <1>0, <1>4, ToldSomething
       DEF WriteEvent, Recorded, Idle, RowWritten, TypeOK, HandlerOK, StoreOK
  <2>4. QED
    BY <2>2, <2>3 DEF ListedInv
<1>5. CASE ReturnEvent
  BY <1>0, <1>5, ToldSomething DEF ReturnEvent, ListedInv, ActiveListed, RowWritten, Idle,
                                   producer, requests
<1>6. CASE UNCHANGED <<active, handler>>
  BY <1>6, ListedKept
<1>7. QED
  BY <1>1, <1>2, <1>3, <1>4, <1>5, <1>6
     DEF Next, Producer, Lifespan, KvTask, Handler, Retention, Requests, vars, ProducerStart,
         ProducerStop, Tell, Boot, Subscribe, Serve, KvConnect, List, CloseOrphans, RenameRow,
         RenameCheck, RenamePut, DailyPurge, PurgeSelect, PurgeDelete

\* The session that segments are filed under has a row, unless the start of the gateway
\* took it from the key or retention purged it.
THEOREM ActiveIsListed == Spec => []ActiveListed
<1>1. Init => ListedInv
  BY DEF Init, ListedInv, ActiveListed, RowWritten, Idle
<1>2. ListedInv => ActiveListed
  BY DEF ListedInv
<1>3. QED
  BY <1>1, <1>2, ListedStep, TypeCorrect, PTL DEF Spec
-----------------------------------------------------------------------------
(* A rename stays with its session.                                          *)

\* While no session came or went, a rename holds the key of the session it names.
RenameHeld == ~crossed /\ rename.at = "put" =>
                  rename.read.id \in {NoId, running} /\ rename.read.id = rename.id

RenameInv == RenameStays /\ RenameHeld

LEMMA RenameStep == TypeOK /\ RenameInv /\ [Next]_vars => RenameInv'
<1> SUFFICES ASSUME TypeOK, RenameInv, [Next]_vars PROVE RenameInv'
  OBVIOUS
<1> USE DEF RenameInv, RenameStays, RenameHeld, producer, requests, observed
<1>0. rename.at \in {"idle", "check", "put"} /\ key \in Key /\ rename.read \in Key
  BY DEF TypeOK, RequestsOK, ProducerOK
<1>1. CASE ProducerStart
  BY <1>1 DEF ProducerStart, Crossing
<1>2. CASE ProducerStop
  BY <1>2 DEF ProducerStop, Crossing, NoKey
<1>3. CASE Crash
  BY <1>3 DEF Crash, NoRename
<1>4. ASSUME NEW s \in Ids, RenameRow(s) PROVE RenameInv'
  BY <1>4 DEF RenameRow, NoRename
<1>5. CASE RenameCheck
  <2>0. UNCHANGED <<key, running>>
    BY <1>5 DEF RenameCheck
  <2>1. crossed => crossed'
    BY <1>5, Zenon DEF RenameCheck
  <2>2. ASSUME ~crossed', rename'.at = "put"
        PROVE  rename'.read = key /\ rename'.id = key.id
    <3>1. Rewrites(rename.id) /\ crossed' = (crossed \/ active # key.id)
          /\ rename' = [rename EXCEPT !.at = "put", !.read = key]
      BY <1>5, <2>2 DEF RenameCheck, NoRename
    <3>2. QED
      BY <2>2, <3>1 DEF Rewrites, TypeOK, RequestsOK
  <2>3. QED
    BY <2>0, <2>1, <2>2
<1>6. CASE RenamePut
  <2>1. key' = [rename.read EXCEPT !.label = rename.id] /\ rename'.at = "idle"
        /\ UNCHANGED <<running, crossed>> /\ rename.at = "put"
    BY <1>6 DEF RenamePut, NoRename
  <2>2. key'.id = rename.read.id /\ key'.label = rename.id
    BY <1>0, <2>1 DEF Key
  <2>3. QED
    BY <2>1, <2>2
<1>7. CASE UNCHANGED <<key, running, rename, crossed>>
  BY <1>7
<1>8. QED
  BY <1>1, <1>2, <1>3, <1>4, <1>5, <1>6, <1>7
     DEF Next, Producer, Lifespan, KvTask, Handler, Retention, Requests, vars, Tell, Boot,
         Subscribe, Serve, KvConnect, KvReply, TakeEvent, WriteEvent, ReturnEvent, List,
         CloseOrphans, DailyPurge, PurgeSelect, PurgeDelete

\* A rename leaves the key alone or labels its own session, unless a session started or
\* stopped while rename_session held the key's old value.
THEOREM RenameStaysPut == Spec => []RenameStays
<1>1. Init => RenameInv
  BY DEF Init, RenameInv, RenameStays, RenameHeld, NoKey, NoRename
<1>2. RenameInv => RenameStays
  BY DEF RenameInv
<1>3. QED
  BY <1>1, <1>2, RenameStep, TypeCorrect, PTL DEF Spec
-----------------------------------------------------------------------------
(* What retention may do to the running session.                             *)

\* Nothing is told, handled or listed of a session that has not started,
ToldPast == /\ telling # <<>> => telling[2] <= newest
            /\ \A i \in 1 .. Len(events) : events[i][2] <= newest
            /\ handler.at # "idle" => handler.ev[2] <= newest
RowsPast == \A s \in Ids : rows[s] # "none" => s <= newest
\* the newest is never one too many, and what was selected stays closed.
PurgePast == \A s \in Ids : /\ s \in purge.ids => s < newest
                            /\ s \in purge.ids \cup purge.old => rows[s] \in {"stopped", "interrupted"}

PastInv == ToldPast /\ RowsPast /\ PurgePast

LEMMA NewestGrows ==
    ASSUME TypeOK, [Next]_vars
    PROVE  newest \in Nat /\ newest' \in Nat /\ newest <= newest'
<1>1. newest \in Nat
  BY DEF TypeOK, ProducerOK, Ids, NoId
<1>2. newest' = newest \/ newest' = newest + 1
  BY DEF Next, Producer, Lifespan, KvTask, Handler, Retention, Requests, vars, producer,
         ProducerStart, ProducerStop, Tell, Boot, Subscribe, Serve, KvConnect, KvReply, Crash,
         TakeEvent, WriteEvent, ReturnEvent, List, CloseOrphans, RenameRow, RenameCheck,
         RenamePut, DailyPurge, PurgeSelect, PurgeDelete
<1>3. QED
  BY <1>1, <1>2

\* Some completed session follows one of the sessions that are too many.
LEMMA TooManyFollowed ==
    ASSUME NEW s \in TooMany
    PROVE  \E r \in Completed : r > s
<1>1. Cardinality({r \in Completed : r > s}) >= SESSION_RETENTION_COUNT
  BY DEF TooMany
<1>2. {r \in Completed : r > s} # {}
  BY <1>1, FS_EmptySet, LimitsAssumption
<1>3. QED
  BY <1>2

LEMMA ToldPastStep == TypeOK /\ PastInv /\ [Next]_vars => ToldPast'
<1> SUFFICES ASSUME TypeOK, PastInv, [Next]_vars PROVE ToldPast'
  OBVIOUS
<1> USE NewestGrows DEF PastInv, ToldPast, producer, requests, observed
<1>0. /\ telling # <<>> => telling[2] \in Nat
      /\ events \in Seq(Told) /\ \A i \in 1 .. Len(events) : events[i][2] \in Nat
      /\ handler.at # "idle" => handler.ev[2] \in Nat
  BY ToldSomething DEF TypeOK, ProducerOK, EventsOK, HandlerOK, Event, Ids
<1>1. CASE ProducerStart
  BY <1>0, <1>1 DEF ProducerStart
<1>2. CASE ProducerStop
  BY <1>0, <1>2 DEF ProducerStop, TypeOK, ProducerOK
<1>3. CASE Tell
  <2>1. telling' = <<>> /\ UNCHANGED <<newest, handler>>
        /\ (events' = events \/ (telling # <<>> /\ events' = Append(events, telling)))
    BY <1>3 DEF Tell
  <2>2. ASSUME NEW i \in 1 .. Len(events') PROVE events'[i][2] <= newest'
    <3>1. CASE events' = events
      BY <2>1, <2>2, <3>1
    <3>2. CASE telling # <<>> /\ events' = Append(events, telling)
      <4>1. events'[i] = telling \/ (i \in 1 .. Len(events) /\ events'[i] = events[i])
        BY <1>0, <2>2, <3>2
      <4>2. QED
        BY <2>1, <3>2, <4>1
    <3>3. QED
      BY <2>1, <3>1, <3>2
  <2>3. QED
    BY <1>0, <2>1, <2>2
<1>4. CASE Crash
  BY <1>0, <1>4 DEF Crash, Idle
<1>5. CASE TakeEvent
  <2>1. events # <<>> /\ events' = Tail(events) /\ handler'.ev = events[1]
        /\ UNCHANGED <<newest, telling>>
    BY <1>5 DEF TakeEvent
  <2>2. \A i \in 1 .. Len(events') : events'[i] = events[i + 1] /\ i + 1 \in 1 .. Len(events)
    BY <1>0, <2>1
  <2>3. 1 \in 1 .. Len(events)
    BY <1>0, <2>1
  <2>4. QED
    BY <2>1, <2>2, <2>3
<1>6. CASE WriteEvent
  <2>1. handler'.ev = handler.ev \/ handler'.at = "idle"
    BY <1>6 DEF WriteEvent, Idle, TypeOK, HandlerOK
  <2>2. handler.at # "idle" /\ UNCHANGED <<newest, telling, events>>
    BY <1>6 DEF WriteEvent
  <2>3. QED
    BY <1>0, <2>1, <2>2
<1>7. CASE ReturnEvent
  BY <1>0, <1>7 DEF ReturnEvent, Idle
<1>8. CASE UNCHANGED <<newest, telling, events, handler>>
  BY <1>0, <1>8
<1>9. QED
  BY <1>1, <1>2, <1>3, <1>4, <1>5, <1>6, <1>7, <1>8
     DEF Next, Producer, Lifespan, KvTask, Handler, Retention, Requests, vars, Boot, Subscribe,
         Serve, KvConnect, KvReply, List, CloseOrphans, RenameRow, RenameCheck, RenamePut,
         DailyPurge, PurgeSelect, PurgeDelete

LEMMA RowsPastStep == TypeOK /\ PastInv /\ [Next]_vars => RowsPast'
<1> SUFFICES ASSUME TypeOK, PastInv, [Next]_vars, NEW s \in Ids, rows'[s] # "none"
             PROVE  s <= newest'
  BY DEF RowsPast
<1> USE NewestGrows DEF PastInv, ToldPast, RowsPast, TypeOK, StoreOK, Ids
<1>1. CASE WriteEvent
  <2>1. rows[s] # "none" \/ s = handler.ev[2]
    BY <1>1 DEF WriteEvent, Recorded
  <2>2. handler.at # "idle" /\ newest' = newest
    BY <1>1 DEF WriteEvent, producer
  <2>3. QED
    BY <2>1, <2>2
<1>2. CASE CloseOrphans
  BY <1>2 DEF CloseOrphans
<1>3. CASE PurgeDelete
  <2>1. rows[s] # "none" /\ newest' = newest
    BY <1>3 DEF PurgeDelete, producer
  <2>2. QED
    BY <2>1
<1>4. CASE UNCHANGED rows
  BY <1>4
<1>5. QED
  BY <1>1, <1>2, <1>3, <1>4
     DEF Next, Producer, Lifespan, KvTask, Handler, Retention, Requests, vars, ProducerStart,
         ProducerStop, Tell, Boot, Subscribe, Serve, KvConnect, KvReply, Crash, TakeEvent,
         ReturnEvent, List, RenameRow, RenameCheck, RenamePut, DailyPurge, PurgeSelect

LEMMA PurgePastStep == TypeOK /\ PastInv /\ [Next]_vars => PurgePast'
<1> SUFFICES ASSUME TypeOK, PastInv, [Next]_vars, NEW s \in Ids,
                    s \in purge'.ids \cup purge'.old
             PROVE  /\ s \in purge'.ids => s < newest'
                    /\ rows'[s] \in {"stopped", "interrupted"}
  BY DEF PurgePast
<1> USE NewestGrows
<1>1. CASE PurgeSelect
  <2>1. PICK cutoff \in 1 .. MaxSessions + 1 :
          purge' = IF TooMany \cup TooOld(cutoff) = {} THEN NoPurge
                   ELSE [at |-> "delete", ids |-> TooMany, old |-> TooOld(cutoff)]
    BY <1>1 DEF PurgeSelect
  <2>2. UNCHANGED <<newest, rows>>
    BY <1>1 DEF PurgeSelect, producer
  <2>3. s \in TooMany \cup TooOld(cutoff) /\ (s \in purge'.ids => s \in TooMany)
    BY <2>1 DEF NoPurge
  <2>4. rows[s] \in {"stopped", "interrupted"}
    BY <2>3 DEF TooMany, TooOld, Completed
  <2>5. ASSUME s \in TooMany PROVE s < newest
    <3>1. PICK r \in Completed : r > s
      BY <2>5, TooManyFollowed
    <3>2. r \in Ids /\ rows[r] # "none" /\ s \in Ids
      BY DEF Completed
    <3>3. QED
      BY <3>1, <3>2 DEF PastInv, RowsPast, Ids
  <2>6. QED
    BY <2>2, <2>3, <2>4, <2>5
<1>2. CASE Subscribe \/ DailyPurge \/ PurgeDelete \/ Crash
  <2>1. purge'.ids = {} /\ purge'.old = {}
    BY <1>2 DEF Subscribe, DailyPurge, PurgeDelete, Crash, NoPurge
  <2>2. QED
    BY <2>1
<1>3. ASSUME UNCHANGED purge, rows'[s] = rows[s] \/ rows'[s] = "stopped" \/ rows[s] = "open"
      PROVE  /\ s \in purge'.ids => s < newest'
             /\ rows'[s] \in {"stopped", "interrupted"}
  BY <1>3 DEF PastInv, PurgePast, Ids
<1>4. CASE WriteEvent
  <2>1. /\ UNCHANGED purge
        /\ rows'[s] = rows[s] \/ rows'[s] = "stopped" \/ rows[s] = "none"
    BY <1>4 DEF WriteEvent, Recorded, TypeOK, StoreOK
  <2>2. rows[s] # "none"
    BY <2>1 DEF PastInv, PurgePast
  <2>3. QED
    BY <1>3, <2>1, <2>2
<1>5. CASE CloseOrphans
  BY <1>3, <1>5 DEF CloseOrphans
<1>6. CASE UNCHANGED <<purge, rows>>
  BY <1>3, <1>6
<1>7. QED
  BY <1>1, <1>2, <1>4, <1>5, <1>6
     DEF Next, Producer, Lifespan, KvTask, Handler, Retention, Requests, requests, vars,
         ProducerStart, ProducerStop, Tell, Boot, Serve, KvConnect, KvReply, TakeEvent,
         ReturnEvent, List, RenameRow, RenameCheck, RenamePut

\* Only PurgeDelete takes rows away.
LEMMA SparesStep ==
    TypeOK /\ PastInv /\ [Next]_vars =>
        \A s \in Ids : rows[s] # "none" /\ rows'[s] = "none" /\ s = running
                        => s \in purge.old /\ rows[s] # "open"
<1> SUFFICES ASSUME TypeOK, PastInv, [Next]_vars,
                    NEW s \in Ids, rows[s] # "none", rows'[s] = "none", s = running
             PROVE  s \in purge.old /\ rows[s] # "open"
  OBVIOUS
<1>1. PurgeDelete
  BY DEF Next, Producer, Lifespan, KvTask, Handler, Retention, Requests, vars, ProducerStart,
         ProducerStop, Tell, Boot, Subscribe, Serve, KvConnect, KvReply, Crash, TakeEvent,
         WriteEvent, ReturnEvent, List, CloseOrphans, RenameRow, RenameCheck, RenamePut,
         DailyPurge, PurgeSelect, Recorded, TypeOK, StoreOK
<1>2. s \in purge.ids \cup purge.old
  BY <1>1 DEF PurgeDelete, TypeOK, StoreOK
<1>3. rows[s] \in {"stopped", "interrupted"} /\ (s \in purge.ids => s < newest)
  BY <1>2 DEF PastInv, PurgePast
<1>4. s = newest /\ newest \in Nat
  BY DEF TypeOK, ProducerOK, Ids, NoId
<1>5. QED
  BY <1>2, <1>3, <1>4

\* Retention by count never deletes the row of the running session, whatever its row says and
\* however the selection and the deletion are spread over the session's life; retention by age
\* deletes it only when the row was closed, which of a running session only happens by mistake.
THEOREM RetentionByCount == Spec => CountSparesRunning
<1>1. Init => PastInv
  BY DEF Init, PastInv, ToldPast, RowsPast, PurgePast, Idle, NoPurge
<1>2. TypeOK /\ PastInv /\ [Next]_vars => PastInv'
  BY ToldPastStep, RowsPastStep, PurgePastStep DEF PastInv
<1>3. TypeOK /\ PastInv /\ [Next]_vars =>
          [\A s \in Ids : rows[s] # "none" /\ rows'[s] = "none" /\ s = running
                          => s \in purge.old /\ rows[s] # "open"]_vars
  BY SparesStep
<1>4. QED
  BY <1>1, <1>2, <1>3, TypeCorrect, PTL DEF Spec, CountSparesRunning
-----------------------------------------------------------------------------
(* The gateway follows the running session.                                  *)

\* The session that an event leaves active.
Target(ev) == IF ev[1] = "started" THEN ev[2] ELSE NoId

\* The producer tells of what it has just done.
TellingOK == telling # <<>> => /\ Target(telling) = running
                               /\ telling[1] = "started" \/ running = NoId
DownOK == stage = "down" => /\ events = <<>> /\ handler.at = "idle"
                            /\ active = NoId /\ kv.at = "done"

Drained   == telling = <<>> /\ events = <<>> /\ handler.at = "idle"
StopAhead == \/ telling # <<>> /\ telling[1] = "stopped"
             \/ \E i \in 1 .. Len(events) : events[i][1] = "stopped"
             \/ handler.at # "idle" /\ handler.ev[1] = "stopped"

\* When the gateway can know of every event, the last one on its way names the running session;
Known  == stage # "down" /\ ~missed
LastOK == Known /\ telling = <<>> /\ events # <<>> => Target(events[Len(events)]) = running
HandOK == Known /\ telling = <<>> /\ events = <<>> /\ handler.at # "idle"
          => Target(handler.ev) = running
\* with none on its way the active session is right, or the key has still to be read or answered;
BelievedOK == Known /\ Drained => \/ active = running
                                  \/ kv.at = "connect" /\ active = NoId
                                  \/ kv.at = "reply" /\ kv.read # NoId
\* and what was read of the key is right, or its session has a stop on its way.
ReadOK == Known /\ kv.at = "reply" /\ kv.read # NoId => kv.read = running \/ StopAhead

FollowInv == TellingOK /\ DownOK /\ LastOK /\ HandOK /\ BelievedOK /\ ReadOK

followed == <<running, telling, events, active, kv, handler, missed>>

LEMMA InitFollow == Init => FollowInv
  BY DEF Init, FollowInv, TellingOK, DownOK, LastOK, HandOK, BelievedOK, ReadOK, Known, Idle

\* Requests and retention have no part in it.
LEMMA FollowKept ==
    ASSUME FollowInv, UNCHANGED followed, stage' = "down" <=> stage = "down"
    PROVE  FollowInv'
  BY DEF followed, FollowInv, TellingOK, DownOK, LastOK, HandOK, BelievedOK, ReadOK, Known, Drained,
         StopAhead, Target

LEMMA FollowProducer ==
    ASSUME TypeOK, FollowInv, ProducerStart \/ ProducerStop
    PROVE  FollowInv'
<1>a. UNCHANGED <<events, stage, active, kv, handler, missed>>
  BY DEF ProducerStart, ProducerStop
<1>1. CASE ProducerStart
  <2>1. telling' = <<"started", running'>> /\ running = NoId /\ telling = <<>>
    BY <1>1 DEF ProducerStart
  <2>2. TellingOK' /\ DownOK' /\ LastOK' /\ HandOK' /\ BelievedOK'
    BY <2>1, <1>a DEF FollowInv, TellingOK, DownOK, LastOK, HandOK, BelievedOK, Known, Drained, Target
  <2>3. ReadOK'
    BY <2>1, <1>a DEF FollowInv, ReadOK, Known, StopAhead
  <2>4. QED
    BY <2>2, <2>3 DEF FollowInv
<1>2. CASE ProducerStop
  <2>1. telling'[1] = "stopped" /\ telling' # <<>> /\ running' = NoId
    BY <1>2 DEF ProducerStop
  <2>2. TellingOK' /\ DownOK' /\ LastOK' /\ HandOK' /\ BelievedOK'
    BY <2>1, <1>a DEF FollowInv, TellingOK, DownOK, LastOK, HandOK, BelievedOK, Known, Drained, Target
  <2>3. ReadOK'
    BY <2>1 DEF ReadOK, StopAhead
  <2>4. QED
    BY <2>2, <2>3 DEF FollowInv
<1>3. QED
  BY <1>1, <1>2

\* An event that reaches the subscription is the last one there.
LEMMA FollowTell ==
    ASSUME TypeOK, FollowInv, Tell
    PROVE  FollowInv'
<1>a. /\ telling # <<>> /\ telling' = <<>> /\ telling \in Told /\ events \in Seq(Told)
      /\ UNCHANGED <<running, stage, active, kv, handler>>
      /\ missed' \/ (Subscribed /\ missed' = missed /\ events' = Append(events, telling))
      /\ events' = events \/ stage # "down"
  BY DEF Tell, TypeOK, ProducerOK, EventsOK, Event, Subscribed
<1>1. TellingOK' /\ DownOK'
  BY <1>a DEF FollowInv, TellingOK, DownOK
<1>2. CASE missed'
  BY <1>1, <1>2 DEF FollowInv, LastOK, HandOK, BelievedOK, ReadOK, Known
<1>3. CASE missed' = missed /\ events' = Append(events, telling)
  <2>1. /\ Len(events') = Len(events) + 1 /\ events'[Len(events) + 1] = telling
        /\ \A i \in 1 .. Len(events) : events'[i] = events[i]
        /\ Len(events) \in Nat /\ events' # <<>>
    BY <1>a, <1>3
  <2>2. LastOK' /\ HandOK' /\ BelievedOK'
    BY <1>a, <2>1 DEF FollowInv, TellingOK, LastOK, HandOK, BelievedOK, Drained, Target
  <2>3. StopAhead => StopAhead'
    BY <1>a, <2>1 DEF StopAhead
  <2>4. ReadOK'
    BY <1>a, <1>3, <2>3 DEF FollowInv, ReadOK, Known
  <2>5. QED
    BY <1>1, <2>2, <2>4 DEF FollowInv
<1>4. QED
  BY <1>a, <1>2, <1>3

\* The start of the gateway.
LEMMA FollowKv ==
    ASSUME TypeOK, FollowInv, Boot \/ KvConnect \/ KvReply \/ Crash
    PROVE  FollowInv'
<1>a. /\ kv \in [at : {"connect", "reply", "done"}, read : Ids \cup {NoId}]
      /\ running \in Ids \cup {NoId} /\ handler.at # "idle" => handler.ev # <<>>
  BY DEF TypeOK, BeliefOK, ProducerOK, HandlerOK
<1> USE DEF producer
<1>1. CASE Boot
  <2>1. /\ stage = "down" /\ stage' # "down" /\ kv'.at = "connect"
        /\ UNCHANGED <<running, telling, events, active, handler>>
    BY <1>1 DEF Boot
  <2>2. QED
    BY <2>1 DEF FollowInv, TellingOK, DownOK, LastOK, HandOK, BelievedOK, ReadOK, Target
<1>2. CASE KvConnect
  <2>1. /\ kv.at = "connect" /\ kv' = [at |-> "reply", read |-> key.id] /\ stage # "down"
        /\ missed' = \/ key.id # running
                     \/ missed /\ (key.id = NoId \/ events # <<>> \/ handler.at # "idle")
        /\ UNCHANGED <<running, telling, events, stage, active, handler>>
    BY <1>2 DEF KvConnect
  <2>2. kv'.at = "reply" /\ kv'.read = key.id
    BY <2>1
  <2>3. TellingOK' /\ DownOK'
    BY <2>1 DEF FollowInv, TellingOK, DownOK, Target
  <2>4. LastOK' /\ HandOK'
    BY <2>1 DEF FollowInv, LastOK, HandOK, Known, Target
  <2>5. BelievedOK' /\ ReadOK'
    BY <2>1, <2>2 DEF FollowInv, BelievedOK, ReadOK, Known, Drained
  <2>6. QED
    BY <2>3, <2>4, <2>5 DEF FollowInv
<1>3. CASE KvReply
  <2>1. /\ kv.at = "reply" /\ kv'.at = "done"
        /\ \/ kv.read # NoId /\ active' = kv.read /\ missed' = missed
           \/ kv.read = NoId /\ UNCHANGED <<active, missed>>
           \/ missed' = TRUE /\ active' = active
        /\ UNCHANGED <<running, telling, events, stage, handler>>
    BY <1>3, <1>a DEF KvReply
  <2>2. TellingOK' /\ DownOK' /\ LastOK' /\ HandOK'
    BY <2>1 DEF FollowInv, TellingOK, DownOK, LastOK, HandOK, Known, Target
  <2>3. Drained => ~StopAhead
    BY DEF Drained, StopAhead
  <2>4. BelievedOK' /\ ReadOK'
    BY <2>1, <2>3 DEF FollowInv, BelievedOK, ReadOK, Known, Drained
  <2>5. QED
    BY <2>2, <2>4 DEF FollowInv
<1>4. CASE Crash
  <2>1. /\ stage' = "down" /\ UNCHANGED <<running, telling>> /\ events' = <<>> /\ active' = NoId
        /\ kv'.at = "done" /\ handler'.at = "idle"
    BY <1>4 DEF Crash, Idle
  <2>2. QED
    BY <2>1 DEF FollowInv, TellingOK, DownOK, LastOK, HandOK, BelievedOK, ReadOK, Known, Target
<1>5. QED
  BY <1>1, <1>2, <1>3, <1>4

\* The handler takes the events in order; the last one it returns from decides.
LEMMA FollowHandler ==
    ASSUME TypeOK, FollowInv, TakeEvent \/ WriteEvent \/ ReturnEvent
    PROVE  FollowInv'
<1>a. /\ UNCHANGED <<running, telling, stage, kv>> /\ events \in Seq(Told)
      /\ handler \in [at : {"idle", "write", "return"}, ev : Event]
      /\ handler.at # "idle" => handler.ev \in Told
      /\ \A e \in Told : e[1] \in {"started", "stopped"}
      /\ DownOK
  BY ToldSomething
     DEF TakeEvent, WriteEvent, ReturnEvent, producer, TypeOK, EventsOK, HandlerOK, Event, FollowInv
<1>b. TellingOK'
  BY <1>a DEF FollowInv, TellingOK
<1>1. CASE TakeEvent
  <2>1. /\ stage # "down" /\ handler.at = "idle" /\ events # <<>> /\ events' = Tail(events)
        /\ handler'.at = "write" /\ handler'.ev = Head(events) /\ UNCHANGED <<active, missed>>
    BY <1>1 DEF TakeEvent, Subscribed, observed
  <2>2. /\ Len(events) \in Nat /\ Len(events) > 0 /\ Head(events) = events[1]
        /\ Len(Tail(events)) = Len(events) - 1
        /\ \A i \in 1 .. Len(Tail(events)) : Tail(events)[i] = events[i + 1]
        /\ Tail(events) # <<>> => Len(events) > 1
        /\ Tail(events) = <<>> => Len(events) = 1
    <3>1. Len(events) \in Nat /\ Len(events) > 0 /\ Head(events) = events[1]
      BY <1>a, <2>1
    <3>2. /\ Tail(events) \in Seq(Told) /\ Len(Tail(events)) = Len(events) - 1
          /\ \A i \in 1 .. Len(Tail(events)) : Tail(events)[i] = events[i + 1]
      BY <1>a, <2>1
    <3>3. Tail(events) = <<>> <=> Len(Tail(events)) = 0
      BY <3>2, EmptySeq
    <3>4. QED
      BY <3>1, <3>2, <3>3
  <2>3. DownOK' /\ BelievedOK'
    BY <1>a, <2>1 DEF DownOK, BelievedOK, Drained
  <2>4. LastOK'
    BY <1>a, <2>1, <2>2 DEF FollowInv, LastOK, Known
  <2>5. HandOK'
    BY <1>a, <2>1, <2>2 DEF FollowInv, HandOK, LastOK, Known
  <2>6. ReadOK'
    <3>1. ASSUME NEW i \in 1 .. Len(events), events[i][1] = "stopped" PROVE StopAhead'
      <4>1. CASE i = 1
        BY <3>1, <4>1, <2>1, <2>2 DEF StopAhead
      <4>2. CASE i # 1
        <5>1. i - 1 \in 1 .. Len(Tail(events)) /\ Tail(events)[i - 1] = events[i]
          BY <2>2, <4>2
        <5>2. QED
          BY <3>1, <5>1, <2>1 DEF StopAhead
      <4>3. QED
        BY <4>1, <4>2
    <3>2. StopAhead => StopAhead'
      BY <3>1, <1>a, <2>1 DEF StopAhead
    <3>3. QED
      BY <1>a, <2>1, <3>2 DEF FollowInv, ReadOK, Known
  <2>7. QED
    BY <1>b, <2>3, <2>4, <2>5, <2>6 DEF FollowInv
<1>2. CASE WriteEvent
  <2>1. /\ handler.at = "write" /\ UNCHANGED <<events, active>>
        /\ \/ missed' = missed /\ handler'.at = "return" /\ handler'.ev = handler.ev
           \/ missed' /\ handler'.at = "idle"
    BY <1>2, <1>a DEF WriteEvent, Idle
  <2>2. DownOK' /\ LastOK' /\ HandOK' /\ BelievedOK'
    BY <1>a, <2>1 DEF FollowInv, DownOK, LastOK, HandOK, BelievedOK, Known, Drained, Target
  <2>3. missed' = missed => (StopAhead => StopAhead') \/ missed'
    BY <1>a, <2>1 DEF StopAhead
  <2>4. ReadOK'
    BY <1>a, <2>1, <2>3 DEF FollowInv, ReadOK, Known
  <2>5. QED
    BY <1>b, <2>2, <2>4 DEF FollowInv
<1>3. CASE ReturnEvent
  <2>1. /\ handler.at = "return" /\ handler'.at = "idle" /\ events' = events
        /\ active' = Target(handler.ev)
        /\ missed' = (missed \/ (kv.at = "reply" /\ handler.ev[1] = "stopped"))
    BY <1>3 DEF ReturnEvent, Idle, Target
  <2>2. DownOK' /\ LastOK' /\ HandOK'
    BY <1>a, <2>1 DEF FollowInv, DownOK, LastOK, HandOK, Known, Target
  <2>3. BelievedOK'
    BY <1>a, <2>1 DEF FollowInv, HandOK, BelievedOK, Known, Drained
  <2>4. ReadOK'
    <3>1. kv.at = "reply" /\ ~missed' /\ StopAhead => StopAhead'
      BY <1>a, <2>1 DEF StopAhead
    <3>2. QED
      BY <1>a, <2>1, <3>1 DEF FollowInv, ReadOK, Known
  <2>5. QED
    BY <1>b, <2>2, <2>3, <2>4 DEF FollowInv
<1>4. QED
  BY <1>1, <1>2, <1>3

LEMMA FollowStep == TypeOK /\ FollowInv /\ [Next]_vars => FollowInv'
<1> SUFFICES ASSUME TypeOK, FollowInv, [Next]_vars PROVE FollowInv'
  OBVIOUS
<1>1. CASE ProducerStart \/ ProducerStop \/ Tell
  BY <1>1, FollowProducer, FollowTell
<1>2. CASE Boot \/ KvConnect \/ KvReply \/ Crash
  BY <1>2, FollowKv
<1>3. CASE Handler
  BY <1>3, FollowHandler DEF Handler
<1>4. CASE Subscribe \/ Serve \/ Retention \/ Requests \/ UNCHANGED vars
  <2>1. UNCHANGED followed /\ (stage' = "down" <=> stage = "down")
    BY <1>4 DEF followed, Subscribe, Serve, Retention, Requests, vars, producer, observed, List,
                CloseOrphans, RenameRow, RenameCheck, RenamePut, DailyPurge, PurgeSelect, PurgeDelete
  <2>2. QED
    BY <2>1, FollowKept
<1>5. QED
  BY <1>1, <1>2, <1>3, <1>4 DEF Next, Producer, Lifespan, KvTask

\* With no event on its way the gateway believes active the session that runs, whatever the order of
\* its start, the read of the key and the events, unless it could not know of one.
THEOREM ActiveFollows == Spec => []ActiveAgrees
<1>1. FollowInv => ActiveAgrees
  BY DEF FollowInv, BelievedOK, ActiveAgrees, Settled, Known, Drained, Subscribed
<1>2. QED
  BY <1>1, InitFollow, FollowStep, TypeCorrect, PTL DEF Spec
-----------------------------------------------------------------------------
(* The rows of the sessions that have ended.                                 *)

\* Session s runs, or its stop is yet to come: from the producer, or after the first i events.
Over(s, i) == \/ s = running \/ telling = <<"stopped", s>>
              \/ \E j \in i + 1 .. Len(events) : events[j] = <<"stopped", s>>

UnheardOK == ~Subscribed => /\ events = <<>> /\ handler.at = "idle"
                            /\ \A s \in Ids : rows[s] = "none"
\* Every row that is not closed by a stop waits for one, and every start is followed by its stop.
RowsEnd   == \A s \in Ids : rows[s] \in {"open", "interrupted"} =>
                 Over(s, 0) \/ (handler.at = "write" /\ handler.ev = <<"stopped", s>>)
EventsEnd == \A s \in Ids : \A i \in 1 .. Len(events) : events[i] = <<"started", s>> => Over(s, i)
HandEnds  == \A s \in Ids : handler.at = "write" /\ handler.ev = <<"started", s>> => Over(s, 0)
TellEnds  == \A s \in Ids : telling = <<"started", s>> => s = running

Ending  == UnheardOK /\ RowsEnd /\ EventsEnd /\ HandEnds /\ TellEnds
RowsInv == faults = 0 => Ending

LEMMA InitRows == Init => RowsInv
  BY DEF Init, RowsInv, Ending, UnheardOK, RowsEnd, EventsEnd, HandEnds, TellEnds, Idle

\* A step without a fault, after none.
NoFault == faults = 0 /\ ~Fault

LEMMA FaultsCount ==
    ASSUME TypeOK, [Next]_vars, faults' = 0
    PROVE  NoFault
<1>a. faults \in Nat
  BY LimitsAssumption DEF TypeOK, StoreOK
<1>1. faults' = faults \/ faults' = faults + 1
  BY DEF Next, Producer, Lifespan, KvTask, Handler, Retention, Requests, vars, Fault,
         ProducerStart, ProducerStop, Tell, Boot, Subscribe, Serve, KvConnect, KvReply, Crash,
         TakeEvent, WriteEvent, ReturnEvent, List, CloseOrphans, RenameRow, RenameCheck,
         RenamePut, DailyPurge, PurgeSelect, PurgeDelete
<1>2. QED
  BY <1>a, <1>1 DEF NoFault, Fault

LEMMA EndingProducer ==
    ASSUME TypeOK, Ending, NoFault, ProducerStart \/ ProducerStop
    PROVE  Ending'
<1>a. telling = <<>> /\ UNCHANGED <<events, stage, handler, rows>>
  BY DEF ProducerStart, ProducerStop
<1>b. \/ running = NoId /\ telling' = <<"started", running'>>
      \/ telling' = <<"stopped", running>>
  BY DEF ProducerStart, ProducerStop
<1>1. ASSUME NEW s \in Ids, NEW i \in Nat, Over(s, i) PROVE Over(s, i)'
  BY <1>a, <1>b, <1>1 DEF Over, Ids, NoId
<1>2. UnheardOK' /\ TellEnds'
  BY <1>a, <1>b DEF Ending, UnheardOK, TellEnds, Subscribed
<1>3. RowsEnd' /\ HandEnds'
  BY <1>a, <1>1 DEF Ending, RowsEnd, HandEnds
<1>4. EventsEnd'
  BY <1>a, <1>1 DEF Ending, EventsEnd
<1>5. QED
  BY <1>2, <1>3, <1>4 DEF Ending

LEMMA EndingTell ==
    ASSUME TypeOK, Ending, NoFault, Tell
    PROVE  Ending'
<1>a. /\ telling' = <<>> /\ telling \in Told /\ events \in Seq(Told)
      /\ UNCHANGED <<running, stage, handler, rows>>
      /\ \/ Subscribed /\ events' = Append(events, telling)
         \/ ~Subscribed /\ events' = events
  BY DEF Tell, TypeOK, ProducerOK, EventsOK, Event, Subscribed, NoFault
<1>1. CASE Subscribed /\ events' = Append(events, telling)
  <2>1. /\ Len(events') = Len(events) + 1 /\ events'[Len(events) + 1] = telling
        /\ \A i \in 1 .. Len(events) : events'[i] = events[i]
        /\ Len(events) \in Nat
    BY <1>a, <1>1
  <2>2. ASSUME NEW s \in Ids, NEW i \in 0 .. Len(events), Over(s, i) PROVE Over(s, i)'
    <3>1. CASE s = running
      BY <3>1, <1>a DEF Over
    <3>2. CASE telling = <<"stopped", s>>
      <4>1. Len(events) + 1 \in i + 1 .. Len(events')
        BY <2>1
      <4>2. QED
        BY <3>2, <2>1, <4>1 DEF Over
    <3>3. CASE \E j \in i + 1 .. Len(events) : events[j] = <<"stopped", s>>
      <4>1. PICK j \in i + 1 .. Len(events) : events[j] = <<"stopped", s>>
        BY <3>3
      <4>2. j \in i + 1 .. Len(events') /\ events'[j] = events[j]
        BY <2>1
      <4>3. QED
        BY <4>1, <4>2 DEF Over
    <3>4. QED
      BY <2>2, <3>1, <3>2, <3>3 DEF Over
  <2>3. UnheardOK' /\ TellEnds'
    BY <1>a, <1>1 DEF UnheardOK, TellEnds, Subscribed
  <2>4. RowsEnd' /\ HandEnds'
    BY <1>a, <2>1, <2>2 DEF Ending, RowsEnd, HandEnds
  <2>5. EventsEnd'
    <3> SUFFICES ASSUME NEW s \in Ids, NEW i \in 1 .. Len(events'), events'[i] = <<"started", s>>
                 PROVE  Over(s, i)'
      BY DEF EventsEnd
    <3>1. CASE i = Len(events) + 1
      BY <3>1, <1>a, <2>1 DEF Ending, TellEnds, Over
    <3>2. CASE i # Len(events) + 1
      <4>1. i \in 1 .. Len(events) /\ events[i] = <<"started", s>>
        BY <2>1, <3>2
      <4>2. Over(s, i) /\ i \in 0 .. Len(events)
        BY <2>1, <4>1 DEF Ending, EventsEnd
      <4>3. QED
        BY <2>2, <4>2
    <3>3. QED
      BY <3>1, <3>2
  <2>6. QED
    BY <2>3, <2>4, <2>5 DEF Ending
<1>2. CASE ~Subscribed /\ events' = events
  BY <1>2, <1>a DEF Ending, UnheardOK, RowsEnd, EventsEnd, HandEnds, TellEnds, Subscribed
<1>3. QED
  BY <1>a, <1>1, <1>2

LEMMA EndingTake ==
    ASSUME TypeOK, Ending, TakeEvent
    PROVE  Ending'
<1>a. /\ handler.at = "idle" /\ events # <<>> /\ events' = Tail(events) /\ events \in Seq(Told)
      /\ handler'.at = "write" /\ handler'.ev = Head(events) /\ Subscribed
      /\ UNCHANGED <<running, telling, stage, rows>>
  BY DEF TakeEvent, TypeOK, EventsOK, producer
<1>b. /\ Len(events) \in Nat /\ Len(events) > 0 /\ Head(events) = events[1]
  BY <1>a
<1>c. /\ Len(events') = Len(events) - 1
      /\ \A i \in 1 .. Len(events') : events'[i] = events[i + 1]
  BY <1>a
<1>1. ASSUME NEW s \in Ids, NEW i \in Nat, Over(s, i + 1) PROVE Over(s, i)'
  <2>1. CASE s = running \/ telling = <<"stopped", s>>
    BY <2>1, <1>a DEF Over
  <2>2. CASE \E j \in i + 2 .. Len(events) : events[j] = <<"stopped", s>>
    <3>1. PICK j \in i + 2 .. Len(events) : events[j] = <<"stopped", s>>
      BY <2>2
    <3>2. j - 1 \in i + 1 .. Len(events') /\ events'[j - 1] = events[j]
      BY <1>b, <1>c, <3>1
    <3>3. QED
      BY <3>1, <3>2 DEF Over
  <2>3. QED
    BY <1>1, <2>1, <2>2 DEF Over
<1>2. UnheardOK' /\ TellEnds'
  BY <1>a DEF Ending, UnheardOK, TellEnds, Subscribed
<1>3. RowsEnd'
  <2> SUFFICES ASSUME NEW s \in Ids, rows[s] \in {"open", "interrupted"}, events[1] # <<"stopped", s>>
               PROVE  Over(s, 0)'
    BY <1>a, <1>b DEF RowsEnd
  <2>1. Over(s, 0)
    BY <1>a DEF Ending, RowsEnd
  <2>2. Over(s, 1)
    BY <1>b, <2>1 DEF Over
  <2>3. QED
    BY <1>1, <2>2
<1>4. EventsEnd'
  <2> SUFFICES ASSUME NEW s \in Ids, NEW i \in 1 .. Len(events'), events'[i] = <<"started", s>>
               PROVE  Over(s, i)'
    BY DEF EventsEnd
  <2>1. events[i + 1] = <<"started", s>> /\ i + 1 \in 1 .. Len(events) /\ i \in Nat
    BY <1>b, <1>c
  <2>2. Over(s, i + 1)
    BY <2>1 DEF Ending, EventsEnd
  <2>3. QED
    BY <1>1, <2>1, <2>2
<1>5. HandEnds'
  <2> SUFFICES ASSUME NEW s \in Ids, events[1] = <<"started", s>> PROVE Over(s, 0)'
    BY <1>a, <1>b DEF HandEnds
  <2>1. Over(s, 0 + 1)
    BY <1>b DEF Ending, EventsEnd
  <2>2. QED
    BY <1>1, <2>1
<1>6. QED
  BY <1>2, <1>3, <1>4, <1>5 DEF Ending

\* The other steps leave what is on its way alone.
LEMMA OverKept ==
    ASSUME UNCHANGED <<running, telling, events>>
    PROVE  \A s \in Ids, i \in Nat : Over(s, i)' <=> Over(s, i)
  BY DEF Over

LEMMA EndingHandler ==
    ASSUME TypeOK, Ending, NoFault, WriteEvent \/ ReturnEvent
    PROVE  Ending'
<1>a. /\ UNCHANGED <<running, telling, events, stage>> /\ handler.at # "idle"
      /\ handler \in [at : {"idle", "write", "return"}, ev : Event] /\ handler.ev \in Told
      /\ rows \in [Ids -> {"none", "open", "stopped", "interrupted"}]
  BY DEF WriteEvent, ReturnEvent, producer, TypeOK, HandlerOK, Event, StoreOK
<1>b. Subscribed /\ handler'.at # "write" /\ TellEnds'
  BY <1>a DEF Ending, UnheardOK, WriteEvent, ReturnEvent, Idle, TellEnds
<1>1. EventsEnd' /\ UnheardOK' /\ HandEnds'
  BY <1>a, <1>b, OverKept DEF Ending, EventsEnd, UnheardOK, HandEnds, Subscribed
<1>2. CASE WriteEvent
  <2>1. rows' = Recorded(handler.ev[1], handler.ev[2]) /\ handler.at = "write"
    BY <1>2 DEF WriteEvent, NoFault
  <2>2. ASSUME NEW s \in Ids, rows'[s] \in {"open", "interrupted"} PROVE Over(s, 0)
    <3>1. CASE s # handler.ev[2]
      <4>1. rows'[s] = rows[s] /\ handler.ev # <<"stopped", s>>
        BY <1>a, <2>1, <3>1 DEF Recorded
      <4>2. QED
        BY <2>2, <4>1 DEF Ending, RowsEnd
    <3>2. CASE s = handler.ev[2] /\ handler.ev[1] = "started"
      <4>1. handler.ev = <<"started", s>>
        BY <1>a, <3>2 DEF Told
      <4>2. QED
        BY <2>1, <4>1 DEF Ending, HandEnds
    <3>3. CASE s = handler.ev[2] /\ handler.ev[1] # "started"
      <4>1. handler.ev[1] = "stopped"
        BY <1>a, <3>3 DEF Told
      <4>2. rows'[s] = IF rows[s] # "none" THEN "stopped" ELSE rows[s]
        BY <1>a, <2>1, <3>3, <4>1 DEF Recorded
      <4>3. QED
        BY <2>2, <4>2
    <3>4. QED
      BY <3>1, <3>2, <3>3
  <2>3. RowsEnd'
    BY <1>a, <2>2, OverKept DEF RowsEnd
  <2>4. QED
    BY <1>b, <1>1, <2>3 DEF Ending
<1>3. CASE ReturnEvent
  <2>1. rows' = rows /\ handler.at = "return"
    BY <1>3 DEF ReturnEvent
  <2>2. RowsEnd'
    BY <1>a, <2>1, OverKept DEF Ending, RowsEnd
  <2>3. QED
    BY <1>b, <1>1, <2>2 DEF Ending
<1>4. QED
  BY <1>2, <1>3

\* Requests and retention close a row or take it away.
LEMMA EndingKept ==
    ASSUME TypeOK, Ending, UNCHANGED <<running, telling, events, handler>>, Subscribed => Subscribed',
           \A s \in Ids : \/ rows'[s] = rows[s] \/ rows'[s] = "none"
                          \/ rows[s] = "open" /\ rows'[s] = "interrupted"
    PROVE  Ending'
<1>1. RowsEnd' /\ EventsEnd' /\ HandEnds' /\ TellEnds'
  BY OverKept DEF Ending, RowsEnd, EventsEnd, HandEnds, TellEnds
<1>2. UnheardOK'
  BY DEF Ending, UnheardOK
<1>3. QED
  BY <1>1, <1>2 DEF Ending

LEMMA RowsStep == TypeOK /\ RowsInv /\ [Next]_vars => RowsInv'
<1> SUFFICES ASSUME TypeOK, RowsInv, [Next]_vars, faults' = 0 PROVE Ending'
  BY DEF RowsInv
<1>a. NoFault /\ Ending
  BY FaultsCount DEF RowsInv, NoFault
<1>1. CASE Producer
  BY <1>a, <1>1, EndingProducer, EndingTell DEF Producer
<1>2. CASE Handler
  BY <1>a, <1>2, EndingTake, EndingHandler DEF Handler
<1>3. ~Crash
  BY <1>a DEF Crash, NoFault
<1>4. CASE CloseOrphans \/ PurgeDelete
  <2>1. UNCHANGED <<running, telling, events, handler, stage>>
    BY <1>4 DEF CloseOrphans, PurgeDelete, producer
  <2>2. \A s \in Ids : \/ rows'[s] = rows[s] \/ rows'[s] = "none"
                       \/ rows[s] = "open" /\ rows'[s] = "interrupted"
    BY <1>4 DEF CloseOrphans, PurgeDelete
  <2>3. QED
    BY <1>a, <2>1, <2>2, EndingKept DEF Subscribed
<1>5. CASE Boot \/ Lifespan \/ KvTask \/ UNCHANGED vars
  <2>1. UNCHANGED <<running, telling, events, handler, rows>> /\ (Subscribed => Subscribed')
    BY <1>5 DEF Boot, Lifespan, Subscribe, Serve, KvTask, KvConnect, KvReply, vars, producer,
                Subscribed
  <2>2. QED
    BY <1>a, <2>1, EndingKept
<1>6. CASE List \/ (\E s \in Ids : RenameRow(s)) \/ RenameCheck \/ RenamePut \/ DailyPurge \/ PurgeSelect
  <2>1. UNCHANGED <<running, telling, events, handler, rows, stage>>
    BY <1>6 DEF List, RenameRow, RenameCheck, RenamePut, DailyPurge, PurgeSelect, producer
  <2>2. QED
    BY <1>a, <2>1, EndingKept DEF Subscribed
<1>7. QED
  BY <1>1, <1>2, <1>3, <1>4, <1>5, <1>6 DEF Next, Requests, Retention

\* Without a fault every session that has ended has a row with its end, or none: what list_sessions
\* closes too early is closed again by the stop, and no start is recorded after its own stop.
THEOREM RowsClosed == Spec => []RowsAgree
<1>1. TypeOK /\ RowsInv => RowsAgree
  <2> SUFFICES ASSUME TypeOK, RowsInv, Settled, faults = 0, NEW s \in 1 .. newest, s # running
               PROVE  rows[s] \in {"none", "stopped"}
    BY DEF RowsAgree
  <2>1. s \in Ids
    BY LimitsAssumption DEF TypeOK, ProducerOK, Ids, NoId
  <2>2. ~Over(s, 0) /\ handler.at = "idle"
    BY DEF Settled, Over
  <2>3. rows[s] \notin {"open", "interrupted"}
    BY <2>1, <2>2 DEF RowsInv, Ending, RowsEnd
  <2>4. QED
    BY <2>1, <2>3 DEF TypeOK, StoreOK
<1>2. QED
  BY <1>1, InitRows, RowsStep, TypeCorrect, PTL DEF Spec
=============================================================================
