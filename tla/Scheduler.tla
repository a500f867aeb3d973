------------------------------ MODULE Scheduler ------------------------------
(***************************************************************************)
(* Scheduled sessions: the system-manager (services/system-manager) looks  *)
(* at the schedules of the api-gateway every half minute and publishes     *)
(* session.control commands for those that are due.  People use the same   *)
(* stream, through the gateway's /session/start and /session/stop, and     *)
(* change the schedules meanwhile.  The stream keeps one command; the      *)
(* audio-producer obeys it.                                                *)
(*                                                                         *)
(* Time is a count of minutes; a day has DAY of them.  An action is what   *)
(* lies between two awaits.                                                *)
(***************************************************************************)
EXTENDS Integers, Functions

CONSTANTS
    Ids,        \* schedule ids, in the order of the rows
    Plans,      \* rows: [days, start, stop, policy, enabled]
    DAY,        \* minutes of a day
    MaxClock,   \* bound: the minute at which time ends
    MaxWishes,  \* bound: edits of the table, requests of people, silences
    MaxFaults   \* bound: failing calls, crashes, commands that nobody reads

Minutes == 0 .. DAY - 1
Days    == 0 .. MaxClock \div DAY
Policies == {"soft", "hard", "grace"}

ASSUME ScheduleAssumption ==
    /\ Ids \subseteq Nat
    /\ DAY \in Nat \ {0} /\ {MaxClock, MaxWishes, MaxFaults} \subseteq Nat
    /\ Plans \subseteq [days : SUBSET Days, start : Minutes, stop : Minutes,
                        policy : Policies, enabled : BOOLEAN]

Nothing == "nothing"
Tables == UNION {[ids -> Plans] : ids \in SUBSET Ids}
Kinds  == {"start", "stop"}
Keys   == Kinds \X Ids \X Days
Fires  == [kind : Kinds, id : Ids, due : 0 .. MaxClock]   \* commands, and their minutes

VARIABLES
    clock,
    table,     \* the schedules table: a function from some ids to plans
    sm,        \* the loop: [at : "down", "sleep", "fetch", "publish" or "reply",
               \* now : when its round began, todo : the commands it has still to fire]
    fired,     \* _last_fired
    checked,   \* a round began in this minute
    control,   \* the command in SESSION_STREAM that was not read, or Nothing
    running,   \* the audio-producer has a session, as the key "current" tells
    starters,  \* people whose start has passed the check for a running session
    wishes, faults,
    \* observers
    attempts,  \* key -> how often its command was published or failed to be
    refused,   \* the keys whose publish failed
    touched,   \* ids whose row was changed
    misses,    \* rounds that failed, and minutes in which none began
    crashes

people == <<running, starters>>
vars == <<clock, table, sm, fired, checked, control, people, wishes, faults,
          attempts, refused, touched, misses, crashes>>

Wish  == wishes < MaxWishes /\ wishes' = wishes + 1
Fault == faults < MaxFaults /\ faults' = faults + 1
Calm  == wishes = 0 /\ faults = 0
DayOf(t)    == t \div DAY
MinuteOf(t) == t % DAY
Asleep == [at |-> "sleep", now |-> 0, todo |-> {}]
-----------------------------------------------------------------------------
(* The schedules of the api-gateway.                                       *)

With(id, p) == [i \in DOMAIN table \cup {id} |-> IF i = id THEN p ELSE table[i]]

\* create_schedule, update_schedule and delete_schedule; an id is never used again.
Edit(id) ==
    /\ Wish
    /\ id \in DOMAIN table \/ id \notin touched
    /\ \/ \E p \in Plans : table' = With(id, p) /\ table' # table
       \/ id \in DOMAIN table /\ table' = Restrict(table, DOMAIN table \ {id})
    /\ touched' = touched \cup {id}
    /\ UNCHANGED <<clock, sm, fired, checked, control, people, faults, attempts,
                   refused, misses, crashes>>
-----------------------------------------------------------------------------
(* The loop of the system-manager.                                         *)

Boot ==
    /\ sm.at = "down"
    /\ sm' = Asleep
    /\ UNCHANGED <<clock, table, fired, checked, control, people, wishes, faults,
                   attempts, refused, touched, misses, crashes>>

\* The process ends, and with it what it had fired.
Crash ==
    /\ sm.at # "down" /\ Fault
    /\ sm' = [Asleep EXCEPT !.at = "down"]
    /\ fired' = {}
    /\ crashes' = crashes + 1
    /\ UNCHANGED <<clock, table, checked, control, people, wishes, attempts,
                   refused, touched, misses>>

\* _check_schedules reads the time, then asks for the schedules.
Check ==
    /\ sm.at = "sleep"
    /\ sm' = [at |-> "fetch", now |-> clock, todo |-> {}]
    /\ checked' = TRUE
    /\ UNCHANGED <<clock, table, fired, control, people, wishes, faults, attempts,
                   refused, touched, misses, crashes>>

\* Mutant: the window is one minute wide.
OneMinute(now, target) == MinuteOf(now) = target

\* _within_window: two minutes, which end with the day.
WithinWindow(now, target) == MinuteOf(now) - target \in 0 .. 1

Today(now)   == DayOf(now) * DAY
At(id, kind) == IF kind = "start" THEN table[id].start ELSE table[id].stop
Soft(id, kind) == kind = "stop" /\ table[id].policy = "soft"

\* _eval_schedule: a command of a row is due, and was not fired today.
IsDue(id, kind, now) ==
    /\ table[id].enabled /\ DayOf(now) \in table[id].days
    /\ WithinWindow(now, At(id, kind)) /\ <<kind, id, DayOf(now)>> \notin fired

\* What the rows have to fire; a soft stop is only noted.
Due(now) ==
    {[kind |-> r[1], id |-> r[2], due |-> Today(now) + At(r[2], r[1])] :
        r \in {r \in Kinds \X DOMAIN table : ~Soft(r[2], r[1]) /\ IsDue(r[2], r[1], now)}}

Noted(now) ==
    {<<r[1], r[2], DayOf(now)>> :
        r \in {r \in Kinds \X DOMAIN table : Soft(r[2], r[1]) /\ IsDue(r[2], r[1], now)}}

\* Mutant: nothing that was fired is kept.
PruneAll(keys, now) == {}

\* Only the keys of the day of the round are kept.
Pruned(keys, now) == {k \in keys : k[3] = DayOf(now)}

\* The list arrives, or the round is over.
Fetched ==
    /\ sm.at = "fetch"
    /\ \/ /\ LET all == fired \cup Noted(sm.now)
             IN  IF Due(sm.now) = {} THEN sm' = Asleep /\ fired' = Pruned(all, sm.now)
                 ELSE sm' = [sm EXCEPT !.at = "publish", !.todo = Due(sm.now)] /\ fired' = all
          /\ UNCHANGED <<faults, misses>>
       \/ Fault /\ misses' = misses + 1 /\ sm' = Asleep /\ UNCHANGED fired
    /\ UNCHANGED <<clock, table, checked, control, people, wishes, attempts,
                   refused, touched, crashes>>

KeyOf(fire) == <<fire.kind, fire.id, DayOf(fire.due)>>

\* Mutant: of a row the stop comes first.
StopFirst(f, g) == f.id < g.id \/ (f.id = g.id /\ (f.kind = "stop" \/ g.kind = "start"))

\* Row after row, and its start before its stop.
Before(f, g) == f.id < g.id \/ (f.id = g.id /\ (f.kind = "start" \/ g.kind = "stop"))
First == CHOOSE f \in sm.todo : \A g \in sm.todo : Before(f, g)

\* Mutant: _fire_stop is a copy of _fire_start.
Copied(fire) == "start"

\* _fire_start and _fire_stop.
CommandOf(fire) == fire.kind

\* The command reaches the stream, where it replaces one that was not read, or not.
Publish ==
    /\ sm.at = "publish"
    /\ sm' = [sm EXCEPT !.at = "reply"]
    /\ attempts' = [attempts EXCEPT ![KeyOf(First)] = @ + 1]
    /\ \/ control' = CommandOf(First) /\ UNCHANGED <<faults, refused>>
       \/ Fault /\ refused' = refused \cup {KeyOf(First)} /\ UNCHANGED control
    /\ UNCHANGED <<clock, table, fired, checked, people, wishes, touched, misses,
                   crashes>>

\* Either way it counts as fired, and the next one is due.
Published ==
    /\ sm.at = "reply"
    /\ LET all == fired \cup {KeyOf(First)}
       IN  IF sm.todo = {First} THEN sm' = Asleep /\ fired' = Pruned(all, sm.now)
           ELSE sm' = [sm EXCEPT !.at = "publish", !.todo = @ \ {First}] /\ fired' = all
    /\ UNCHANGED <<clock, table, checked, control, people, wishes, faults,
                   attempts, refused, touched, misses, crashes>>
-----------------------------------------------------------------------------
(* People, the audio-producer, and time.                                   *)

\* session_start answers 409 when the key names a session, and else publishes.
AskStart ==
    /\ ~running /\ Wish
    /\ starters' = starters + 1
    /\ UNCHANGED <<clock, table, sm, fired, checked, control, running, faults,
                   attempts, refused, touched, misses, crashes>>

PublishStart ==
    /\ starters > 0
    /\ starters' = starters - 1
    /\ control' = "start"
    /\ UNCHANGED <<clock, table, sm, fired, checked, running, wishes, faults,
                   attempts, refused, touched, misses, crashes>>

\* session_stop publishes at once.
AskStop ==
    /\ Wish
    /\ control' = "stop"
    /\ UNCHANGED <<clock, table, sm, fired, checked, people, faults, attempts,
                   refused, touched, misses, crashes>>

\* The audio-producer reads the command; a start while a session runs, and a stop
\* while none does, are ignored.
Obey ==
    /\ control # Nothing
    /\ running' = (control = "start")
    /\ control' = Nothing
    /\ UNCHANGED <<clock, table, sm, fired, checked, starters, wishes, faults,
                   attempts, refused, touched, misses, crashes>>

\* Silence stops a session.
Silence ==
    /\ running /\ Wish
    /\ running' = FALSE
    /\ UNCHANGED <<clock, table, sm, fired, checked, control, starters, faults,
                   attempts, refused, touched, misses, crashes>>

\* A minute passes: in most a round begins, and the command is read.  It may be that
\* none begins, as the last one still waits for an answer: 5 s for the list, 5 s for
\* each publish, for each stream of a report, and Docker calls that block the process.
\* And the stream may drop the command before it is read.
Tick ==
    /\ clock < MaxClock
    /\ clock' = clock + 1
    /\ checked' = FALSE
    /\ control' = Nothing
    /\ LET late == IF checked \/ sm.at = "down" THEN 0 ELSE 1
           lost == IF control = Nothing THEN 0 ELSE 1
       IN  /\ faults + late + lost <= MaxFaults /\ faults' = faults + late + lost
           /\ misses' = misses + late
    /\ UNCHANGED <<table, sm, fired, people, wishes, attempts, refused, touched,
                   crashes>>
-----------------------------------------------------------------------------
Init ==
    /\ clock = 0
    /\ table \in Tables
    /\ sm = Asleep /\ fired = {} /\ checked = FALSE
    /\ control = Nothing /\ running = FALSE /\ starters = 0
    /\ wishes = 0 /\ faults = 0
    /\ attempts = [k \in Keys |-> 0] /\ refused = {}
    /\ touched = {} /\ misses = 0 /\ crashes = 0

Loop   == Boot \/ Check \/ Fetched \/ Publish \/ Published
People == AskStart \/ PublishStart \/ AskStop \/ \E id \in Ids : Edit(id)

Next == Loop \/ Crash \/ People \/ Obey \/ Silence \/ Tick

Spec == Init /\ [][Next]_vars
-----------------------------------------------------------------------------
\* Every variable has its type; only a loop that is firing has something to fire.
TypeOK ==
    /\ clock \in 0 .. MaxClock /\ table \in Tables
    /\ sm.at \in {"down", "sleep", "fetch", "publish", "reply"} /\ sm.now \in 0 .. clock
    /\ sm.todo \subseteq Fires /\ (sm.at \in {"publish", "reply"} <=> sm.todo # {})
    /\ fired \subseteq Keys
    /\ {checked, running} \subseteq BOOLEAN /\ {crashes, misses} \subseteq 0 .. MaxFaults
    /\ control \in {Nothing, "start", "stop"}
    /\ starters \in Nat /\ wishes \in 0 .. MaxWishes /\ faults \in 0 .. MaxFaults
    /\ attempts \in [Keys -> Nat] /\ refused \subseteq Keys /\ touched \subseteq Ids

\* The command of a schedule is fired once a day, whatever rounds overlap with its
\* window, and again only after a crash in between.
OncePerDay == \A k \in Keys : attempts[k] <= 1 + crashes

\* The minute of a day's command.
Target(id, kind, day) == day * DAY + At(id, kind)

\* One round that fails, or takes so long that a minute has none, does not cost a
\* scheduled command: its window takes in a second minute, unless the day ends there.
\* Nor does the failing publish of another command; its own does, as it counts as fired.
DueFired ==
    \A id \in DOMAIN table, kind \in Kinds, day \in Days :
        /\ id \notin touched /\ crashes = 0
        /\ table[id].enabled /\ day \in table[id].days
        /\ ~Soft(id, kind) /\ <<kind, id, day>> \notin refused
        /\ clock > Target(id, kind, day) + 2
        /\ misses <= (IF At(id, kind) = DAY - 1 THEN 0 ELSE 1)
        => attempts[<<kind, id, day>>] > 0

\* The start of a row is not published after its stop, by which the session would go on:
\* also when their windows overlap, a round was missed or one takes several minutes.
StartsComeFirst ==
    [][\A id \in DOMAIN table, day \in Days :
        /\ id \notin touched /\ crashes = 0 /\ table[id].start < table[id].stop
        /\ attempts'[<<"start", id, day>>] # attempts[<<"start", id, day>>]
        => attempts[<<"stop", id, day>>] = 0]_vars

\* A command of another row is due from two minutes before minute t until now.
Crossing(id, t) ==
    \E other \in DOMAIN table \ {id}, day \in Days, kind \in Kinds :
        /\ table[other].enabled /\ day \in table[other].days
        /\ Target(other, kind, day) \in t - 2 .. clock

\* Left alone, a hard schedule has its session between its start and its stop, and none
\* after it, unless a command of another schedule is due from two minutes before until
\* now: one that comes within two minutes may be overwritten in the stream, or overwrite,
\* and a later one is another session's start or stop.
SessionFollowsPlan ==
    \A id \in DOMAIN table, day \in Days :
        /\ Calm /\ table[id].enabled /\ day \in table[id].days
        /\ table[id].policy = "hard" /\ table[id].start + 2 < table[id].stop
        => LET start == Target(id, "start", day)
               stop  == Target(id, "stop", day)
           IN  /\ clock \in start + 3 .. stop - 1 /\ ~Crossing(id, start) => running
               /\ clock >= stop + 3 /\ DayOf(clock) = day /\ ~Crossing(id, stop) => ~running
=============================================================================
