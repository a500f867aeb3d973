--------------------------- MODULE Scheduler_proofs ---------------------------
(***************************************************************************)
(* Proofs about Scheduler, for any schedules, any length of the day and    *)
(* any edits, requests and faults: when a command is fired, how often, and *)
(* what session comes of it.                                               *)
(***************************************************************************)
EXTENDS Scheduler, WellFoundedInduction, TLAPS

(* Time.                                                                     *)

LEMMA Division ==
    ASSUME NEW t \in Nat
    PROVE  /\ DayOf(t) \in Nat /\ MinuteOf(t) \in Minutes /\ t = Today(t) + MinuteOf(t)
           /\ Today(t) \in Nat
<1> DEFINE D == DAY
<1>1. D \in Nat \ {0}
  BY ScheduleAssumption
<1> HIDE DEF D
<1>2. t % D \in 0 .. D - 1 /\ t \div D \in Nat
  BY <1>1
<1>3. t % D = t - D * (t \div D)
  BY <1>1, Z3
<1> DEFINE p == D * (t \div D)
<1>4. p \in Nat
  BY <1>1, <1>2
<1>5. p = (t \div D) * D
  BY <1>1, <1>2
<1> DEFINE r == t % D
<1>6. r = t - p /\ r \in Nat
  BY <1>1, <1>2, <1>3
<1> HIDE DEF p, r
<1>7. t = p + r
  BY <1>4, <1>6
<1>8. /\ DayOf(t) = t \div D /\ MinuteOf(t) = r /\ Today(t) = p /\ Minutes = 0 .. D - 1
  BY <1>5 DEF D, r, DayOf, Today, Minutes, MinuteOf
<1>9. r \in 0 .. D - 1
  BY <1>2 DEF r
<1>10. QED
  BY <1>2, <1>4, <1>7, <1>8, <1>9

\* A minute has one day, and one place in it.
LEMMA DayIsUnique ==
    ASSUME NEW d \in Nat, NEW x \in Minutes
    PROVE  d * DAY + x \in Nat /\ DayOf(d * DAY + x) = d /\ MinuteOf(d * DAY + x) = x
<1> DEFINE D == DAY
<1>1. D \in Nat \ {0} /\ x \in 0 .. D - 1
  BY ScheduleAssumption DEF Minutes
<1> HIDE DEF D
<1>2. (d * D + x) \div D = d /\ (d * D + x) % D = x
  BY <1>1
<1>3. d * D \in Nat
  BY <1>1
<1>4. QED
  BY <1>1, <1>2, <1>3 DEF D, DayOf, MinuteOf

LEMMA LaterDay ==
    ASSUME NEW d \in Nat, NEW e \in Nat, d < e
    PROVE  d * DAY + DAY <= e * DAY
<1> DEFINE D == DAY
<1>1. D \in Nat
  BY ScheduleAssumption
<1> HIDE DEF D
<1>2. (e - d - 1) * D >= 0
  BY <1>1
<1>3. (e - d - 1) * D = e * D - d * D - D
  BY <1>1
<1>4. d * D \in Nat /\ e * D \in Nat
  BY <1>1
<1>5. QED
  BY <1>1, <1>2, <1>3, <1>4 DEF D

LEMMA DaysGrow ==
    ASSUME NEW t \in Nat, NEW u \in Nat, t <= u PROVE DayOf(t) <= DayOf(u)
<1> SUFFICES ASSUME DayOf(u) < DayOf(t) PROVE FALSE
  BY Division
<1>1. DayOf(u) * DAY + DAY <= DayOf(t) * DAY
  BY Division, LaterDay
<1> DEFINE r == MinuteOf(u)
           q == MinuteOf(t)
<1>2. DAY \in Nat /\ r < DAY /\ r \in Nat /\ q \in Nat
  BY Division, ScheduleAssumption DEF Minutes
<1>3. t = Today(t) + q /\ Today(t) \in Nat
  BY Division
<1>6. u = Today(u) + r /\ Today(u) \in Nat
  BY Division
<1> HIDE DEF q, r
<1>4. Today(u) + DAY <= Today(t)
  BY <1>1 DEF Today
<1>5. QED
  BY <1>2, <1>3, <1>4, <1>6
LEMMA LeastNatural ==
    ASSUME NEW S, S \subseteq Nat, S # {}
    PROVE  \E n \in S : \A m \in S : n <= m
<1> DEFINE R == OpToRel(<, Nat)
<1>1. IsWellFoundedOn(R, Nat)
  BY NatLessThanWellFounded
<1>2. \A m, n \in Nat : <<m, n>> \in R <=> m < n
  BY DEF OpToRel
<1> HIDE DEF R
<1>3. PICK n \in S : \A m \in S : ~(<<m, n>> \in R)
  BY <1>1, WFMin
<1>4. ASSUME NEW m \in S PROVE n <= m
  <2>1. m \in Nat /\ n \in Nat
    OBVIOUS
  <2>2. ~(m < n)
    BY <1>2, <1>3, <2>1
  <2>3. QED
    BY <2>1, <2>2
<1>5. QED
  BY <1>4
-----------------------------------------------------------------------------
(* Types, and what a round holds.                                            *)

InFlight == sm.at \in {"fetch", "publish", "reply"}
Firing   == sm.at \in {"publish", "reply"}

TableType == DOMAIN table \subseteq Ids /\ table \in [DOMAIN table -> Plans]

LoopType ==
    /\ sm \in [at : {"down", "sleep", "fetch", "publish", "reply"}, now : Nat,
               todo : SUBSET Fires]
    /\ Firing <=> sm.todo # {}
    /\ fired \subseteq Keys

\* The round that is under way began in this minute, if one did; else every minute between
\* is one without a round.
ClockType ==
    /\ clock \in 0 .. MaxClock /\ checked \in BOOLEAN
    /\ ~InFlight => sm.now = 0
    /\ InFlight => sm.now <= clock /\ clock <= sm.now + 1 + misses
    /\ InFlight /\ checked => sm.now = clock

\* What it has to fire is of its day and its minute or the one before, once.
TodoType ==
    /\ \A f \in sm.todo : sm.now - f.due \in 0 .. 1 /\ DayOf(f.due) = DayOf(sm.now)
    /\ \A f, g \in sm.todo : f.kind = g.kind /\ f.id = g.id => f = g

CountType ==
    /\ control \in {Nothing, "start", "stop"} /\ running \in BOOLEAN /\ starters \in Nat
    /\ wishes \in 0 .. MaxWishes /\ faults \in 0 .. MaxFaults
    /\ crashes \in Nat /\ crashes <= faults /\ misses \in Nat /\ misses <= faults
    /\ attempts \in [Keys -> Nat] /\ refused \subseteq Keys /\ touched \subseteq Ids

TypeInv == TableType /\ LoopType /\ ClockType /\ TodoType /\ CountType

LEMMA TypeMeaning == TypeInv => TypeOK
<1> SUFFICES ASSUME TypeInv PROVE TypeOK
  OBVIOUS
<1>1. table \in Tables
  BY DEF TypeInv, TableType, Tables
<1>2. {checked, running} \subseteq BOOLEAN
  BY Zenon DEF TypeInv, ClockType, CountType
<1>3. sm.now \in 0 .. clock
  BY DEF TypeInv, ClockType, LoopType
<1>4. {crashes, misses} \subseteq 0 .. MaxFaults
  BY ScheduleAssumption DEF TypeInv, CountType
<1>5. /\ sm.at \in {"down", "sleep", "fetch", "publish", "reply"} /\ sm.todo \subseteq Fires
      /\ sm.at \in {"publish", "reply"} <=> sm.todo # {}
      /\ fired \subseteq Keys
  BY DEF TypeInv, LoopType, Firing
<1>6. /\ clock \in 0 .. MaxClock /\ control \in {Nothing, "start", "stop"} /\ starters \in Nat
      /\ wishes \in 0 .. MaxWishes /\ faults \in 0 .. MaxFaults
      /\ attempts \in [Keys -> Nat] /\ refused \subseteq Keys /\ touched \subseteq Ids
  BY DEF TypeInv, CountType, ClockType
<1>7. QED
  BY <1>1, <1>2, <1>3, <1>4, <1>5, <1>6, Zenon DEF TypeOK

LEMMA DaysAre == Days = 0 .. DayOf(MaxClock)
  BY DEF Days, DayOf

LEMMA PlanType ==
    ASSUME TypeInv, NEW id \in DOMAIN table, NEW kind \in Kinds
    PROVE  id \in Ids /\ id \in Nat /\ table[id] \in Plans /\ At(id, kind) \in Minutes
           /\ table[id].days \subseteq Days /\ table[id].enabled \in BOOLEAN
<1>1. id \in Ids /\ id \in Nat /\ table[id] \in Plans
  BY ScheduleAssumption DEF TypeInv, TableType
<1>2. table[id] \in [days : SUBSET Days, start : Minutes, stop : Minutes, policy : Policies,
                     enabled : BOOLEAN]
  BY <1>1, ScheduleAssumption
<1>3. QED
  BY <1>1, <1>2 DEF At

\* The commands that are due.
LEMMA DueIs ==
    ASSUME TypeInv, NEW now \in 0 .. MaxClock, NEW f \in Due(now)
    PROVE  /\ f \in Fires /\ f.id \in DOMAIN table /\ ~Soft(f.id, f.kind)
           /\ IsDue(f.id, f.kind, now) /\ f.due = Target(f.id, f.kind, DayOf(now))
           /\ now - f.due \in 0 .. 1 /\ DayOf(f.due) = DayOf(now)
<1>1. PICK r \in Kinds \X DOMAIN table :
         /\ ~Soft(r[2], r[1]) /\ IsDue(r[2], r[1], now)
         /\ f = [kind |-> r[1], id |-> r[2], due |-> Today(now) + At(r[2], r[1])]
  BY DEF Due
<1>2. /\ f.kind = r[1] /\ f.id = r[2] /\ f.due = Today(now) + At(f.id, f.kind)
      /\ f.kind \in Kinds /\ f.id \in DOMAIN table
  BY <1>1
<1> DEFINE x == At(f.id, f.kind)
           m == MinuteOf(now)
<1>3. now \in Nat /\ x \in Minutes /\ x \in Nat /\ m \in Nat
  BY <1>2, PlanType, ScheduleAssumption, Division DEF Minutes
<1>4. now = Today(now) + m /\ Today(now) \in Nat /\ DayOf(now) \in Nat
  BY <1>3, Division
<1>5. m - x \in 0 .. 1
  BY <1>1, <1>2 DEF IsDue, WithinWindow
<1> HIDE DEF x, m
<1>6. now - f.due \in 0 .. 1 /\ f.due \in 0 .. MaxClock
  BY <1>2, <1>3, <1>4, <1>5, ScheduleAssumption DEF x
<1>7. f.due = DayOf(now) * DAY + x /\ f.due = Target(f.id, f.kind, DayOf(now))
  BY <1>2 DEF x, Today, Target
<1>8. DayOf(f.due) = DayOf(now)
  BY <1>3, <1>4, <1>7, DayIsUnique
<1>9. f \in Fires
  BY <1>1, <1>2, <1>6, PlanType DEF Fires
<1>10. QED
  BY <1>1, <1>2, <1>6, <1>7, <1>8, <1>9

\* The command that is published next is one of them, and comes before the others.
LEMMA FirstComes ==
    ASSUME TypeInv, Firing PROVE First \in sm.todo /\ \A g \in sm.todo : Before(First, g)
<1> DEFINE ids == {f.id : f \in sm.todo}
<1>1. sm.todo \subseteq Fires /\ sm.todo # {}
  BY DEF TypeInv, LoopType
<1>2. \A f \in sm.todo : f.kind \in Kinds /\ f.id \in Nat
  BY <1>1, ScheduleAssumption DEF Fires
<1>3. PICK n \in ids : \A m \in ids : n <= m
  <2>1. ids \subseteq Nat /\ ids # {}
    BY <1>1, <1>2
  <2> HIDE DEF ids
  <2>2. QED
    BY <2>1, LeastNatural
<1>4. \A g \in sm.todo : n = g.id \/ n < g.id
  <2>1. \A g \in sm.todo : n <= g.id /\ g.id \in Nat
    BY <1>2, <1>3
  <2>2. n \in Nat
    BY <1>2, <1>3
  <2>3. QED
    BY <2>1, <2>2
<1>5. \E f \in sm.todo : \A g \in sm.todo : Before(f, g)
  <2>1. CASE \E f \in sm.todo : f.id = n /\ f.kind = "start"
    BY <1>4, <2>1 DEF Before
  <2>2. CASE ~\E f \in sm.todo : f.id = n /\ f.kind = "start"
    <3>1. PICK f \in sm.todo : f.id = n
      BY <1>3
    <3>2. \A g \in sm.todo : g.id = n => g.kind = "stop"
      BY <1>2, <2>2 DEF Kinds
    <3>3. QED
      BY <1>4, <3>1, <3>2 DEF Before
  <2>3. QED
    BY <2>1, <2>2
<1>6. QED
  BY <1>5 DEF First

LEMMA FirstIs == ASSUME TypeInv, Firing PROVE First \in sm.todo
  BY FirstComes

\* The key of a command, and its day.
LEMMA KeyIs ==
    ASSUME TypeInv, NEW f \in sm.todo
    PROVE  /\ KeyOf(f) = <<f.kind, f.id, DayOf(sm.now)>> /\ KeyOf(f) \in Keys
           /\ KeyOf(f)[3] = DayOf(sm.now) /\ f \in Fires
<1>1. f \in Fires /\ InFlight /\ DayOf(f.due) = DayOf(sm.now)
  BY DEF TypeInv, LoopType, TodoType, Firing, InFlight
<1>2. sm.now \in Nat /\ MaxClock \in Nat /\ sm.now <= MaxClock
  BY <1>1, ScheduleAssumption DEF TypeInv, ClockType, LoopType
<1>3. DayOf(sm.now) \in Days
  <2>1. DayOf(sm.now) \in Nat /\ DayOf(MaxClock) \in Nat /\ DayOf(sm.now) <= DayOf(MaxClock)
    BY <1>2, Division, DaysGrow
  <2>2. QED
    BY <2>1, DaysAre
<1>4. QED
  BY <1>1, <1>3 DEF KeyOf, Keys, Fires

LEMMA FaultType ==
    ASSUME TypeInv, Fault
    PROVE  /\ faults' \in 0 .. MaxFaults /\ faults' = faults + 1
           /\ crashes + 1 <= faults' /\ misses + 1 <= faults'
  BY ScheduleAssumption DEF TypeInv, CountType, Fault

LEMMA WishType == ASSUME TypeInv, Wish PROVE wishes' \in 0 .. MaxWishes
  BY ScheduleAssumption DEF TypeInv, CountType, Wish

\* The loop and the clock stand still.
LEMMA LoopStays ==
    ASSUME TypeInv, UNCHANGED <<sm, fired, clock, checked, misses>>
    PROVE  LoopType' /\ ClockType' /\ TodoType'
<1>1. LoopType' /\ TodoType'
  BY DEF TypeInv, LoopType, TodoType, Firing
<1>2. checked' \in BOOLEAN
  BY Zenon DEF TypeInv, ClockType
<1>3. ClockType'
  BY <1>2 DEF TypeInv, ClockType, InFlight
<1>4. QED
  BY <1>1, <1>3

LEMMA TableStays == ASSUME TypeInv, UNCHANGED table PROVE TableType'
  BY DEF TypeInv, TableType

LEMMA EditTypes == ASSUME TypeInv, NEW id \in Ids, Edit(id) PROVE TypeInv'
<1>1. TableType'
  BY DEF TypeInv, TableType, Edit, With, Restrict
<1>2. LoopType' /\ ClockType' /\ TodoType'
  BY LoopStays DEF Edit
<1>3. running' \in BOOLEAN
  BY Zenon DEF TypeInv, CountType, Edit, people
<1>4. CountType'
  BY <1>3, WishType DEF TypeInv, CountType, Edit, people
<1>5. QED
  BY <1>1, <1>2, <1>4 DEF TypeInv

LEMMA PeopleTypes ==
    ASSUME TypeInv, AskStart \/ PublishStart \/ AskStop \/ Obey \/ Silence PROVE TypeInv'
<1>1. TableType' /\ LoopType' /\ ClockType' /\ TodoType'
  BY TableStays, LoopStays DEF AskStart, PublishStart, AskStop, Obey, Silence
<1>2. running' \in BOOLEAN
  BY Zenon DEF TypeInv, CountType, AskStart, PublishStart, AskStop, Obey, Silence, people
<1>3. wishes' \in 0 .. MaxWishes
  BY WishType DEF TypeInv, CountType, AskStart, PublishStart, AskStop, Obey, Silence
<1>4. CountType'
  BY <1>2, <1>3 DEF TypeInv, CountType, AskStart, PublishStart, AskStop, Obey, Silence, people
<1>5. QED
  BY <1>1, <1>4 DEF TypeInv

\* A step of the loop leaves what is not its own.
LEMMA CountsStay ==
    ASSUME TypeInv, UNCHANGED <<control, people, wishes, attempts, refused, touched, crashes>>,
           \/ faults' = faults /\ misses' = misses
           \/ Fault /\ misses' \in {misses, misses + 1}
    PROVE  CountType'
<1>1. running' \in BOOLEAN
  BY Zenon DEF TypeInv, CountType, people
<1>2. faults' \in 0 .. MaxFaults /\ crashes' <= faults' /\ misses' \in Nat /\ misses' <= faults'
  <2>1. CASE faults' = faults /\ misses' = misses
    BY <2>1 DEF TypeInv, CountType
  <2>2. CASE Fault /\ misses' \in {misses, misses + 1}
    <3>1. /\ faults' \in 0 .. MaxFaults /\ faults' = faults + 1
          /\ crashes + 1 <= faults' /\ misses + 1 <= faults'
      BY <2>2, FaultType
    <3>2. misses' = misses \/ misses' = misses + 1
      BY <2>2
    <3>3. misses \in Nat /\ crashes \in Nat /\ faults \in Nat /\ crashes' = crashes
      BY DEF TypeInv, CountType
    <3>4. QED
      BY <3>1, <3>2, <3>3, ScheduleAssumption
  <2>3. QED
    BY <2>1, <2>2
<1>3. QED
  BY <1>1, <1>2 DEF TypeInv, CountType, people

LEMMA BootTypes == ASSUME TypeInv, Boot \/ Crash PROVE TypeInv'
<1>1. sm' = [at |-> sm'.at, now |-> 0, todo |-> {}] /\ sm'.at \in {"down", "sleep"} /\ fired' \subseteq Keys
  BY DEF TypeInv, LoopType, Boot, Crash, Asleep
<1>2. TableType' /\ LoopType' /\ TodoType'
  BY <1>1, TableStays DEF LoopType, TodoType, Firing, Boot, Crash
<1>3. checked' \in BOOLEAN /\ running' \in BOOLEAN
  BY Zenon DEF TypeInv, ClockType, CountType, Boot, Crash, people
<1>4. ClockType'
  BY <1>1, <1>3 DEF TypeInv, ClockType, InFlight, Boot, Crash
<1>5. CountType'
  BY <1>3, FaultType, ScheduleAssumption DEF TypeInv, CountType, Boot, Crash, people
<1>6. QED
  BY <1>2, <1>4, <1>5 DEF TypeInv

LEMMA CheckTypes == ASSUME TypeInv, Check PROVE TypeInv'
<1>1. sm' = [at |-> "fetch", now |-> clock, todo |-> {}] /\ UNCHANGED <<fired, clock>>
  BY DEF Check
<1>2. TableType' /\ LoopType' /\ TodoType'
  BY <1>1, TableStays, ScheduleAssumption DEF TypeInv, LoopType, ClockType, TodoType, Firing, Check
<1>3. checked' \in BOOLEAN /\ checked'
  BY Zenon DEF Check
<1>4. ClockType'
  <2>1. InFlight' /\ sm'.now = clock /\ clock' = clock /\ clock \in 0 .. MaxClock /\ misses' \in Nat
    BY <1>1 DEF TypeInv, ClockType, CountType, InFlight, Check
  <2> DEFINE n == sm'.now
             m == misses'
             c == clock'
  <2>2. n = clock /\ c = clock /\ clock \in Nat /\ m \in Nat
    BY <2>1, ScheduleAssumption
  <2> HIDE DEF n, m, c
  <2>3. n <= c /\ c <= n + 1 + m /\ n = c
    BY <2>2
  <2>4. sm'.now <= clock' /\ clock' <= sm'.now + 1 + misses' /\ sm'.now = clock'
    BY <2>3 DEF n, m, c
  <2>5. QED
    BY <1>3, <2>1, <2>4, Zenon DEF ClockType
<1>5. CountType'
  BY CountsStay DEF Check
<1>6. QED
  BY <1>2, <1>4, <1>5 DEF TypeInv

\* A round ends, or goes on with some commands.
LEMMA RoundEnds ==
    ASSUME TypeInv, clock' = clock, checked' = checked, fired' \subseteq Keys, sm' = Asleep
    PROVE  LoopType' /\ ClockType' /\ TodoType'
<1>1. LoopType' /\ TodoType'
  BY DEF Asleep, LoopType, TodoType, Firing
<1>2. checked' \in BOOLEAN
  BY Zenon DEF TypeInv, ClockType
<1>3. ClockType'
  BY <1>2 DEF TypeInv, ClockType, InFlight, Asleep
<1>4. QED
  BY <1>1, <1>3

LEMMA RoundGoesOn ==
    ASSUME TypeInv, InFlight, clock' = clock, checked' = checked, misses' = misses, fired' \subseteq Keys,
           NEW todo, todo # {}, todo \subseteq sm.todo \/ todo \subseteq Due(sm.now),
           NEW place \in {"publish", "reply"}, sm' = [at |-> place, now |-> sm.now, todo |-> todo]
    PROVE  LoopType' /\ ClockType' /\ TodoType'
<1>1. sm.now \in 0 .. MaxClock
  BY ScheduleAssumption DEF TypeInv, ClockType, LoopType
<1>2. checked' \in BOOLEAN
  BY Zenon DEF TypeInv, ClockType
<1>3. \A f \in Due(sm.now) : f \in Fires /\ sm.now - f.due \in 0 .. 1 /\ DayOf(f.due) = DayOf(sm.now)
  BY <1>1, DueIs
<1>4. \A f, g \in Due(sm.now) : f.kind = g.kind /\ f.id = g.id => f = g
  BY DEF Due
<1>5. sm.todo \subseteq Fires
  BY DEF TypeInv, LoopType
<1>6. LoopType'
  BY <1>1, <1>3, <1>5 DEF LoopType, Firing
<1>7. ClockType'
  <2>1. /\ clock \in 0 .. MaxClock /\ sm.now <= clock /\ clock <= sm.now + 1 + misses
        /\ sm'.now = sm.now /\ InFlight'
    BY DEF TypeInv, ClockType, InFlight
  <2>2. checked' => sm'.now = clock'
    BY <2>1 DEF TypeInv, ClockType
  <2>3. QED
    BY <1>2, <2>1, <2>2 DEF ClockType
<1>8. TodoType'
  BY <1>3, <1>4 DEF TypeInv, TodoType
<1>9. QED
  BY <1>6, <1>7, <1>8

LEMMA FetchedTypes == ASSUME TypeInv, Fetched PROVE TypeInv'
<1>1. /\ sm.at = "fetch" /\ InFlight /\ sm.todo = {} /\ sm.now \in 0 .. MaxClock
      /\ UNCHANGED <<clock, checked, table>>
  BY ScheduleAssumption DEF TypeInv, LoopType, ClockType, InFlight, Firing, Fetched
<1>2. fired' \subseteq Keys
  <2>1. Noted(sm.now) \subseteq Keys
    <3>1. \A r \in Kinds \X DOMAIN table : r[1] \in Kinds /\ r[2] \in Ids
      BY DEF TypeInv, TableType
    <3>2. DayOf(sm.now) \in Days
      <4>1. sm.now \in Nat /\ MaxClock \in Nat /\ sm.now <= MaxClock
        BY <1>1, ScheduleAssumption
      <4>2. DayOf(sm.now) \in Nat /\ DayOf(MaxClock) \in Nat /\ DayOf(sm.now) <= DayOf(MaxClock)
        BY <4>1, Division, DaysGrow
      <4>3. QED
        BY <4>2, DaysAre
    <3>3. QED
      BY <3>1, <3>2 DEF Noted, Keys
  <2>2. QED
    BY <2>1 DEF TypeInv, LoopType, Fetched, Pruned
<1>3. \/ sm' = Asleep
      \/ /\ Due(sm.now) # {} /\ misses' = misses
         /\ sm' = [at |-> "publish", now |-> sm.now, todo |-> Due(sm.now)]
  BY DEF TypeInv, LoopType, Fetched
<1>4. LoopType' /\ ClockType' /\ TodoType'
  <2>1. InFlight /\ clock' = clock /\ checked' = checked
    BY <1>1
  <2>2. CASE sm' = Asleep
    BY <1>2, <2>1, <2>2, RoundEnds
  <2>3. CASE /\ Due(sm.now) # {} /\ misses' = misses
             /\ sm' = [at |-> "publish", now |-> sm.now, todo |-> Due(sm.now)]
    <3> DEFINE todo == Due(sm.now)
    <3>1. todo # {} /\ todo \subseteq Due(sm.now) /\ sm' = [at |-> "publish", now |-> sm.now, todo |-> todo]
      BY <2>3
    <3> HIDE DEF todo
    <3>2. QED
      BY <1>2, <2>1, <2>3, <3>1, RoundGoesOn
  <2>4. QED
    BY <1>3, <2>2, <2>3
<1>5. TableType' /\ CountType'
  <2>1. UNCHANGED <<control, people, wishes, attempts, refused, touched, crashes>>
    BY DEF Fetched
  <2>2. \/ faults' = faults /\ misses' = misses
        \/ Fault /\ misses' \in {misses, misses + 1}
    BY Zenon DEF Fetched
  <2>3. QED
    BY <1>1, <2>1, <2>2, TableStays, CountsStay
<1>6. QED
  BY <1>4, <1>5 DEF TypeInv

LEMMA PublishTypes == ASSUME TypeInv, Publish PROVE TypeInv'
<1>1. /\ sm.at = "publish" /\ InFlight /\ Firing /\ sm' = [sm EXCEPT !.at = "reply"]
      /\ UNCHANGED <<clock, checked, table, fired, misses>>
  BY DEF InFlight, Firing, Publish
<1>2. LoopType' /\ ClockType' /\ TodoType'
  <2>1. sm.todo # {} /\ sm.todo \subseteq sm.todo /\ fired' \subseteq Keys
    BY <1>1 DEF TypeInv, LoopType, Firing
  <2>2. sm' = [at |-> "reply", now |-> sm.now, todo |-> sm.todo]
    BY <1>1 DEF TypeInv, LoopType
  <2>3. InFlight /\ clock' = clock /\ checked' = checked /\ misses' = misses
    BY <1>1
  <2>4. QED
    BY <2>1, <2>2, <2>3, RoundGoesOn
<1>3. KeyOf(First) \in Keys
  BY <1>1, FirstIs, KeyIs
<1>4. attempts' \in [Keys -> Nat] /\ refused' \subseteq Keys
  BY <1>3 DEF TypeInv, CountType, Publish
<1>5. control' \in {Nothing, "start", "stop"}
  BY <1>1, FirstIs, KeyIs DEF TypeInv, CountType, Publish, CommandOf, Fires, Kinds
<1>6. running' \in BOOLEAN
  BY Zenon DEF TypeInv, CountType, Publish, people
<1>7. /\ faults' \in 0 .. MaxFaults /\ crashes' <= faults' /\ misses' \in Nat /\ misses' <= faults'
      /\ crashes' \in Nat
  <2>1. faults' = faults \/ Fault
    BY Zenon DEF Publish
  <2>2. UNCHANGED <<crashes, misses>>
    BY DEF Publish
  <2>3. QED
    BY <2>1, <2>2, FaultType, ScheduleAssumption DEF TypeInv, CountType
<1>8. TableType' /\ CountType'
  <2>1. UNCHANGED <<starters, wishes, touched>>
    BY DEF Publish, people
  <2>2. QED
    BY <1>1, <1>4, <1>5, <1>6, <1>7, <2>1, TableStays DEF TypeInv, CountType
<1>9. QED
  BY <1>2, <1>8 DEF TypeInv

LEMMA PublishedTypes == ASSUME TypeInv, Published PROVE TypeInv'
<1>1. /\ sm.at = "reply" /\ InFlight /\ Firing
      /\ UNCHANGED <<clock, checked, table, faults, misses>>
  BY DEF InFlight, Firing, Published
<1>2. First \in sm.todo /\ KeyOf(First) \in Keys
  BY <1>1, FirstIs, KeyIs
<1>3. fired' \subseteq Keys
  BY <1>2 DEF TypeInv, LoopType, Published, Pruned
<1>4. \/ sm' = Asleep
      \/ /\ sm.todo \ {First} # {}
         /\ sm' = [at |-> "publish", now |-> sm.now, todo |-> sm.todo \ {First}]
  BY <1>2 DEF TypeInv, LoopType, Published
<1>5. LoopType' /\ ClockType' /\ TodoType'
  <2>1. sm.todo \ {First} \subseteq sm.todo
    OBVIOUS
  <2>2. QED
    BY <1>1, <1>3, <1>4, <2>1, RoundEnds, RoundGoesOn
<1>6. TableType' /\ CountType'
  BY <1>1, TableStays, CountsStay DEF Published
<1>7. QED
  BY <1>5, <1>6 DEF TypeInv

\* What a minute that passes costs.
LEMMA TickIs ==
    ASSUME TypeInv, Tick
    PROVE  /\ clock < MaxClock /\ clock' = clock + 1 /\ control' = Nothing /\ sm' = sm
           /\ faults' \in 0 .. MaxFaults /\ misses' \in Nat /\ misses' <= faults'
           /\ faults <= faults'
           /\ control = Nothing \/ faults' # faults
           /\ (checked \/ sm.at = "down") => misses' = misses
           /\ ~(checked \/ sm.at = "down") => misses' = misses + 1 /\ faults' # faults
<1> DEFINE idle == checked \/ sm.at = "down"
           late == IF idle THEN 0 ELSE 1
           lost == IF control = Nothing THEN 0 ELSE 1
<1>1. /\ clock < MaxClock /\ clock' = clock + 1 /\ control' = Nothing /\ sm' = sm
      /\ faults + late + lost <= MaxFaults /\ faults' = faults + late + lost
      /\ misses' = misses + late
  BY Zenon DEF Tick
<1>2. /\ faults \in Nat /\ misses \in Nat /\ misses <= faults /\ MaxFaults \in Nat
  BY ScheduleAssumption DEF TypeInv, CountType
<1>3. /\ late \in {0, 1} /\ lost \in {0, 1} /\ (idle => late = 0) /\ (~idle => late = 1)
      /\ (control # Nothing => lost = 1)
  OBVIOUS
<1> HIDE DEF late, lost, idle
<1>4. /\ faults' \in 0 .. MaxFaults /\ misses' \in Nat /\ misses' <= faults' /\ faults <= faults'
      /\ control = Nothing \/ faults' # faults
      /\ idle => misses' = misses
      /\ ~idle => misses' = misses + 1 /\ faults' # faults
  BY <1>1, <1>2, <1>3
<1>5. QED
  BY <1>1, <1>4 DEF idle

LEMMA TickTypes == ASSUME TypeInv, Tick PROVE TypeInv'
<1>1. /\ clock < MaxClock /\ clock' = clock + 1 /\ control' = Nothing
      /\ UNCHANGED <<table, sm, fired, people, wishes, attempts, refused, touched, crashes>>
  BY DEF Tick
<1>2. checked' \in BOOLEAN /\ ~checked'
  BY Zenon DEF Tick
<1>3. LoopType' /\ TodoType'
  BY <1>1 DEF TypeInv, LoopType, TodoType, Firing
<1>4. ClockType'
  <2>1. clock \in Nat /\ clock' \in 0 .. MaxClock /\ misses \in Nat /\ misses' \in Nat /\ sm.now \in Nat
    BY <1>1, TickIs, ScheduleAssumption DEF TypeInv, LoopType, ClockType, CountType
  <2>2. InFlight' <=> InFlight
    BY <1>1 DEF InFlight
  <2>3. ASSUME InFlight PROVE sm.now <= clock + 1 /\ clock + 1 <= sm.now + 1 + misses'
    <3>1. sm.now <= clock /\ clock <= sm.now + 1 + misses /\ sm.at # "down"
      BY <2>3 DEF TypeInv, ClockType, InFlight
    <3>2. CASE checked
      <4>1. sm.now = clock
        BY <2>3, <3>2 DEF TypeInv, ClockType
      <4> DEFINE n == sm.now
                 m == misses'
      <4>2. n = clock /\ clock \in Nat /\ m \in Nat
        BY <2>1, <4>1
      <4> HIDE DEF n, m
      <4>3. n <= clock + 1 /\ clock + 1 <= n + 1 + m
        BY <4>2
      <4>4. QED
        BY <4>3 DEF n, m
    <3>3. CASE ~checked
      <4>1. misses' = misses + 1
        BY <3>1, <3>3, TickIs
      <4>2. QED
        BY <2>1, <3>1, <4>1
    <3>4. QED
      BY <3>2, <3>3
  <2>4. ~InFlight => sm.now = 0
    BY DEF TypeInv, ClockType
  <2>5. QED
    BY <1>1, <1>2, <2>1, <2>2, <2>3, <2>4 DEF ClockType
<1>5. running' \in BOOLEAN
  BY <1>1, Zenon DEF TypeInv, CountType, people
<1>6. /\ faults' \in 0 .. MaxFaults /\ faults <= faults' /\ misses' \in Nat /\ misses' <= faults'
  BY TickIs
<1>7. TableType' /\ CountType'
  <2>1. crashes' \in Nat /\ crashes' <= faults'
    BY <1>1, <1>6, ScheduleAssumption DEF TypeInv, CountType
  <2>2. QED
    BY <1>1, <1>5, <1>6, <2>1, TableStays DEF TypeInv, CountType, people
<1>8. QED
  BY <1>3, <1>4, <1>7 DEF TypeInv

LEMMA InitTypes == Init => TypeInv
<1> SUFFICES ASSUME Init PROVE TypeInv
  OBVIOUS
<1>1. TableType
  BY DEF Init, Tables, TableType
<1>2. LoopType /\ TodoType
  BY DEF Init, Asleep, LoopType, TodoType, Firing
<1>3. checked \in BOOLEAN /\ running \in BOOLEAN
  BY Zenon DEF Init
<1>4. ClockType /\ CountType
  BY <1>3, ScheduleAssumption DEF Init, ClockType, CountType, Asleep, InFlight
<1>5. QED
  BY <1>1, <1>2, <1>4 DEF TypeInv

LEMMA NextTypes == TypeInv /\ [Next]_vars => TypeInv'
<1> SUFFICES ASSUME TypeInv, [Next]_vars PROVE TypeInv'
  OBVIOUS
<1>1. CASE UNCHANGED vars
  <2>1. TableType' /\ LoopType' /\ ClockType' /\ TodoType'
    BY <1>1, TableStays, LoopStays DEF vars
  <2>2. CountType'
    BY <1>1, CountsStay DEF vars
  <2>3. QED
    BY <2>1, <2>2 DEF TypeInv
<1>2. CASE Next
  BY <1>2, EditTypes, PeopleTypes, BootTypes, CheckTypes, FetchedTypes, PublishTypes, PublishedTypes,
     TickTypes DEF Next, Loop, People
<1>3. QED
  BY <1>1, <1>2

\* Every variable keeps its type, whatever schedules there are and however long the day is.
THEOREM TypeCorrect == Spec => []TypeOK
<1>1. Spec => []TypeInv
  BY InitTypes, NextTypes, PTL DEF Spec
<1>2. QED
  BY <1>1, TypeMeaning, PTL
-----------------------------------------------------------------------------
(* How often a command is published.                                         *)

\* The day of the round, or the next one's.
Day == IF InFlight THEN DayOf(sm.now) ELSE DayOf(clock)

\* Key k was fired since the last crash, or its day is past.
Spent(k) == k \in fired \/ k[3] < Day \/ (sm.at = "reply" /\ k = KeyOf(First))

\* Nothing of a later day was fired,
PastOK == /\ \A k \in fired : k[3] <= Day
          /\ \A k \in Keys : attempts[k] > 0 => k[3] <= Day

\* a key is published once between two crashes, and then is not published again.
SpentOK == \A k \in Keys : attempts[k] <= crashes + (IF Spent(k) THEN 1 ELSE 0)

NewOK == \A f \in sm.todo : KeyOf(f) \notin fired

OnceInv == PastOK /\ SpentOK /\ NewOK

LEMMA KeyDay == ASSUME NEW k \in Keys PROVE k[3] \in Nat
  BY Division, ScheduleAssumption DEF Keys, Days

LEMMA DayType ==
    ASSUME TypeInv PROVE Day \in Nat /\ DayOf(clock) \in Nat /\ Day <= DayOf(clock)
<1>1. clock \in Nat /\ DayOf(clock) \in Nat
  BY Division, ScheduleAssumption DEF TypeInv, ClockType
<1>2. CASE InFlight
  <2>1. sm.now \in Nat /\ sm.now <= clock
    BY <1>2 DEF TypeInv, LoopType, ClockType
  <2>2. DayOf(sm.now) \in Nat /\ DayOf(sm.now) <= DayOf(clock)
    BY <1>1, <2>1, Division, DaysGrow
  <2>3. QED
    BY <1>1, <1>2, <2>2 DEF Day
<1>3. CASE ~InFlight
  BY <1>1, <1>3 DEF Day
<1>4. QED
  BY <1>2, <1>3

LEMMA DayNext == ASSUME TypeInv' PROVE Day' \in Nat /\ Day' <= DayOf(clock')
<1>1. clock' \in Nat /\ sm'.now \in Nat /\ (InFlight' => sm'.now <= clock')
  BY ScheduleAssumption DEF TypeInv, ClockType, LoopType
<1>2. DayOf(clock') \in Nat /\ DayOf(sm'.now) \in Nat
  BY <1>1, Division
<1>3. InFlight' => DayOf(sm'.now) <= DayOf(clock')
  BY <1>1, DaysGrow
<1>4. Day' = IF InFlight' THEN DayOf(sm'.now) ELSE DayOf(clock')
  BY DEF Day, InFlight, DayOf
<1>5. QED
  BY <1>2, <1>3, <1>4

\* Time goes on, and what is forgotten is of a day that is past.
LEMMA OnceGoesOn ==
    ASSUME TypeInv, TypeInv', OnceInv, attempts' = attempts, crashes' = crashes, Day <= Day',
           \A k \in fired' : k \in fired \/ k[3] <= Day',
           \A k \in Keys : Spent(k) => Spent(k)',
           \A f \in sm'.todo : KeyOf(f) \notin fired'
    PROVE  OnceInv'
<1>1. Day \in Nat /\ Day' \in Nat
  BY DayType, DayNext
<1>2. fired \subseteq Keys
  BY DEF TypeInv, LoopType
<1>3. PastOK'
  BY <1>1, <1>2, KeyDay DEF OnceInv, PastOK
<1>4. attempts \in [Keys -> Nat] /\ crashes \in Nat
  BY DEF TypeInv, CountType
<1>5. SpentOK'
  BY <1>4 DEF OnceInv, SpentOK
<1>6. NewOK'
  BY DEF NewOK, KeyOf
<1>7. QED
  BY <1>3, <1>5, <1>6 DEF OnceInv

LEMMA BootOnce ==
    ASSUME TypeInv, TypeInv', OnceInv,
           \/ Boot \/ Check \/ Tick
           \/ UNCHANGED <<sm, fired, clock, attempts, crashes>>
    PROVE  OnceInv'
<1>1. /\ attempts' = attempts /\ crashes' = crashes /\ fired' = fired
      /\ sm'.todo = {} \/ sm'.todo = sm.todo
  BY DEF Boot, Check, Tick, Asleep
<1>2. Day <= Day' /\ Day \in Nat /\ Day' \in Nat
  <2>1. Day \in Nat /\ Day' \in Nat /\ clock \in Nat
    BY DayType, DayNext, ScheduleAssumption DEF TypeInv, ClockType
  <2>2. Day' = Day \/ (~InFlight /\ Day = DayOf(clock) /\ Day' = DayOf(clock + 1))
    BY DEF Boot, Check, Tick, Asleep, Day, InFlight
  <2>3. DayOf(clock) <= DayOf(clock + 1)
    BY <2>1, DaysGrow
  <2>4. QED
    BY <2>1, <2>2, <2>3
<1>3. sm.at = "reply" => sm' = sm
  BY DEF Boot, Check, Tick
<1>4. \A k \in Keys : Spent(k) => Spent(k)'
  <2> SUFFICES ASSUME NEW k \in Keys, Spent(k) PROVE Spent(k)'
    OBVIOUS
  <2>1. CASE k \in fired \/ k[3] < Day
    BY <1>1, <1>2, <2>1, KeyDay DEF Spent
  <2>2. CASE sm.at = "reply" /\ k = KeyOf(First)
    <3>1. sm' = sm
      BY <1>3, <2>2
    <3>2. First' = First
      BY <3>1 DEF First, Before
    <3>3. QED
      BY <2>2, <3>1, <3>2 DEF Spent, KeyOf
  <2>3. QED
    BY <2>1, <2>2 DEF Spent
<1>5. QED
  BY <1>1, <1>2, <1>4, OnceGoesOn DEF OnceInv, NewOK

LEMMA CrashOnce == ASSUME TypeInv, TypeInv', OnceInv, Crash PROVE OnceInv'
<1>1. /\ sm'.todo = {} /\ sm'.at = "down" /\ fired' = {} /\ crashes' = crashes + 1
      /\ attempts' = attempts /\ clock' = clock
  BY DEF Crash, Asleep
<1>2. Day \in Nat /\ Day' \in Nat /\ Day <= Day'
  BY <1>1, DayType DEF Day, InFlight
<1>3. attempts \in [Keys -> Nat] /\ crashes \in Nat
  BY DEF TypeInv, CountType
<1>4. PastOK'
  BY <1>1, <1>2, <1>3, KeyDay DEF OnceInv, PastOK
<1>5. \A k \in Keys : attempts[k] <= crashes + 1
  BY <1>3 DEF OnceInv, SpentOK
<1>6. SpentOK' /\ NewOK'
  BY <1>1, <1>3, <1>5 DEF SpentOK, NewOK
<1>7. QED
  BY <1>4, <1>6 DEF OnceInv

\* The end of a round prunes only what is past.
LEMMA PrunedPast ==
    ASSUME TypeInv, OnceInv, InFlight, NEW all, \A k \in all : k \in Keys /\ k[3] <= Day
    PROVE  /\ Day = DayOf(sm.now) /\ Pruned(all, sm.now) \subseteq all
           /\ \A k \in all : k \in Pruned(all, sm.now) \/ k[3] < Day
<1>1. Day \in Nat /\ Day = DayOf(sm.now)
  BY DayType DEF Day
<1>2. \A k \in all : k[3] \in Nat
  BY KeyDay
<1>3. QED
  BY <1>1, <1>2 DEF Pruned

LEMMA FetchedOnce == ASSUME TypeInv, TypeInv', OnceInv, Fetched PROVE OnceInv'
<1> DEFINE all == fired \cup Noted(sm.now)
<1>1. /\ sm.at = "fetch" /\ InFlight /\ sm.now \in 0 .. MaxClock /\ fired \subseteq Keys
      /\ UNCHANGED <<clock, attempts, crashes>>
  BY ScheduleAssumption DEF TypeInv, LoopType, ClockType, InFlight, Fetched
<1>2. Day = DayOf(sm.now) /\ Day \in Nat /\ Day' \in Nat /\ Day <= Day'
  <2>1. Day = DayOf(sm.now) /\ Day \in Nat /\ Day' \in Nat /\ Day <= DayOf(clock)
    BY <1>1, DayType, DayNext DEF Day
  <2>2. Day' = Day \/ Day' = DayOf(clock)
    <3>1. sm' = Asleep \/ (sm'.at = "publish" /\ sm'.now = sm.now)
      BY DEF Fetched, TypeInv, LoopType
    <3>2. QED
      BY <1>1, <2>1, <3>1 DEF Day, InFlight, Asleep
  <2>3. QED
    BY <2>1, <2>2
<1>3. \A k \in all : k \in Keys /\ k[3] <= Day
  <2>1. \A k \in Noted(sm.now) : k[3] = Day
    BY <1>2 DEF Noted
  <2>2. Noted(sm.now) \subseteq Keys
    <3>1. \A r \in Kinds \X DOMAIN table : r[1] \in Kinds /\ r[2] \in Ids
      BY DEF TypeInv, TableType
    <3>2. DayOf(sm.now) \in Days
      <4>1. DayOf(sm.now) \in Nat /\ DayOf(MaxClock) \in Nat /\ DayOf(sm.now) <= DayOf(MaxClock)
        BY <1>1, Division, DaysGrow, ScheduleAssumption
      <4>2. QED
        BY <4>1, DaysAre
    <3>3. QED
      BY <3>1, <3>2 DEF Noted, Keys
  <2>3. QED
    BY <1>1, <1>2, <2>1, <2>2 DEF OnceInv, PastOK
<1>4. \A f \in Due(sm.now) : KeyOf(f) \notin all
  <2> SUFFICES ASSUME NEW f \in Due(sm.now) PROVE KeyOf(f) \notin all
    OBVIOUS
  <2>1. KeyOf(f) = <<f.kind, f.id, DayOf(sm.now)>> /\ IsDue(f.id, f.kind, sm.now) /\ ~Soft(f.id, f.kind)
    BY <1>1, DueIs DEF KeyOf
  <2>2. KeyOf(f) \notin fired
    BY <2>1 DEF IsDue
  <2>3. KeyOf(f) \notin Noted(sm.now)
    BY <2>1 DEF Noted
  <2>4. QED
    BY <2>2, <2>3
<1>5. /\ fired' \subseteq all /\ \A k \in fired : k \in fired' \/ k[3] < Day
      /\ sm'.todo = {} \/ (sm'.todo = Due(sm.now) /\ fired' = all)
  <2> HIDE DEF all
  <2>1. /\ Pruned(all, sm.now) \subseteq all
        /\ \A k \in all : k \in Pruned(all, sm.now) \/ k[3] < Day
    BY <1>1, <1>3, PrunedPast
  <2>2. fired \subseteq all
    BY DEF all
  <2>3. \/ sm' = Asleep /\ fired' = Pruned(all, sm.now)
        \/ sm'.todo = Due(sm.now) /\ fired' = all
        \/ sm' = Asleep /\ fired' = fired
    BY DEF Fetched, all, TypeInv, LoopType
  <2>4. QED
    BY <2>1, <2>2, <2>3 DEF Asleep
<1> HIDE DEF all
<1>6. \A k \in Keys : Spent(k) => Spent(k)'
  BY <1>1, <1>2, <1>5, KeyDay DEF Spent
<1>7. \A k \in fired' : k[3] <= Day'
  BY <1>2, <1>3, <1>5, KeyDay
<1>8. \A f \in sm'.todo : KeyOf(f) \notin fired'
  BY <1>4, <1>5
<1>9. QED
  BY <1>1, <1>2, <1>6, <1>7, <1>8, OnceGoesOn

LEMMA PublishOnce == ASSUME TypeInv, TypeInv', OnceInv, Publish PROVE OnceInv'
<1> DEFINE key == KeyOf(First)
<1>1. /\ sm.at = "publish" /\ InFlight /\ Firing /\ sm'.at = "reply" /\ sm'.todo = sm.todo
      /\ sm'.now = sm.now /\ fired' = fired /\ clock' = clock /\ crashes' = crashes
      /\ attempts' = [attempts EXCEPT ![key] = @ + 1]
  BY DEF TypeInv, LoopType, Publish, InFlight, Firing
<1>2. First \in sm.todo /\ key \in Keys /\ key[3] = Day /\ Day \in Nat
  BY <1>1, FirstIs, KeyIs, DayType DEF Day
<1>3. First' = First /\ KeyOf(First)' = key
  <2>1. First' = First
    BY <1>1 DEF First, Before
  <2>2. QED
    BY <2>1 DEF KeyOf
<1>4. Day' = Day
  BY <1>1 DEF Day, InFlight
<1>5. ~Spent(key)
  BY <1>1, <1>2 DEF OnceInv, NewOK, Spent
<1> HIDE DEF key
<1>6. attempts \in [Keys -> Nat] /\ crashes \in Nat
  BY DEF TypeInv, CountType
<1>7. PastOK'
  BY <1>1, <1>2, <1>4, <1>6 DEF OnceInv, PastOK
<1>8. \A k \in Keys : Spent(k) \/ k = key => Spent(k)'
  BY <1>1, <1>3, <1>4 DEF Spent
<1>9. SpentOK'
  <2> SUFFICES ASSUME NEW k \in Keys
               PROVE  attempts'[k] <= crashes + (IF Spent(k)' THEN 1 ELSE 0)
    BY <1>1 DEF SpentOK
  <2>1. CASE k = key
    BY <1>1, <1>2, <1>5, <1>6, <1>8, <2>1 DEF OnceInv, SpentOK
  <2>2. CASE k # key
    BY <1>1, <1>6, <1>8, <2>2 DEF OnceInv, SpentOK
  <2>3. QED
    BY <2>1, <2>2
<1>10. NewOK'
  BY <1>1 DEF OnceInv, NewOK, KeyOf
<1>11. QED
  BY <1>7, <1>9, <1>10 DEF OnceInv

LEMMA PublishedOnce == ASSUME TypeInv, TypeInv', OnceInv, Published PROVE OnceInv'
<1> DEFINE key == KeyOf(First)
           all == fired \cup {key}
<1>1. /\ sm.at = "reply" /\ InFlight /\ Firing /\ UNCHANGED <<clock, attempts, crashes>>
      /\ \/ sm' = Asleep /\ fired' = Pruned(all, sm.now)
         \/ /\ sm'.at = "publish" /\ sm'.now = sm.now /\ sm'.todo = sm.todo \ {First}
            /\ fired' = all
  BY DEF TypeInv, LoopType, Published, InFlight, Firing
<1>2. First \in sm.todo /\ key \in Keys /\ key[3] = Day /\ Day \in Nat
  BY <1>1, FirstIs, KeyIs, DayType DEF Day
<1>3. Day' \in Nat /\ Day <= Day'
  <2>1. Day' = Day \/ Day' = DayOf(clock)
    BY <1>1 DEF Day, InFlight, Asleep
  <2>2. QED
    BY <2>1, DayType
<1>4. \A k \in all : k \in Keys /\ k[3] <= Day
  BY <1>2 DEF OnceInv, PastOK, TypeInv, LoopType
<1>5. \A f \in sm.todo \ {First} : KeyOf(f) \notin all
  <2> SUFFICES ASSUME NEW f \in sm.todo \ {First} PROVE KeyOf(f) # key
    BY DEF OnceInv, NewOK
  <2>1. f.kind # First.kind \/ f.id # First.id
    BY <1>2 DEF TypeInv, TodoType
  <2>2. QED
    BY <1>2, <2>1, KeyIs
<1>6. /\ fired' \subseteq all /\ \A k \in all : k \in fired' \/ k[3] < Day
      /\ \A f \in sm'.todo : KeyOf(f) \notin fired'
  <2> HIDE DEF all
  <2>1. /\ Pruned(all, sm.now) \subseteq all
        /\ \A k \in all : k \in Pruned(all, sm.now) \/ k[3] < Day
    BY <1>1, <1>4, PrunedPast
  <2>2. QED
    BY <1>1, <1>5, <2>1 DEF Asleep
<1>7. \A k \in Keys : Spent(k) => Spent(k)'
  <2>1. \A k \in Keys : Spent(k) => k \in all \/ k[3] < Day
    BY DEF Spent
  <2> HIDE DEF all
  <2>2. QED
    BY <1>2, <1>3, <1>6, <2>1, KeyDay DEF Spent
<1>8. \A k \in fired' : k[3] <= Day'
  <2> HIDE DEF all
  <2>1. QED
    BY <1>2, <1>3, <1>4, <1>6, KeyDay
<1>9. QED
  BY <1>1, <1>3, <1>6, <1>7, <1>8, OnceGoesOn

LEMMA InitOnce == Init => OnceInv
  BY ScheduleAssumption DEF Init, Asleep, OnceInv, PastOK, SpentOK, NewOK

LEMMA NextOnce == ASSUME TypeInv, TypeInv', OnceInv, [Next]_vars PROVE OnceInv'
<1>1. CASE UNCHANGED vars \/ People \/ Obey \/ Silence
  <2>1. UNCHANGED <<sm, fired, clock, attempts, crashes>>
    BY <1>1 DEF vars, People, AskStart, PublishStart, AskStop, Edit, Obey, Silence
  <2>2. QED
    BY <2>1, BootOnce
<1>2. QED
  BY <1>1, BootOnce, CrashOnce, FetchedOnce, PublishOnce, PublishedOnce DEF Next, Loop

\* The command of a schedule is published once a day, whatever rounds overlap with its window and
\* however its row is edited, and once more for each crash of the loop: a key is forgotten only
\* when its day is past.
THEOREM CommandsOncePerDay == Spec => []OncePerDay
<1>1. TypeInv /\ OnceInv /\ [Next]_vars => (TypeInv /\ OnceInv)'
  BY NextTypes, NextOnce
<1>2. TypeInv /\ OnceInv => OncePerDay
  <2> SUFFICES ASSUME TypeInv, OnceInv, NEW k \in Keys PROVE attempts[k] <= 1 + crashes
    BY DEF OncePerDay
  <2>1. attempts[k] \in Nat /\ crashes \in Nat
    BY DEF TypeInv, CountType
  <2>2. QED
    BY <2>1 DEF OnceInv, SpentOK
<1>3. QED
  BY <1>1, <1>2, InitTypes, InitOnce, PTL DEF Spec
-----------------------------------------------------------------------------
(* What a failing round costs.                                               *)

\* Key k is of a row that fires, and that was not edited.
Fit(k) ==
    /\ k \in Keys /\ k[2] \in DOMAIN table /\ k[2] \notin touched
    /\ table[k[2]].enabled /\ k[3] \in table[k[2]].days /\ ~Soft(k[2], k[1])

\* Its window: its minute, and the next one unless the day ends there.
Minute(k) == Target(k[2], k[1], k[3])
Twice(k)  == DayOf(Minute(k) + 1) = k[3]
InWindow(k, now) == now = Minute(k) \/ (Twice(k) /\ now = Minute(k) + 1)

\* A round began in minute m, and none of m is under way.
Missed(m) == /\ m < clock \/ (m = clock /\ checked)
             /\ ~(InFlight /\ sm.now = m)

\* How many minutes of the window were used up.
Lost(k) == (IF Missed(Minute(k)) THEN 1 ELSE 0) + (IF Twice(k) /\ Missed(Minute(k) + 1) THEN 1 ELSE 0)

\* A command that is still owed: each minute of its window that was used up is a miss, as is each
\* but one up to now while a round of the window is under way, and one that got its list will fire it.
Owes(k) ==
    /\ k \notin fired /\ Lost(k) <= misses
    /\ InFlight /\ InWindow(k, sm.now) => clock <= Minute(k) + 1 + misses
    /\ Firing /\ InWindow(k, sm.now) => \E f \in sm.todo : KeyOf(f) = k

\* What waits for its answer was attempted.
ReplyOK == sm.at = "reply" => attempts[KeyOf(First)] > 0

OwedInv ==
    /\ ReplyOK
    /\ crashes = 0 => sm.at # "down" /\ \A k \in Keys : Fit(k) /\ attempts[k] = 0 => Owes(k)

LEMMA FitType ==
    ASSUME TypeInv, NEW k, Fit(k)
    PROVE  /\ k = <<k[1], k[2], k[3]>> /\ k[1] \in Kinds /\ k[3] \in Nat
           /\ At(k[2], k[1]) \in Minutes /\ Minute(k) = k[3] * DAY + At(k[2], k[1]) /\ Minute(k) \in Nat
<1>1. k = <<k[1], k[2], k[3]>> /\ k[1] \in Kinds /\ k[3] \in Nat
  BY KeyDay DEF Fit, Keys
<1>2. At(k[2], k[1]) \in Minutes
  BY <1>1, PlanType DEF Fit
<1>3. QED
  BY <1>1, <1>2, DayIsUnique DEF Minute, Target

\* A row that was not edited is as it was.
LEMMA FitStays ==
    ASSUME [Next]_vars, NEW k, Fit(k)'
    PROVE  Fit(k) /\ Minute(k)' = Minute(k)
<1>1. k[2] \in DOMAIN table /\ table'[k[2]] = table[k[2]] /\ touched \subseteq touched'
  <2>1. CASE UNCHANGED <<table, touched>>
    BY <2>1 DEF Fit
  <2>2. ASSUME NEW id \in Ids, Edit(id) PROVE k[2] \in DOMAIN table /\ table'[k[2]] = table[k[2]] /\ touched \subseteq touched'
    BY <2>2 DEF Edit, Fit, With, Restrict
  <2>3. UNCHANGED <<table, touched>> \/ \E id \in Ids : Edit(id)
    BY DEF Next, Loop, People, Boot, Crash, Check, Fetched, Publish, Published, AskStart,
           PublishStart, AskStop, Obey, Silence, Tick, vars
  <2>4. QED
    BY <2>1, <2>2, <2>3
<1>2. QED
  BY <1>1 DEF Fit, Minute, Target, At, Soft

\* A step that uses up no minute.
LEMMA OwesStays ==
    ASSUME TypeInv, TypeInv', NEW k, Fit(k), Minute(k)' = Minute(k), Owes(k), k \notin fired',
           misses <= misses', \A m \in Nat : InWindow(k, m) /\ Missed(m)' => Missed(m),
           InFlight' /\ InWindow(k, sm'.now) => clock' <= Minute(k) + 1 + misses',
           Firing' /\ InWindow(k, sm'.now) => \E f \in sm'.todo : KeyOf(f) = k
    PROVE  Owes(k)'
<1>1. Minute(k) \in Nat /\ misses \in Nat /\ misses' \in Nat
  BY FitType, ScheduleAssumption DEF TypeInv, CountType
<1>2. Twice(k)' <=> Twice(k)
  BY DEF Twice, DayOf
<1>3. Lost(k)' <= Lost(k)
  <2>1. Missed(Minute(k))' => Missed(Minute(k))
    BY <1>1 DEF InWindow, Missed
  <2>2. Twice(k) /\ Missed(Minute(k) + 1)' => Missed(Minute(k) + 1)
    BY <1>1 DEF InWindow, Missed
  <2>3. Lost(k)' = (IF Missed(Minute(k))' THEN 1 ELSE 0)
                   + (IF Twice(k)' /\ Missed(Minute(k) + 1)' THEN 1 ELSE 0)
    BY DEF Lost
  <2>4. QED
    BY <1>2, <2>1, <2>2, <2>3 DEF Lost
<1>4. Lost(k) \in Nat /\ Lost(k)' \in Nat
  BY DEF Lost
<1>5. Lost(k)' <= misses'
  BY <1>1, <1>3, <1>4 DEF Owes
<1>6. InWindow(k, sm'.now)  <=> InWindow(k, sm.now)'
  BY <1>2 DEF InWindow
<1>7. QED
  BY <1>5, <1>6 DEF Owes, KeyOf

\* A round that fails uses up its own minute, a minute without a round itself.
LEMMA OwesLess ==
    ASSUME TypeInv, TypeInv', NEW k, Fit(k), Minute(k)' = Minute(k), Owes(k), k \notin fired',
           misses' = misses + 1, NEW n, \A m \in Nat : Missed(m)' => Missed(m) \/ m = n,
           InFlight' /\ InWindow(k, sm'.now) => clock' <= Minute(k) + 1 + misses',
           Firing' /\ InWindow(k, sm'.now) => \E f \in sm'.todo : KeyOf(f) = k
    PROVE  Owes(k)'
<1>1. Minute(k) \in Nat /\ misses \in Nat /\ misses' \in Nat
  BY FitType, ScheduleAssumption DEF TypeInv, CountType
<1>2. Twice(k)' <=> Twice(k)
  BY DEF Twice, DayOf
<1> DEFINE a == Missed(Minute(k))
           b == Missed(Minute(k) + 1)
<1>3. (Missed(Minute(k))' => a \/ Minute(k) = n) /\ (Missed(Minute(k) + 1)' => b \/ Minute(k) + 1 = n)
  BY <1>1 DEF Missed
<1>4. Lost(k)' = (IF Missed(Minute(k))' THEN 1 ELSE 0)
                 + (IF Twice(k)' /\ Missed(Minute(k) + 1)' THEN 1 ELSE 0)
  BY DEF Lost
<1>5. Lost(k) = (IF a THEN 1 ELSE 0) + (IF Twice(k) /\ b THEN 1 ELSE 0)
  BY DEF Lost
<1>6. Minute(k) # Minute(k) + 1
  BY <1>1
<1> HIDE DEF a, b
<1>7. Lost(k)' <= Lost(k) + 1 /\ Lost(k) \in Nat /\ Lost(k)' \in Nat
  BY <1>2, <1>3, <1>4, <1>5, <1>6
<1>8. Lost(k)' <= misses'
  BY <1>1, <1>7 DEF Owes
<1>9. InWindow(k, sm'.now)  <=> InWindow(k, sm.now)'
  BY <1>2 DEF InWindow
<1>10. QED
  BY <1>8, <1>9 DEF Owes, KeyOf

\* The two minutes of a window are of its day.
LEMMA WindowIs ==
    ASSUME TypeInv, NEW k, Fit(k), NEW now \in Nat, InWindow(k, now)
    PROVE  DayOf(now) = k[3] /\ WithinWindow(now, At(k[2], k[1]))
<1> DEFINE x == At(k[2], k[1])
           p == k[3] * DAY
           r == MinuteOf(now)
<1>1. k[3] \in Nat /\ x \in Minutes /\ x \in Nat /\ Minute(k) = p + x /\ p \in Nat
  BY FitType, ScheduleAssumption DEF Minutes
<1>2. DayOf(now) = k[3]
  BY <1>1, DayIsUnique DEF InWindow, Twice
<1>3. now = p + r /\ r \in Nat
  <2>1. now = Today(now) + r /\ r \in Nat
    BY Division, ScheduleAssumption DEF Minutes
  <2>2. Today(now) = p
    BY <1>2 DEF Today
  <2>3. QED
    BY <2>1, <2>2
<1>4. now = Minute(k) \/ now = Minute(k) + 1
  BY DEF InWindow
<1> HIDE DEF x, p, r
<1>5. r - x \in 0 .. 1
  BY <1>1, <1>3, <1>4
<1>6. QED
  BY <1>2, <1>5 DEF WithinWindow, x, r

\* A step that the loop and the clock have no part in, and one that leaves the round as it is.
LEMMA IdleOwes ==
    ASSUME TypeInv, TypeInv', NEW k, Fit(k), Minute(k)' = Minute(k), Owes(k),
           UNCHANGED <<fired, clock, checked, misses>>, sm' = sm \/ Publish
    PROVE  Owes(k)'
<1>1. /\ sm'.now = sm.now /\ sm'.todo = sm.todo
      /\ (InFlight' <=> InFlight) /\ (Firing' <=> Firing)
  BY DEF TypeInv, LoopType, Publish, InFlight, Firing
<1>2. \A m \in Nat : Missed(m)' => Missed(m)
  BY <1>1 DEF Missed
<1>3. k \notin fired'
  BY DEF Owes
<1>4. /\ InFlight' /\ InWindow(k, sm'.now) => clock' <= Minute(k) + 1 + misses'
      /\ Firing' /\ InWindow(k, sm'.now) => \E f \in sm'.todo : KeyOf(f) = k
  BY <1>1 DEF Owes
<1>5. misses <= misses'
  BY DEF TypeInv, CountType
<1>6. QED
  BY <1>2, <1>3, <1>4, <1>5, OwesStays

LEMMA CheckOwes ==
    ASSUME TypeInv, TypeInv', NEW k, Fit(k), Minute(k)' = Minute(k), Owes(k), Check
    PROVE  Owes(k)'
<1>1. k \notin fired' /\ clock \in Nat /\ misses \in Nat /\ misses' = misses /\ Minute(k) \in Nat
  BY FitType, ScheduleAssumption DEF Check, Owes, TypeInv, ClockType, CountType
<1>2. sm'.at = "fetch" /\ sm'.now = clock /\ clock' = clock /\ ~InFlight /\ InFlight' /\ ~Firing'
  BY DEF Check, InFlight, Firing
<1>3. \A m \in Nat : Missed(m)' => Missed(m)
  BY <1>1, <1>2 DEF Missed
<1>4. InWindow(k, sm'.now) => clock' <= Minute(k) + 1 + misses'
  BY <1>1, <1>2 DEF InWindow
<1>5. misses <= misses'
  BY <1>1
<1>6. QED
  BY <1>1, <1>2, <1>3, <1>4, <1>5, OwesStays

LEMMA TickOwes ==
    ASSUME TypeInv, TypeInv', NEW k, Fit(k), Minute(k)' = Minute(k), Owes(k), sm.at # "down", Tick
    PROVE  Owes(k)'
<1>1. /\ k \notin fired' /\ clock \in Nat /\ misses \in Nat /\ Minute(k) \in Nat
      /\ sm' = sm /\ clock' = clock + 1
  BY FitType, ScheduleAssumption DEF Tick, Owes, TypeInv, ClockType, CountType
<1>2. ~checked'
  BY Zenon DEF Tick
<1>3. (InFlight' <=> InFlight) /\ (Firing' <=> Firing)
  BY <1>1 DEF InFlight, Firing
<1>4. Firing' /\ InWindow(k, sm'.now) => \E f \in sm'.todo : KeyOf(f) = k
  BY <1>1, <1>3 DEF Owes
<1>5. CASE checked
  <2>1. misses' = misses
    BY <1>5, TickIs
  <2>2. \A m \in Nat : Missed(m)' => Missed(m)
    BY <1>1, <1>2, <1>3, <1>5 DEF Missed
  <2>3. ASSUME InFlight, InWindow(k, sm.now) PROVE clock + 1 <= Minute(k) + 1 + misses
    <3>1. sm.now = clock
      BY <1>5, <2>3 DEF TypeInv, ClockType
    <3>2. CASE clock = Minute(k)
      BY <1>1, <3>2
    <3>3. CASE Twice(k) /\ clock = Minute(k) + 1
      <4>1. Missed(Minute(k))
        BY <1>1, <3>1, <3>3 DEF Missed
      <4>2. Lost(k) >= 1
        BY <4>1 DEF Lost
      <4>3. misses >= 1
        BY <1>1, <4>2 DEF Owes, Lost
      <4>4. QED
        BY <1>1, <3>3, <4>3
    <3>4. QED
      BY <2>3, <3>1, <3>2, <3>3 DEF InWindow
  <2>4. InFlight' /\ InWindow(k, sm'.now) => clock' <= Minute(k) + 1 + misses'
    BY <1>1, <1>3, <2>1, <2>3
  <2>5. misses <= misses'
    BY <1>1, <2>1
  <2>6. QED
    BY <1>1, <1>4, <2>2, <2>4, <2>5, OwesStays
<1>6. CASE ~checked
  <2>1. misses' = misses + 1
    BY <1>6, TickIs
  <2>2. \A m \in Nat : Missed(m)' => Missed(m) \/ m = clock
    BY <1>1, <1>2, <1>3 DEF Missed
  <2>3. InFlight' /\ InWindow(k, sm'.now) => clock' <= Minute(k) + 1 + misses'
    BY <1>1, <1>3, <2>1 DEF Owes
  <2>4. QED
    BY <1>1, <1>4, <2>1, <2>2, <2>3, OwesLess
<1>7. QED
  BY <1>5, <1>6

LEMMA FetchedOwes ==
    ASSUME TypeInv, TypeInv', NEW k, Fit(k), Minute(k)' = Minute(k), Owes(k), Fetched
    PROVE  Owes(k)'
<1>1. /\ sm.at = "fetch" /\ InFlight /\ ~Firing /\ sm.now \in Nat /\ sm.now \in 0 .. MaxClock
      /\ UNCHANGED <<clock, checked>>
  BY ScheduleAssumption DEF TypeInv, LoopType, ClockType, InFlight, Firing, Fetched
<1>2. k = <<k[1], k[2], k[3]>> /\ k[1] \in Kinds /\ k[2] \in DOMAIN table
  BY FitType DEF Fit
<1>3. CASE misses' = misses + 1 /\ sm' = Asleep /\ fired' = fired
  <2>1. ~Firing' /\ ~InFlight' /\ k \notin fired'
    BY <1>3 DEF Asleep, Firing, InFlight, Owes
  <2>2. \A m \in Nat : Missed(m)' => Missed(m) \/ m = sm.now
    BY <1>1, <2>1 DEF Missed
  <2>3. QED
    BY <1>3, <2>1, <2>2, OwesLess
<1>4. ASSUME misses' = misses,
             \/ /\ Due(sm.now) = {} /\ sm' = Asleep
                /\ fired' = Pruned(fired \cup Noted(sm.now), sm.now)
             \/ /\ sm'.at = "publish" /\ sm'.now = sm.now /\ sm'.todo = Due(sm.now)
                /\ fired' = fired \cup Noted(sm.now)
      PROVE  Owes(k)'
  <2>1. k \notin fired'
    <3>1. k \notin fired /\ ~Soft(k[2], k[1])
      BY DEF Owes, Fit
    <3>2. k \notin Noted(sm.now)
      BY <3>1 DEF Noted
    <3>3. QED
      BY <1>4, <3>1, <3>2 DEF Pruned
  <2>2. InWindow(k, sm.now) => \E f \in Due(sm.now) : KeyOf(f) = k
    <3> SUFFICES ASSUME InWindow(k, sm.now) PROVE \E f \in Due(sm.now) : KeyOf(f) = k
      OBVIOUS
    <3>1. DayOf(sm.now) = k[3] /\ WithinWindow(sm.now, At(k[2], k[1]))
      BY <1>1, WindowIs
    <3>2. IsDue(k[2], k[1], sm.now)
      BY <1>2, <3>1 DEF IsDue, Fit, Owes
    <3> DEFINE f == [kind |-> k[1], id |-> k[2], due |-> Today(sm.now) + At(k[2], k[1])]
               r == <<k[1], k[2]>>
    <3>3. r \in Kinds \X DOMAIN table /\ r[1] = k[1] /\ r[2] = k[2] /\ ~Soft(r[2], r[1])
      BY <1>2 DEF Fit
    <3>4. f = [kind |-> r[1], id |-> r[2], due |-> Today(sm.now) + At(r[2], r[1])]
      BY <3>3
    <3>5. f.kind = k[1] /\ f.id = k[2]
      OBVIOUS
    <3> HIDE DEF f, r
    <3>6. f \in Due(sm.now)
      BY <3>2, <3>3, <3>4 DEF Due
    <3>7. DayOf(f.due) = DayOf(sm.now)
      BY <1>1, <3>6, DueIs
    <3>8. KeyOf(f) = k
      BY <1>2, <3>1, <3>5, <3>7 DEF KeyOf
    <3>9. QED
      BY <3>6, <3>8
  <2>3. \A m \in Nat : InWindow(k, m) /\ Missed(m)' => Missed(m)
    <3>1. CASE sm' = Asleep
      <4>1. ~InWindow(k, sm.now)
        <5>1. CASE Due(sm.now) = {}
          BY <2>2, <5>1
        <5>2. CASE sm'.at = "publish"
          BY <3>1, <5>2 DEF Asleep
        <5>3. QED
          BY <1>4, <5>1, <5>2
      <4>2. QED
        BY <1>1, <4>1 DEF Missed
    <3>2. CASE sm'.at = "publish" /\ sm'.now = sm.now
      BY <1>1, <3>2 DEF Missed, InFlight
    <3>3. QED
      BY <1>4, <3>1, <3>2
  <2>4. Firing' /\ InWindow(k, sm'.now) => \E f \in sm'.todo : KeyOf(f) = k
    BY <1>4, <2>2 DEF Firing, Asleep
  <2>5. misses <= misses'
    BY <1>4 DEF TypeInv, CountType
  <2>6. InFlight' /\ InWindow(k, sm'.now) => clock' <= Minute(k) + 1 + misses'
    <3>1. InFlight' => sm'.now = sm.now
      BY <1>4 DEF InFlight, Asleep
    <3>2. QED
      BY <1>1, <1>4, <3>1 DEF Owes
  <2>7. QED
    BY <2>1, <2>3, <2>4, <2>5, <2>6, OwesStays
<1>5. QED
  BY <1>3, <1>4 DEF Fetched, Fault, TypeInv, LoopType

LEMMA PublishedOwes ==
    ASSUME TypeInv, TypeInv', ReplyOK, NEW k, Fit(k), Minute(k)' = Minute(k), Owes(k),
           attempts[k] = 0, Published
    PROVE  Owes(k)'
<1>1. /\ sm.at = "reply" /\ InFlight /\ Firing /\ UNCHANGED <<clock, checked, misses>>
      /\ \/ /\ sm.todo = {First} /\ sm' = Asleep
            /\ fired' = Pruned(fired \cup {KeyOf(First)}, sm.now)
         \/ /\ sm'.at = "publish" /\ sm'.now = sm.now /\ sm'.todo = sm.todo \ {First}
            /\ fired' = fired \cup {KeyOf(First)}
  BY DEF TypeInv, LoopType, Published, InFlight, Firing
<1>2. k # KeyOf(First)
  BY <1>1 DEF ReplyOK
<1>3. k \notin fired'
  BY <1>1, <1>2 DEF Owes, Pruned
<1>4. InWindow(k, sm.now) => \E f \in sm.todo \ {First} : KeyOf(f) = k
  BY <1>1, <1>2 DEF Owes
<1>5. \A m \in Nat : InWindow(k, m) /\ Missed(m)' => Missed(m)
  <2>1. CASE sm' = Asleep /\ sm.todo = {First}
    BY <1>1, <1>4, <2>1 DEF Missed
  <2>2. CASE sm'.at = "publish" /\ sm'.now = sm.now
    BY <1>1, <2>2 DEF Missed, InFlight
  <2>3. QED
    BY <1>1, <2>1, <2>2
<1>6. Firing' /\ InWindow(k, sm'.now) => \E f \in sm'.todo : KeyOf(f) = k
  BY <1>1, <1>4 DEF Firing, Asleep
<1>7. misses <= misses'
  BY <1>1 DEF TypeInv, CountType
<1>8. InFlight' /\ InWindow(k, sm'.now) => clock' <= Minute(k) + 1 + misses'
  <2>1. InFlight' => sm'.now = sm.now
    BY <1>1 DEF InFlight, Asleep
  <2>2. QED
    BY <1>1, <2>1 DEF Owes
<1>9. QED
  BY <1>3, <1>5, <1>6, <1>7, <1>8, OwesStays

LEMMA FetchedAt == ASSUME TypeInv, Fetched PROVE sm'.at \in {"sleep", "publish"}
<1>1. \/ sm' = Asleep
      \/ sm' = [sm EXCEPT !.at = "publish", !.todo = Due(sm.now)]
  BY DEF Fetched
<1> DEFINE todo == Due(sm.now)
<1>2. CASE sm' = Asleep
  BY <1>2 DEF Asleep
<1>3. CASE sm' = [sm EXCEPT !.at = "publish", !.todo = todo]
  <2> HIDE DEF todo
  <2>1. QED
    BY <1>3 DEF TypeInv, LoopType
<1>4. QED
  BY <1>1, <1>2, <1>3

LEMMA PublishedAt == ASSUME TypeInv, Published PROVE sm'.at \in {"sleep", "publish"}
<1> DEFINE todo == sm.todo \ {First}
<1>1. sm' = Asleep \/ sm' = [sm EXCEPT !.at = "publish", !.todo = todo]
  BY DEF Published
<1> HIDE DEF todo
<1>2. sm.at \in {"publish", "reply"} /\ sm \in [at : {"down", "sleep", "fetch", "publish", "reply"}, now : Nat,
                                                todo : SUBSET Fires]
  BY DEF TypeInv, LoopType, Published
<1>3. sm' = Asleep \/ sm'.at = "publish"
  BY <1>1, <1>2
<1>4. QED
  BY <1>3 DEF Asleep

LEMMA ReplyNext == ASSUME TypeInv, TypeInv', ReplyOK, [Next]_vars PROVE ReplyOK'
<1>1. CASE Publish
  <2>1. Firing /\ sm'.todo = sm.todo /\ attempts' = [attempts EXCEPT ![KeyOf(First)] = @ + 1]
    BY <1>1 DEF Publish, Firing
  <2>2. KeyOf(First) \in Keys /\ attempts \in [Keys -> Nat]
    BY <2>1, FirstIs, KeyIs DEF TypeInv, CountType
  <2>3. KeyOf(First') = KeyOf(First)
    BY <2>1 DEF First, Before
  <2>4. KeyOf(First)' = KeyOf(First')
    BY DEF KeyOf
  <2>5. QED
    BY <2>1, <2>2, <2>3, <2>4 DEF ReplyOK
<1>2. CASE sm' = sm /\ attempts' = attempts
  <2>1. First' = First
    BY <1>2 DEF First, Before
  <2>2. KeyOf(First)' = KeyOf(First)
    BY <2>1 DEF KeyOf
  <2>3. QED
    BY <1>2, <2>2 DEF ReplyOK
<1>3. CASE Boot \/ Crash \/ Check \/ Fetched \/ Published
  <2>1. ASSUME Boot \/ Crash \/ Check PROVE sm'.at # "reply"
    BY <2>1 DEF Boot, Crash, Check, Asleep
  <2>2. ASSUME Fetched \/ Published PROVE sm'.at # "reply"
    BY <2>2, FetchedAt, PublishedAt
  <2>3. sm'.at # "reply"
    BY <1>3, <2>1, <2>2
  <2>4. QED
    BY <2>3 DEF ReplyOK
<1>4. UNCHANGED <<sm, attempts>> \/ Publish \/ Boot \/ Crash \/ Check \/ Fetched \/ Published
  BY DEF Next, Loop, People, AskStart, PublishStart, AskStop, Edit, Obey, Silence, Tick, vars
<1>5. QED
  BY <1>1, <1>2, <1>3, <1>4

LEMMA NextOwed == ASSUME TypeInv, TypeInv', OwedInv, [Next]_vars PROVE OwedInv'
<1>1. ReplyOK'
  BY ReplyNext DEF OwedInv
<1> SUFFICES ASSUME crashes' = 0
             PROVE  sm'.at # "down" /\ \A k \in Keys : (Fit(k) /\ attempts[k] = 0)' => Owes(k)'
  BY <1>1 DEF OwedInv
<1>2. /\ crashes \in Nat /\ attempts \in [Keys -> Nat] /\ attempts' \in [Keys -> Nat]
  BY DEF TypeInv, CountType
<1>3. ~Crash
  BY <1>2 DEF Crash
<1>4. crashes = 0 /\ ~Boot /\ sm.at # "down" /\ sm'.at # "down"
  <2>1. crashes = 0
    BY <1>3 DEF Next, Loop, People, Boot, Check, Fetched, Publish, Published, AskStart,
           PublishStart, AskStop, Edit, Obey, Silence, Tick, vars
  <2>2. sm.at # "down"
    BY <2>1 DEF OwedInv
  <2>3. ~Boot
    BY <2>2 DEF Boot
  <2>4. sm'.at # "down"
    <3>1. sm' = sm \/ Check \/ Fetched \/ Publish \/ Published
      BY <1>3, <2>3 DEF Next, Loop, People, AskStart, PublishStart, AskStop, Edit, Obey, Silence,
             Tick, vars
    <3>2. ASSUME Check \/ Publish PROVE sm'.at # "down"
      BY <3>2 DEF TypeInv, LoopType, Check, Publish
    <3>3. QED
      BY <2>2, <3>1, <3>2, FetchedAt, PublishedAt
  <2>5. QED
    BY <2>1, <2>2, <2>3, <2>4
<1>5. ASSUME NEW k \in Keys, Fit(k)', attempts'[k] = 0 PROVE Owes(k)'
  <2>1. Fit(k) /\ Minute(k)' = Minute(k)
    BY <1>5, FitStays
  <2>2. attempts[k] = 0
    <3>1. CASE attempts' = attempts
      BY <1>5, <3>1
    <3>2. CASE Publish
      <4> DEFINE key == KeyOf(First)
      <4>1. attempts' = [attempts EXCEPT ![key] = @ + 1]
        BY <3>2 DEF Publish
      <4> HIDE DEF key
      <4>2. attempts'[k] = attempts[k] \/ attempts'[k] = attempts[k] + 1
        BY <1>2, <4>1
      <4>3. attempts[k] \in Nat
        BY <1>2
      <4>4. QED
        BY <1>5, <4>2, <4>3
    <3>3. attempts' = attempts \/ Publish
      BY <1>3 DEF Next, Loop, People, Boot, Check, Fetched, Published, AskStart,
           PublishStart, AskStop, Edit, Obey, Silence, Tick, vars
    <3>4. QED
      BY <3>1, <3>2, <3>3
  <2>3. Owes(k) /\ ReplyOK
    BY <1>4, <2>1, <2>2 DEF OwedInv
  <2>4. CASE Check \/ Tick
    BY <1>4, <2>1, <2>3, <2>4, CheckOwes, TickOwes
  <2>5. CASE Fetched
    BY <2>1, <2>3, <2>5, FetchedOwes
  <2>6. CASE Published
    BY <2>1, <2>2, <2>3, <2>6, PublishedOwes
  <2>7. CASE UNCHANGED vars \/ People \/ Obey \/ Silence \/ Publish
    <3>1. UNCHANGED <<fired, clock, checked, misses>> /\ (sm' = sm \/ Publish)
      BY <2>7 DEF vars, People, AskStart, PublishStart, AskStop, Edit, Obey, Silence, Publish
    <3>2. QED
      BY <2>1, <2>3, <3>1, IdleOwes
  <2>8. QED
    BY <1>3, <1>4, <2>4, <2>5, <2>6, <2>7 DEF Next, Loop
<1>6. QED
  BY <1>4, <1>5

LEMMA InitOwed == Init => OwedInv
<1> SUFFICES ASSUME Init PROVE OwedInv
  OBVIOUS
<1>1. TypeInv /\ sm = Asleep /\ fired = {} /\ clock = 0 /\ misses = 0
  BY InitTypes DEF Init
<1>2. ~checked
  BY Zenon DEF Init
<1>3. ASSUME NEW k, Fit(k) PROVE Owes(k)
  <2>1. Minute(k) \in Nat
    BY <1>1, <1>3, FitType
  <2>2. ~Missed(Minute(k)) /\ ~Missed(Minute(k) + 1)
    BY <1>1, <1>2, <2>1 DEF Missed
  <2>3. Lost(k) = 0
    BY <2>2 DEF Lost
  <2>4. QED
    BY <1>1, <2>3 DEF Owes, Firing, InFlight, Asleep
<1>4. QED
  BY <1>1, <1>3 DEF OwedInv, ReplyOK, Asleep

\* What is owed when the window is past.
LEMMA OwedIsFired ==
    ASSUME TypeInv, OwedInv, crashes = 0, NEW k, Fit(k), clock > Minute(k) + 2,
           misses <= (IF At(k[2], k[1]) = DAY - 1 THEN 0 ELSE 1)
    PROVE  attempts[k] > 0
<1> SUFFICES ASSUME attempts[k] = 0 PROVE FALSE
  BY DEF TypeInv, CountType, Fit
<1>1. Owes(k)
  BY DEF OwedInv, Fit
<1>2. /\ Minute(k) \in Nat /\ k[3] \in Nat /\ At(k[2], k[1]) \in Minutes
      /\ Minute(k) = k[3] * DAY + At(k[2], k[1])
  BY FitType
<1>3. clock \in Nat /\ misses \in Nat
  BY ScheduleAssumption DEF TypeInv, ClockType, CountType
<1>4. Missed(Minute(k)) /\ (Twice(k) => Missed(Minute(k) + 1))
  <2>1. ~(InFlight /\ InWindow(k, sm.now))
    BY <1>1, <1>2, <1>3 DEF Owes
  <2>2. QED
    BY <1>2, <1>3, <2>1 DEF Missed, InWindow
<1>5. At(k[2], k[1]) # DAY - 1 => Twice(k)
  <2> SUFFICES ASSUME At(k[2], k[1]) # DAY - 1 PROVE Twice(k)
    OBVIOUS
  <2>1. At(k[2], k[1]) + 1 \in Minutes
    BY <1>2, ScheduleAssumption DEF Minutes
  <2> DEFINE p == k[3] * DAY
             x == At(k[2], k[1])
  <2>2. DayOf(p + (x + 1)) = k[3]
    BY <1>2, <2>1, DayIsUnique
  <2>3. p \in Nat /\ x \in Nat /\ Minute(k) = p + x
    BY <1>2, ScheduleAssumption DEF Minutes
  <2> HIDE DEF p, x
  <2>4. Minute(k) + 1 = p + (x + 1)
    BY <2>3
  <2>5. QED
    BY <2>2, <2>4 DEF Twice
<1>6. QED
  BY <1>1, <1>3, <1>4, <1>5 DEF Owes, Lost

\* One round that fails or takes more than a minute costs no scheduled command: each minute without
\* a round is a miss, so one of the two minutes of its window fires it, and only the last minute of a
\* day has no second.  Its own publish is the one call whose failure does.
THEOREM CommandsFired == Spec => []DueFired
<1>1. TypeInv /\ OwedInv /\ [Next]_vars => (TypeInv /\ OwedInv)'
  BY NextTypes, NextOwed
<1>2. TypeInv /\ OwedInv => DueFired
  <2> SUFFICES ASSUME TypeInv, OwedInv, NEW id \in DOMAIN table, NEW kind \in Kinds, NEW day \in Days,
                      id \notin touched, crashes = 0, table[id].enabled, day \in table[id].days,
                      ~Soft(id, kind), clock > Target(id, kind, day) + 2,
                      misses <= (IF At(id, kind) = DAY - 1 THEN 0 ELSE 1)
               PROVE  attempts[<<kind, id, day>>] > 0
    BY DEF DueFired
  <2> DEFINE k == <<kind, id, day>>
  <2>1. k \in Keys /\ k[1] = kind /\ k[2] = id /\ k[3] = day
    BY PlanType DEF Keys
  <2> HIDE DEF k
  <2>2. Fit(k) /\ clock > Minute(k) + 2 /\ misses <= (IF At(k[2], k[1]) = DAY - 1 THEN 0 ELSE 1)
    BY <2>1 DEF Fit, Minute
  <2>3. attempts[k] > 0
    BY <2>2, OwedIsFired
  <2>4. QED
    BY <2>3 DEF k
<1>3. QED
  BY <1>1, <1>2, InitTypes, InitOwed, PTL DEF Spec
-----------------------------------------------------------------------------
(* The order of the commands of a row.                                       *)

\* What a round has to fire is as the table says.
Planned(f) ==
    /\ f.id \in DOMAIN table /\ table[f.id].enabled /\ DayOf(f.due) \in table[f.id].days
    /\ f.due = Target(f.id, f.kind, DayOf(f.due))

PlannedOK == \A f \in sm.todo : f.id \notin touched => Planned(f)

\* The minute of the round, or of the next one.
Round == IF InFlight THEN sm.now ELSE clock

\* A row that starts before it stops, and was not edited.
Ordered(id) == id \in DOMAIN table /\ id \notin touched /\ table[id].start < table[id].stop

\* When its stop was published so was its start, or it is too late for a round to fire the start.
OrderOK ==
    crashes = 0 => \A id, day :
        /\ Ordered(id) /\ day \in Days /\ attempts[<<"stop", id, day>>] > 0
        => attempts[<<"start", id, day>>] > 0 \/ Round > Target(id, "start", day) + 1

OrderInv == PlannedOK /\ OrderOK

LEMMA TargetIs ==
    ASSUME TypeInv, NEW id \in DOMAIN table, NEW kind \in Kinds, NEW day \in Days
    PROVE  /\ Target(id, kind, day) \in Nat /\ Target(id, kind, day) = day * DAY + At(id, kind)
           /\ At(id, kind) \in Nat /\ At(id, kind) < DAY /\ day \in Nat /\ day * DAY \in Nat
<1>1. day \in Nat
  BY Division, ScheduleAssumption DEF Days
<1>2. At(id, kind) \in Minutes
  BY PlanType
<1>3. day * DAY + At(id, kind) \in Nat /\ DAY \in Nat
  BY <1>1, <1>2, DayIsUnique, ScheduleAssumption
<1>4. day * DAY \in Nat
  <2> DEFINE D == DAY
  <2>1. D \in Nat
    BY ScheduleAssumption
  <2> HIDE DEF D
  <2>2. day * D \in Nat
    BY <1>1, <2>1
  <2>3. QED
    BY <2>2 DEF D
<1>5. QED
  BY <1>1, <1>2, <1>3, <1>4, ScheduleAssumption DEF Target, Minutes

\* A row that was not edited is as it was.
LEMMA RowStays ==
    ASSUME [Next]_vars, NEW id, id \notin touched'
    PROVE  /\ id \notin touched /\ (id \in DOMAIN table' <=> id \in DOMAIN table)
           /\ id \in DOMAIN table => table'[id] = table[id]
<1>1. CASE UNCHANGED <<table, touched>>
  BY <1>1
<1>2. ASSUME NEW other \in Ids, Edit(other)
      PROVE  /\ id \notin touched /\ (id \in DOMAIN table' <=> id \in DOMAIN table)
             /\ id \in DOMAIN table => table'[id] = table[id]
  BY <1>2 DEF Edit, With, Restrict
<1>3. UNCHANGED <<table, touched>> \/ \E other \in Ids : Edit(other)
  BY DEF Next, Loop, People, Boot, Crash, Check, Fetched, Publish, Published, AskStart,
         PublishStart, AskStop, Obey, Silence, Tick, vars
<1>4. QED
  BY <1>1, <1>2, <1>3

\* What a round has to fire after a step, it had before or it fetched.
LEMMA TodoNext ==
    ASSUME TypeInv, [Next]_vars PROVE sm'.todo \subseteq sm.todo \/ (Fetched /\ sm'.todo = Due(sm.now))
<1>1. CASE Fetched
  <2>1. sm' = Asleep \/ sm'.todo = Due(sm.now)
    BY <1>1 DEF Fetched, TypeInv, LoopType
  <2>2. QED
    BY <1>1, <2>1 DEF Asleep
<1>2. CASE Published
  <2> DEFINE todo == sm.todo \ {First}
  <2>1. sm' = Asleep \/ sm' = [sm EXCEPT !.at = "publish", !.todo = todo]
    BY <1>2 DEF Published
  <2>2. sm \in [at : {"down", "sleep", "fetch", "publish", "reply"}, now : Nat, todo : SUBSET Fires]
    BY DEF TypeInv, LoopType
  <2>3. todo \subseteq sm.todo
    OBVIOUS
  <2> HIDE DEF todo
  <2>4. sm' = Asleep => sm'.todo = {}
    BY DEF Asleep
  <2>5. QED
    BY <2>1, <2>2, <2>3, <2>4
<1>3. CASE sm' = sm \/ Boot \/ Crash \/ Check \/ Publish
  BY <1>3 DEF Boot, Crash, Check, Publish, Asleep, TypeInv, LoopType
<1>4. QED
  BY <1>1, <1>2, <1>3 DEF Next, Loop, People, Edit, AskStart, PublishStart, AskStop, Obey, Silence,
     Tick, vars

LEMMA PlannedNext == ASSUME TypeInv, PlannedOK, [Next]_vars PROVE PlannedOK'
<1> SUFFICES ASSUME NEW f \in sm'.todo, f.id \notin touched' PROVE Planned(f)'
  BY DEF PlannedOK
<1>1. f.id \notin touched /\ (f.id \in DOMAIN table => f.id \in DOMAIN table' /\ table'[f.id] = table[f.id])
  BY RowStays
<1>2. Planned(f)
  <2>1. CASE f \in sm.todo
    BY <1>1, <2>1 DEF PlannedOK
  <2>2. CASE Fetched /\ sm'.todo = Due(sm.now)
    <3>1. sm.now \in 0 .. MaxClock
      BY <2>2, ScheduleAssumption DEF TypeInv, LoopType, ClockType, InFlight, Fetched
    <3>2. \A g \in Due(sm.now) : Planned(g)
      BY <3>1, DueIs DEF Planned, IsDue
    <3>3. QED
      BY <2>2, <3>2
  <2>3. QED
    BY <2>1, <2>2, TodoNext
<1>3. QED
  BY <1>1, <1>2 DEF Planned, Target, At, DayOf

LEMMA RoundNext == ASSUME TypeInv, [Next]_vars PROVE Round <= Round' /\ Round \in Nat /\ Round' \in Nat
<1>1. clock \in Nat /\ clock' \in Nat /\ clock <= clock' /\ Round \in Nat /\ Round <= clock
  <2>1. clock \in Nat /\ Round \in Nat /\ Round <= clock
    BY ScheduleAssumption DEF TypeInv, ClockType, LoopType, Round
  <2>2. clock' = clock \/ Tick
    BY DEF Next, Loop, People, Boot, Crash, Check, Fetched, Publish, Published, AskStart, Edit,
           PublishStart, AskStop, Obey, Silence, vars
  <2>3. QED
    BY <2>1, <2>2, TickIs
<1>2. Round' = clock' \/ Round' = Round
  <2>1. CASE Fetched
    <3>1. clock' = clock /\ (sm' = Asleep \/ sm' = [sm EXCEPT !.at = "publish", !.todo = Due(sm.now)])
      BY <2>1 DEF Fetched
    <3> DEFINE todo == Due(sm.now)
    <3>2. sm' = Asleep \/ sm' = [sm EXCEPT !.at = "publish", !.todo = todo]
      BY <3>1
    <3> HIDE DEF todo
    <3>3. sm' = Asleep \/ (sm'.at = "publish" /\ sm'.now = sm.now)
      BY <3>2 DEF TypeInv, LoopType
    <3>4. InFlight
      BY <2>1 DEF Fetched, InFlight
    <3>5. QED
      BY <3>1, <3>3, <3>4 DEF Round, InFlight, Asleep
  <2>2. CASE Published
    <3>1. clock' = clock /\ (sm' = Asleep \/ sm' = [sm EXCEPT !.at = "publish", !.todo = @ \ {First}])
      BY <2>2 DEF Published
    <3>2. sm' = Asleep \/ (sm'.at = "publish" /\ sm'.now = sm.now)
      BY <3>1 DEF TypeInv, LoopType
    <3>3. InFlight
      BY <2>2 DEF Published, InFlight
    <3>4. QED
      BY <3>1, <3>2, <3>3 DEF Round, InFlight, Asleep
  <2>3. CASE Publish
    BY <2>3 DEF Publish, Round, InFlight, TypeInv, LoopType
  <2>4. CASE Boot \/ Crash \/ Check
    BY <2>4 DEF Boot, Crash, Check, Asleep, Round, InFlight
  <2>5. CASE sm' = sm
    BY <2>5 DEF Round, InFlight
  <2>6. QED
    BY <2>1, <2>2, <2>3, <2>4, <2>5 DEF Next, Loop, People, Edit, AskStart, PublishStart, AskStop,
       Obey, Silence, Tick, vars
<1>3. QED
  BY <1>1, <1>2

\* A stop that is published with its start still to come would be one that the start comes before.
LEMMA StopComesLast ==
    ASSUME TypeInv, OwedInv, PlannedOK, crashes = 0, sm.at = "publish", NEW id, Ordered(id),
           First.kind = "stop", First.id = id, NEW day, day = DayOf(First.due)
    PROVE  attempts[<<"start", id, day>>] > 0 \/ sm.now > Target(id, "start", day) + 1
<1> DEFINE f == First
           k == <<"start", id, day>>
           start == Target(id, "start", day)
           stop  == Target(id, "stop", day)
<1>1. Firing /\ InFlight /\ f \in sm.todo /\ (\A g \in sm.todo : Before(f, g))
  BY FirstComes DEF Firing, InFlight
<1>2. Planned(f) /\ id \in DOMAIN table /\ id \in Ids
  BY <1>1, PlanType DEF PlannedOK, Ordered, Kinds
<1>3. day \in Days /\ day = DayOf(sm.now) /\ sm.now \in Nat /\ f.due = stop /\ sm.now - f.due \in 0 .. 1
  <2>1. KeyOf(f) \in Keys /\ DayOf(f.due) = DayOf(sm.now)
    BY <1>1, KeyIs DEF TypeInv, TodoType
  <2>2. day \in Days
    BY <2>1 DEF KeyOf, Keys
  <2>3. QED
    BY <1>1, <1>2, <2>1, <2>2 DEF TypeInv, TodoType, LoopType, Planned
<1>4. start \in Nat /\ stop \in Nat /\ start < stop
  <2> DEFINE p == day * DAY
             a == At(id, "start")
             b == At(id, "stop")
  <2>1. p \in Nat /\ a \in Nat /\ b \in Nat /\ start = p + a /\ stop = p + b
    BY <1>2, <1>3, TargetIs DEF Kinds
  <2>2. a < b
    BY DEF Ordered, At
  <2> HIDE DEF p, a, b, start, stop
  <2>3. QED
    BY <2>1, <2>2
<1>5. k \in Keys /\ k[1] = "start" /\ k[2] = id /\ k[3] = day
  BY <1>2, <1>3 DEF Keys, Kinds
<1>6. Minute(k) = start
  BY <1>5 DEF Minute
<1>7. Fit(k)
  <2>1. table[id].enabled /\ day \in table[id].days
    BY <1>2 DEF Planned
  <2>2. ~Soft(id, "start")
    BY DEF Soft
  <2>3. id \notin touched
    BY DEF Ordered
  <2> HIDE DEF k
  <2>4. QED
    BY <1>2, <1>5, <2>1, <2>2, <2>3 DEF Fit
<1> HIDE DEF k
<1>8. SUFFICES ASSUME attempts[k] = 0, ~(sm.now > start + 1) PROVE FALSE
  <2>1. attempts[k] \in Nat
    BY <1>5 DEF TypeInv, CountType
  <2>2. attempts[k] > 0 \/ attempts[k] = 0
    BY <2>1
  <2>3. attempts[k] > 0 \/ sm.now > start + 1
    BY <1>8, <2>2
  <2>4. QED
    BY <2>3 DEF k
<1> HIDE DEF start, stop
<1>9. sm.now = start + 1
  BY <1>3, <1>4, <1>8
<1>10. InWindow(k, sm.now)
  BY <1>3, <1>5, <1>6, <1>9 DEF InWindow, Twice
<1>11. Owes(k)
  BY <1>5, <1>7, <1>8 DEF OwedInv
<1>12. PICK g \in sm.todo : KeyOf(g) = k
  BY <1>1, <1>10, <1>11 DEF Owes
<1>13. g.kind = "start" /\ g.id = id
  BY <1>12 DEF KeyOf, k
<1>14. ~(id < id)
  BY <1>2, ScheduleAssumption
<1>15. QED
  BY <1>1, <1>12, <1>13, <1>14 DEF Before

LEMMA OrderNext ==
    ASSUME TypeInv, OwedInv, OrderInv, [Next]_vars PROVE OrderInv'
<1>1. PlannedOK'
  BY PlannedNext DEF OrderInv
<1> SUFFICES ASSUME crashes' = 0, NEW id, NEW day, Ordered(id)', day \in Days,
                    attempts'[<<"stop", id, day>>] > 0
             PROVE  attempts'[<<"start", id, day>>] > 0 \/ Round' > Target(id, "start", day)' + 1
  BY <1>1 DEF OrderInv, OrderOK
<1> DEFINE a == <<"start", id, day>>
           z == <<"stop", id, day>>
           t == Target(id, "start", day)
<1>2. Ordered(id) /\ Target(id, "start", day)' = t
  BY RowStays DEF Ordered, Target, At
<1>3. t \in Nat /\ a \in Keys /\ z \in Keys
  BY <1>2, TargetIs, PlanType DEF Ordered, Keys, Kinds
<1>4. Round <= Round' /\ Round \in Nat /\ Round' \in Nat
  BY RoundNext
<1>5. crashes = 0
  <2>1. crashes \in Nat
    BY DEF TypeInv, CountType
  <2>2. crashes' = crashes \/ crashes' = crashes + 1
    BY DEF Next, Loop, People, Boot, Crash, Check, Fetched, Publish, Published, AskStart, Edit,
           PublishStart, AskStop, Obey, Silence, Tick, vars
  <2>3. QED
    BY <2>1, <2>2
<1>6. attempts[z] > 0 => attempts[a] > 0 \/ Round > t + 1
  BY <1>2, <1>5 DEF OrderInv, OrderOK
<1>7. CASE attempts' = attempts
  <2> HIDE DEF a, z, t
  <2>1. attempts[z] > 0
    BY <1>7 DEF z
  <2>2. attempts[a] > 0 \/ Round' > t + 1
    BY <1>3, <1>4, <1>6, <2>1
  <2>3. QED
    BY <1>2, <1>7, <2>2 DEF a
<1>8. CASE Publish
  <2> DEFINE key == KeyOf(First)
  <2>1. sm.at = "publish" /\ attempts' = [attempts EXCEPT ![key] = @ + 1]
    BY <1>8 DEF Publish
  <2>2. Firing /\ InFlight
    BY <2>1 DEF Firing, InFlight
  <2>3. key \in Keys /\ attempts \in [Keys -> Nat]
    BY <2>2, FirstIs, KeyIs DEF TypeInv, CountType
  <2>4. Round = sm.now
    BY <2>2 DEF Round
  <2>5. key = z => attempts[a] > 0 \/ Round > t + 1
    <3> SUFFICES ASSUME key = z PROVE attempts[a] > 0 \/ Round > t + 1
      OBVIOUS
    <3>1. First.kind = "stop" /\ First.id = id /\ day = DayOf(First.due)
      BY DEF KeyOf
    <3>2. QED
      BY <1>2, <1>5, <2>1, <2>4, <3>1, StopComesLast DEF OrderInv
  <2> HIDE DEF a, z, t, key
  <2>6. attempts'[a] >= attempts[a] /\ (key # z => attempts'[z] = attempts[z]) /\ attempts[a] \in Nat
        /\ attempts'[a] \in Nat
    BY <1>3, <2>1, <2>3
  <2>7. attempts'[z] > 0
    BY DEF z
  <2>8. attempts'[a] > 0 \/ Round' > t + 1
    BY <1>3, <1>4, <1>6, <2>5, <2>6, <2>7
  <2>9. QED
    BY <1>2, <2>8 DEF a
<1>9. attempts' = attempts \/ Publish
  BY DEF Next, Loop, People, Boot, Crash, Check, Fetched, Published, AskStart, Edit,
         PublishStart, AskStop, Obey, Silence, Tick, vars
<1>10. QED
  BY <1>7, <1>8, <1>9

LEMMA InitOrder == Init => OrderInv
<1> SUFFICES ASSUME Init PROVE OrderInv
  OBVIOUS
<1>1. TypeInv /\ sm.todo = {} /\ attempts = [k \in Keys |-> 0]
  BY InitTypes DEF Init, Asleep
<1>2. ASSUME NEW id, NEW day, Ordered(id), day \in Days PROVE ~(attempts[<<"stop", id, day>>] > 0)
  <2>1. <<"stop", id, day>> \in Keys
    BY <1>1, <1>2, PlanType DEF Ordered, Keys, Kinds
  <2>2. QED
    BY <1>1, <2>1
<1>3. QED
  BY <1>1, <1>2 DEF OrderInv, PlannedOK, OrderOK

\* The start of a row is not published after its stop, by which its session would go on: also when
\* both are due at once, when the minute of the start had no round, and however long a round takes.
THEOREM StartsFirst == Spec => StartsComeFirst
<1>1. TypeInv /\ OnceInv /\ OwedInv /\ OrderInv /\ [Next]_vars
      => (TypeInv /\ OnceInv /\ OwedInv /\ OrderInv)'
  BY NextTypes, NextOnce, NextOwed, OrderNext
<1>2. ASSUME TypeInv, OnceInv, OrderInv, [Next]_vars, NEW id \in DOMAIN table, NEW day \in Days,
             id \notin touched, crashes = 0, table[id].start < table[id].stop,
             attempts'[<<"start", id, day>>] # attempts[<<"start", id, day>>]
      PROVE  attempts[<<"stop", id, day>>] = 0
  <2> DEFINE a == <<"start", id, day>>
             z == <<"stop", id, day>>
             t == Target(id, "start", day)
             key == KeyOf(First)
  <2>1. a \in Keys /\ z \in Keys /\ attempts \in [Keys -> Nat] /\ t \in Nat
    BY <1>2, PlanType, TargetIs DEF Keys, Kinds, TypeInv, CountType
  <2>2. Publish
    BY <1>2 DEF Next, Loop, People, Boot, Crash, Check, Fetched, Published, AskStart, Edit,
                PublishStart, AskStop, Obey, Silence, Tick, vars
  <2>3. sm.at = "publish" /\ Firing /\ InFlight /\ attempts' = [attempts EXCEPT ![key] = @ + 1]
    BY <2>2 DEF Publish, Firing, InFlight
  <2>4. key = a
    <3> HIDE DEF a, key
    <3>1. attempts'[a] # attempts[a]
      BY <1>2 DEF a
    <3>2. QED
      BY <2>1, <2>3, <3>1
  <2>5. First \in sm.todo /\ First.kind = "start" /\ First.id = id /\ DayOf(First.due) = day
    BY <1>2, <2>3, <2>4, FirstIs DEF KeyOf
  <2>6. Planned(First)
    BY <1>2, <2>5 DEF OrderInv, PlannedOK
  <2>7. ~(Round > t + 1)
    <3>1. First.due = t /\ Round = sm.now
      BY <2>3, <2>5, <2>6 DEF Planned, Round
    <3>2. sm.now - First.due \in 0 .. 1 /\ sm.now \in Nat
      BY <1>2, <2>5 DEF TypeInv, TodoType, LoopType
    <3> HIDE DEF t
    <3>3. QED
      BY <2>1, <3>1, <3>2
  <2>8. attempts[a] = 0
    <3>1. KeyOf(First) \notin fired /\ KeyOf(First)[3] = DayOf(sm.now)
      BY <1>2, <2>5, KeyIs DEF OnceInv, NewOK
    <3>2. Day = DayOf(sm.now) /\ Day \in Nat
      BY <1>2, <2>3, DayType DEF Day
    <3>3. ~Spent(a)
      BY <2>3, <2>4, <3>1, <3>2 DEF Spent
    <3>4. attempts[a] <= 0
      BY <1>2, <2>1, <3>3 DEF OnceInv, SpentOK
    <3> HIDE DEF a
    <3>5. QED
      BY <2>1, <3>4
  <2>9. Ordered(id)
    BY <1>2 DEF Ordered
  <2>10. ~(attempts[z] > 0)
    BY <1>2, <2>7, <2>8, <2>9 DEF OrderInv, OrderOK
  <2> HIDE DEF z
  <2>11. attempts[z] = 0
    BY <2>1, <2>10
  <2>12. QED
    BY <2>11 DEF z
<1>3. TypeInv /\ OnceInv /\ OrderInv /\ [Next]_vars
      => [\A id \in DOMAIN table, day \in Days :
            /\ id \notin touched /\ crashes = 0 /\ table[id].start < table[id].stop
            /\ attempts'[<<"start", id, day>>] # attempts[<<"start", id, day>>]
            => attempts[<<"stop", id, day>>] = 0]_vars
  BY <1>2
<1>4. QED
  BY <1>1, <1>3, InitTypes, InitOnce, InitOwed, InitOrder, PTL DEF Spec, StartsComeFirst
-----------------------------------------------------------------------------
(* The session that comes of a plan.                                         *)

Hard(id, day) ==
    /\ table[id].enabled /\ day \in table[id].days
    /\ table[id].policy = "hard" /\ table[id].start + 2 < table[id].stop

Sent(kind, id, day) == attempts[<<kind, id, day>>] > 0

\* From the start of a schedule to its stop nobody stops its session,
StartOK(id, day) ==
    /\ Sent("start", id, day) /\ clock < Target(id, "stop", day)
    /\ ~Crossing(id, Target(id, "start", day))
    => /\ clock >= Target(id, "start", day) /\ control # "stop"
       /\ running \/ (control = "start" /\ clock <= Target(id, "start", day) + 2)

\* and for the rest of the day nobody starts one.
StopOK(id, day) ==
    /\ Sent("stop", id, day) /\ DayOf(clock) = day
    /\ ~Crossing(id, Target(id, "stop", day))
    => /\ clock >= Target(id, "stop", day) /\ control # "start"
       /\ ~running \/ (control = "stop" /\ clock <= Target(id, "stop", day) + 2)

PlansOK == \A id \in DOMAIN table, day \in Days : Hard(id, day) => StartOK(id, day) /\ StopOK(id, day)

CalmInv == Calm => starters = 0 /\ touched = {} /\ (\A f \in sm.todo : Planned(f)) /\ PlansOK

\* A start is before its stop.
LEMMA HardIs ==
    ASSUME TypeInv, NEW id \in DOMAIN table, NEW day \in Days, Hard(id, day)
    PROVE  Target(id, "start", day) + 2 < Target(id, "stop", day)
<1> DEFINE p == day * DAY
           a == At(id, "start")
           b == At(id, "stop")
<1>1. /\ p \in Nat /\ a \in Nat /\ b \in Nat
      /\ Target(id, "start", day) = p + a /\ Target(id, "stop", day) = p + b
  BY TargetIs DEF Kinds
<1>2. a + 2 < b
  BY DEF Hard, At
<1> HIDE DEF p, a, b
<1>3. QED
  BY <1>1, <1>2

\* The same command of a later day comes later.
LEMMA LaterTarget ==
    ASSUME TypeInv, NEW id \in DOMAIN table, NEW kind \in Kinds, NEW day \in Days, NEW later \in Days,
           day <= later
    PROVE  Target(id, kind, day) <= Target(id, kind, later)
<1> DEFINE p == day * DAY
           q == later * DAY
           a == At(id, kind)
<1>1. /\ p \in Nat /\ q \in Nat /\ a \in Nat /\ day \in Nat /\ later \in Nat
      /\ Target(id, kind, day) = p + a /\ Target(id, kind, later) = q + a
  BY TargetIs
<1>2. p <= q
  <2>1. day = later => p = q
    OBVIOUS
  <2>2. day < later => p + DAY <= q
    BY <1>1, LaterDay
  <2> HIDE DEF p, q
  <2>3. QED
    BY <1>1, <2>1, <2>2, ScheduleAssumption
<1> HIDE DEF p, q, a
<1>3. QED
  BY <1>1, <1>2

\* Another schedule's command crosses.
LEMMA Crosses ==
    ASSUME TypeInv, NEW f \in sm.todo, Planned(f), NEW id \in DOMAIN table, f.id # id, NEW t \in Nat,
           clock - f.due \in 0 .. 2, clock >= t
    PROVE  Crossing(id, t)
<1>1. DayOf(f.due) \in Days /\ f.kind \in Kinds /\ f.due \in Nat
  <2>1. KeyOf(f) \in Keys /\ f \in Fires
    BY KeyIs
  <2>2. QED
    BY <2>1, ScheduleAssumption DEF KeyOf, Keys, Fires
<1>2. clock \in Nat
  BY ScheduleAssumption DEF TypeInv, ClockType
<1>3. f.due \in t - 2 .. clock
  BY <1>1, <1>2
<1>4. f.id \in DOMAIN table \ {id} /\ table[f.id].enabled /\ DayOf(f.due) \in table[f.id].days
      /\ Target(f.id, f.kind, DayOf(f.due)) \in t - 2 .. clock
  BY <1>3 DEF Planned
<1>5. QED
  BY <1>1, <1>4 DEF Crossing

\* A step that publishes nothing.
LEMMA PlansStay ==
    ASSUME PlansOK, UNCHANGED <<clock, table, attempts, control, running>>
    PROVE  PlansOK'
  BY DEF PlansOK, Hard, StartOK, StopOK, Sent, Target, At, Crossing, DayOf

LEMMA ObeyPlans == ASSUME TypeInv, PlansOK, Obey PROVE PlansOK'
<1>1. /\ control # Nothing /\ control' = Nothing /\ (running' <=> control = "start")
      /\ UNCHANGED <<clock, table, attempts>> /\ control \in {"start", "stop"}
  BY Zenon DEF Obey, TypeInv, CountType
<1>2. \A id, day : (Hard(id, day)' <=> Hard(id, day)) /\ (Sent("start", id, day)' <=> Sent("start", id, day))
                   /\ (Sent("stop", id, day)' <=> Sent("stop", id, day))
  BY <1>1 DEF Hard, Sent
<1>3. ASSUME NEW id \in DOMAIN table, NEW day \in Days, Hard(id, day) PROVE StartOK(id, day)'
  <2>1. /\ Target(id, "start", day)' = Target(id, "start", day)
        /\ Target(id, "stop", day)' = Target(id, "stop", day)
        /\ Crossing(id, Target(id, "start", day))' <=> Crossing(id, Target(id, "start", day))
    BY <1>1 DEF Target, At, Crossing
  <2>2. StartOK(id, day)
    BY <1>3 DEF PlansOK
  <2>3. Nothing # "stop"
    BY DEF Nothing
  <2>4. QED
    BY <1>1, <1>2, <2>1, <2>2, <2>3 DEF StartOK
<1>4. ASSUME NEW id \in DOMAIN table, NEW day \in Days, Hard(id, day) PROVE StopOK(id, day)'
  <2>1. /\ Target(id, "stop", day)' = Target(id, "stop", day)
        /\ Crossing(id, Target(id, "stop", day))' <=> Crossing(id, Target(id, "stop", day))
        /\ DayOf(clock)' = DayOf(clock)
    BY <1>1 DEF Target, At, Crossing, DayOf
  <2>2. StopOK(id, day)
    BY <1>4 DEF PlansOK
  <2>3. Nothing # "start"
    BY DEF Nothing
  <2>4. QED
    BY <1>1, <1>2, <2>1, <2>2, <2>3 DEF StopOK
<1>5. QED
  BY <1>1, <1>2, <1>3, <1>4 DEF PlansOK

LEMMA TickPlans ==
    ASSUME TypeInv, OnceInv, PlansOK, Tick, faults' = faults PROVE PlansOK'
<1>1. /\ control = Nothing /\ control' = Nothing /\ clock' = clock + 1
      /\ UNCHANGED <<table, attempts, running>> /\ clock \in Nat /\ faults \in Nat
  <2>1. control = Nothing
    BY TickIs
  <2>2. QED
    BY <2>1, ScheduleAssumption DEF Tick, TypeInv, CountType, ClockType, people
<1>2. \A id, day : (Hard(id, day)' <=> Hard(id, day)) /\ (Sent("start", id, day)' <=> Sent("start", id, day))
                   /\ (Sent("stop", id, day)' <=> Sent("stop", id, day))
  BY <1>1 DEF Hard, Sent
<1>3. \A id \in DOMAIN table, kind \in Kinds, day \in Days :
         Target(id, kind, day)' = Target(id, kind, day) /\ Target(id, kind, day) \in Nat
  BY <1>1, TargetIs DEF Target, At
<1>4. Nothing # "start" /\ Nothing # "stop" /\ "start" \in Kinds /\ "stop" \in Kinds
  BY DEF Nothing, Kinds
<1>5. \A id \in DOMAIN table, t \in Nat : Crossing(id, t) => Crossing(id, t)'
  <2> SUFFICES ASSUME NEW id \in DOMAIN table, NEW t \in Nat, Crossing(id, t) PROVE Crossing(id, t)'
    OBVIOUS
  <2>1. PICK other \in DOMAIN table \ {id}, day \in Days, kind \in Kinds :
           /\ table[other].enabled /\ day \in table[other].days
           /\ Target(other, kind, day) \in t - 2 .. clock
    BY DEF Crossing
  <2>2. Target(other, kind, day)' \in t - 2 .. clock'
    BY <1>1, <1>3, <2>1
  <2>3. QED
    BY <1>1, <2>1, <2>2 DEF Crossing
<1>6. ASSUME NEW id \in DOMAIN table, NEW day \in Days, Hard(id, day) PROVE StartOK(id, day)'
  <2> SUFFICES ASSUME Sent("start", id, day), clock + 1 < Target(id, "stop", day),
                      ~Crossing(id, Target(id, "start", day))'
               PROVE  clock + 1 >= Target(id, "start", day) /\ running
    BY <1>1, <1>2, <1>3, <1>4 DEF StartOK
  <2>1. ~Crossing(id, Target(id, "start", day))
    <3> DEFINE t == Target(id, "start", day)
    <3>1. t \in Nat /\ Target(id, "start", day)' = t
      BY <1>3, <1>4
    <3>2. ~Crossing(id, t)'
      BY <3>1 DEF Crossing
    <3>3. QED
      BY <1>5, <3>1, <3>2
  <2>2. StartOK(id, day)
    BY <1>6 DEF PlansOK
  <2>3. Target(id, "start", day) \in Nat /\ Target(id, "stop", day) \in Nat
    BY <1>3, <1>4
  <2>4. QED
    BY <1>1, <1>4, <2>1, <2>2, <2>3 DEF StartOK
<1>7. ASSUME NEW id \in DOMAIN table, NEW day \in Days, Hard(id, day) PROVE StopOK(id, day)'
  <2> SUFFICES ASSUME Sent("stop", id, day), DayOf(clock + 1) = day,
                      ~Crossing(id, Target(id, "stop", day))'
               PROVE  clock + 1 >= Target(id, "stop", day) /\ ~running
    BY <1>1, <1>2, <1>3, <1>4 DEF StopOK, DayOf
  <2>1. ~Crossing(id, Target(id, "stop", day))
    <3> DEFINE t == Target(id, "stop", day)
    <3>1. t \in Nat /\ Target(id, "stop", day)' = t
      BY <1>3, <1>4
    <3>2. ~Crossing(id, t)'
      BY <3>1 DEF Crossing
    <3>3. QED
      BY <1>5, <3>1, <3>2
  <2>2. StopOK(id, day)
    BY <1>7 DEF PlansOK
  <2>3. Target(id, "stop", day) \in Nat
    BY <1>3, <1>4
  <2>4. DayOf(clock) = day
    <3>1. DayOf(clock) <= day
      BY <1>1, DaysGrow
    <3>2. day <= Day
      <4>1. id \in Ids /\ <<"stop", id, day>> \in Keys
        BY <1>4, PlanType DEF Keys
      <4>2. QED
        BY <4>1 DEF OnceInv, PastOK, Sent
    <3>3. day \in Nat
      BY <1>4, TargetIs
    <3>4. QED
      BY <3>1, <3>2, <3>3, DayType
  <2>5. QED
    BY <1>1, <1>4, <2>1, <2>2, <2>3, <2>4 DEF StopOK
<1>8. QED
  BY <1>1, <1>2, <1>6, <1>7 DEF PlansOK

LEMMA PublishPlans ==
    ASSUME TypeInv, OnceInv, \A f \in sm.todo : Planned(f), PlansOK, Publish, faults' = faults,
           misses = 0
    PROVE  PlansOK'
<1> DEFINE f == First
           key == KeyOf(f)
<1>1. /\ Firing /\ InFlight /\ control' = f.kind /\ UNCHANGED <<clock, table, running>>
      /\ attempts' = [attempts EXCEPT ![key] = @ + 1] /\ clock \in Nat
  BY ScheduleAssumption DEF Publish, CommandOf, Fault, TypeInv, CountType, ClockType, people,
     Firing, InFlight
<1>2. f \in sm.todo /\ f \in Fires /\ Planned(f) /\ key \in Keys
  BY <1>1, FirstIs, KeyIs
<1>3. /\ f.kind \in Kinds /\ f.id \in DOMAIN table /\ f.due \in Nat /\ DayOf(f.due) \in Days
      /\ f.due = Target(f.id, f.kind, DayOf(f.due)) /\ DayOf(f.due) = Day /\ Day <= DayOf(clock)
      /\ key = <<f.kind, f.id, DayOf(f.due)>>
  <2>1. key = <<f.kind, f.id, DayOf(f.due)>>
    BY DEF KeyOf
  <2>2. DayOf(f.due) = Day
    BY <1>1, <1>2 DEF TypeInv, TodoType, Day
  <2>3. QED
    BY <1>2, <2>1, <2>2, DayType, ScheduleAssumption DEF Planned, Fires, Keys
<1>4. clock - f.due \in 0 .. 2
  <2>1. /\ sm.now - f.due \in 0 .. 1 /\ sm.now \in Nat
        /\ sm.now <= clock /\ clock <= sm.now + 1 + misses
    BY <1>1, <1>2 DEF TypeInv, TodoType, ClockType, LoopType
  <2>2. QED
    BY <1>1, <1>3, <2>1
<1> HIDE DEF f, key
<1>5. attempts \in [Keys -> Nat]
  BY DEF TypeInv, CountType
<1>6. ASSUME NEW id \in DOMAIN table, NEW kind \in Kinds, NEW day \in Days, attempts'[<<kind, id, day>>] > 0
      PROVE  /\ day <= Day /\ day \in Nat /\ Day \in Nat
             /\ Sent(kind, id, day) \/ (kind = f.kind /\ id = f.id /\ day = DayOf(f.due))
  <2> DEFINE k == <<kind, id, day>>
  <2>1. k \in Keys /\ k[3] = day
    BY PlanType DEF Keys
  <2>2. attempts[k] > 0 \/ k = key
    <3> HIDE DEF k
    <3>1. QED
      BY <1>1, <1>2, <1>5, <1>6, <2>1 DEF k
  <2>3. attempts[k] > 0 => day <= Day
    BY <2>1 DEF OnceInv, PastOK
  <2>4. day \in Nat /\ Day \in Nat
    BY TargetIs, DayType
  <2>5. QED
    BY <1>3, <2>2, <2>3, <2>4 DEF Sent
<1>7. \A id, day : Hard(id, day)' <=> Hard(id, day)
  BY <1>1 DEF Hard
<1>8. ASSUME NEW id \in DOMAIN table, NEW day \in Days, Hard(id, day) PROVE StartOK(id, day)'
  <2> DEFINE start == Target(id, "start", day)
             stop == Target(id, "stop", day)
  <2>1. start \in Nat /\ stop \in Nat /\ start + 2 < stop
    BY <1>8, TargetIs, HardIs DEF Kinds
  <2>2. /\ Target(id, "start", day)' = start /\ Target(id, "stop", day)' = stop
        /\ Crossing(id, Target(id, "start", day))' <=> Crossing(id, start)
    BY <1>1 DEF Target, At, Crossing
  <2>3. StartOK(id, day)
    BY <1>8 DEF PlansOK
  <2> SUFFICES ASSUME attempts'[<<"start", id, day>>] > 0, clock < stop, ~Crossing(id, start)
               PROVE  /\ clock >= start /\ f.kind # "stop"
                      /\ running \/ (f.kind = "start" /\ clock <= start + 2)
    BY <1>1, <2>2 DEF StartOK, Sent
  <2>4. /\ day <= Day /\ day \in Nat /\ Day \in Nat
        /\ Sent("start", id, day) \/ (f.kind = "start" /\ id = f.id /\ day = DayOf(f.due))
    BY <1>6 DEF Kinds
  <2>5. CASE f.kind = "start" /\ id = f.id /\ day = DayOf(f.due)
    <3>1. f.due = start
      BY <1>3, <2>5
    <3>2. clock >= start /\ clock <= start + 2
      BY <1>1, <1>3, <1>4, <2>1, <3>1
    <3>3. QED
      BY <2>5, <3>2
  <2>6. CASE Sent("start", id, day)
    <3>1. /\ clock >= start /\ control # "stop"
          /\ running \/ (control = "start" /\ clock <= start + 2)
      BY <2>3, <2>6 DEF StartOK
    <3>2. f.kind # "stop"
      <4> SUFFICES ASSUME f.kind = "stop" PROVE FALSE
        OBVIOUS
      <4>1. f.id = id
        BY <1>2, <1>4, <2>1, <3>1, Crosses
      <4>2. f.due >= stop
        BY <1>3, <2>4, <4>1, LaterTarget
      <4>3. QED
        BY <1>1, <1>3, <1>4, <2>1, <4>2
    <3>3. f.kind = "start"
      BY <1>3, <3>2 DEF Kinds
    <3>4. QED
      BY <3>1, <3>2, <3>3
  <2>7. QED
    BY <2>4, <2>5, <2>6
<1>9. ASSUME NEW id \in DOMAIN table, NEW day \in Days, Hard(id, day) PROVE StopOK(id, day)'
  <2> DEFINE start == Target(id, "start", day)
             stop == Target(id, "stop", day)
  <2>1. start \in Nat /\ stop \in Nat /\ start + 2 < stop
    BY <1>9, TargetIs, HardIs DEF Kinds
  <2>2. /\ Target(id, "stop", day)' = stop
        /\ Crossing(id, Target(id, "stop", day))' <=> Crossing(id, stop)
        /\ DayOf(clock)' = DayOf(clock)
    BY <1>1 DEF Target, At, Crossing, DayOf
  <2>3. StopOK(id, day)
    BY <1>9 DEF PlansOK
  <2> SUFFICES ASSUME attempts'[<<"stop", id, day>>] > 0, DayOf(clock) = day, ~Crossing(id, stop)
               PROVE  /\ clock >= stop /\ f.kind # "start"
                      /\ ~running \/ (f.kind = "stop" /\ clock <= stop + 2)
    BY <1>1, <2>2 DEF StopOK, Sent
  <2>4. /\ day <= Day /\ day \in Nat /\ Day \in Nat
        /\ Sent("stop", id, day) \/ (f.kind = "stop" /\ id = f.id /\ day = DayOf(f.due))
    BY <1>6 DEF Kinds
  <2>5. CASE f.kind = "stop" /\ id = f.id /\ day = DayOf(f.due)
    <3>1. f.due = stop
      BY <1>3, <2>5
    <3>2. clock >= stop /\ clock <= stop + 2
      BY <1>1, <1>3, <1>4, <2>1, <3>1
    <3>3. QED
      BY <2>5, <3>2
  <2>6. CASE Sent("stop", id, day)
    <3>1. /\ clock >= stop /\ control # "start"
          /\ ~running \/ (control = "stop" /\ clock <= stop + 2)
      BY <2>3, <2>6 DEF StopOK
    <3>2. f.kind # "start"
      <4> SUFFICES ASSUME f.kind = "start" PROVE FALSE
        OBVIOUS
      <4>1. f.id = id
        BY <1>2, <1>4, <2>1, <3>1, Crosses
      <4>2. DayOf(f.due) = day
        BY <1>3, <2>4
      <4>3. f.due = start
        BY <1>3, <4>1, <4>2
      <4>4. QED
        BY <1>1, <1>3, <1>4, <2>1, <3>1, <4>3
    <3>3. f.kind = "stop"
      BY <1>3, <3>2 DEF Kinds
    <3>4. QED
      BY <3>1, <3>2, <3>3
  <2>7. QED
    BY <2>4, <2>5, <2>6
<1>10. QED
  BY <1>1, <1>7, <1>8, <1>9 DEF PlansOK

LEMMA CalmWas ==
    ASSUME TypeInv, [Next]_vars, Calm' PROVE Calm /\ UNCHANGED <<wishes, faults>>
<1>1. wishes' = wishes \/ Wish
  BY Zenon DEF Next, Loop, People, Boot, Crash, Check, Fetched, Publish, Published, AskStart, PublishStart,
         AskStop, Edit, Obey, Silence, Tick, vars
<1>2. faults' = faults \/ Fault \/ Tick
  BY Zenon DEF Next, Loop, People, Boot, Crash, Check, Fetched, Publish, Published, AskStart, PublishStart,
         AskStop, Edit, Obey, Silence, vars
<1>3. wishes \in Nat /\ faults \in Nat
  BY DEF TypeInv, CountType
<1>4. wishes' = 0 /\ faults' = 0
  BY DEF Calm
<1>5. wishes = 0
  BY <1>1, <1>3, <1>4 DEF Wish
<1>6. faults = 0
  <2>1. Tick => faults <= faults'
    BY TickIs
  <2>2. QED
    BY <1>2, <1>3, <1>4, <2>1 DEF Fault
<1>7. QED
  BY <1>4, <1>5, <1>6 DEF Calm

LEMMA NextCalm == ASSUME TypeInv, TypeInv', OnceInv, CalmInv, [Next]_vars PROVE CalmInv'
<1> SUFFICES ASSUME Calm'
             PROVE  (starters = 0 /\ touched = {} /\ (\A f \in sm.todo : Planned(f)) /\ PlansOK)'
  BY DEF CalmInv
<1>1. Calm /\ wishes' = wishes /\ faults' = faults
  BY CalmWas
<1>2. starters = 0 /\ touched = {} /\ (\A f \in sm.todo : Planned(f)) /\ PlansOK
  BY <1>1 DEF CalmInv
<1>3. wishes \in Nat /\ faults \in Nat /\ misses = 0
  BY <1>1 DEF TypeInv, CountType, Calm
<1>4. ~Wish /\ ~Fault
  BY <1>1, <1>3 DEF Wish, Fault
<1>5. UNCHANGED vars \/ Boot \/ Check \/ Fetched \/ Publish \/ Published \/ Obey \/ Tick
  <2>1. ~Crash /\ ~AskStart /\ ~AskStop /\ ~Silence
    BY <1>4, Zenon DEF Crash, AskStart, AskStop, Silence
  <2>2. ~PublishStart
    BY <1>2 DEF PublishStart
  <2>3. \A id \in Ids : ~Edit(id)
    BY <1>4, Zenon DEF Edit
  <2>4. QED
    BY <2>1, <2>2, <2>3, Zenon DEF Next, Loop, People
<1>6. starters' = 0 /\ touched' = {} /\ table' = table
  BY <1>2, <1>5 DEF vars, people, Boot, Check, Fetched, Publish, Published, Obey, Tick
<1>7. \A f \in sm'.todo : Planned(f)'
  <2>1. \A f \in sm'.todo : Planned(f)
    <3>1. CASE Fetched
      <4>1. sm.now \in 0 .. MaxClock
        BY <3>1, ScheduleAssumption DEF TypeInv, LoopType, ClockType, InFlight, Fetched
      <4>2. \A f \in Due(sm.now) : Planned(f)
        BY <4>1, DueIs DEF Planned, IsDue
      <4>3. sm' = Asleep \/ sm'.todo = Due(sm.now)
        BY <3>1 DEF Fetched, TypeInv, LoopType
      <4>4. QED
        BY <4>2, <4>3 DEF Asleep
    <3>2. CASE Published
      <4> DEFINE todo == sm.todo \ {First}
      <4>1. sm' = Asleep \/ sm' = [sm EXCEPT !.at = "publish", !.todo = todo]
        BY <3>2 DEF Published
      <4>2. sm \in [at : {"down", "sleep", "fetch", "publish", "reply"}, now : Nat, todo : SUBSET Fires]
        BY DEF TypeInv, LoopType
      <4>3. todo \subseteq sm.todo
        OBVIOUS
      <4> HIDE DEF todo
      <4>4. sm'.todo = {} \/ sm'.todo = todo
        <5>1. sm' = Asleep => sm'.todo = {}
          BY DEF Asleep
        <5>2. QED
          BY <4>1, <4>2, <5>1
      <4>5. QED
        BY <1>2, <4>3, <4>4
    <3>3. CASE UNCHANGED vars \/ Boot \/ Check \/ Publish \/ Obey \/ Tick
      <4>1. sm'.todo = {} \/ sm'.todo = sm.todo
        BY <3>3 DEF vars, Boot, Check, Publish, Obey, Tick, Asleep, TypeInv, LoopType
      <4>2. QED
        BY <1>2, <4>1
    <3>4. QED
      BY <1>5, <3>1, <3>2, <3>3
  <2>2. QED
    BY <1>6, <2>1 DEF Planned, Target, At, DayOf
<1>8. PlansOK'
  <2>1. CASE UNCHANGED vars \/ Boot \/ Check \/ Fetched \/ Published
    <3>1. UNCHANGED <<clock, table, attempts, control, running>>
      BY <2>1, Zenon DEF vars, people, Boot, Check, Fetched, Published
    <3>2. QED
      BY <1>2, <3>1, PlansStay
  <2>2. QED
    BY <1>1, <1>2, <1>3, <1>5, <2>1, ObeyPlans, TickPlans, PublishPlans
<1>9. QED
  BY <1>6, <1>7, <1>8

LEMMA InitCalm == Init => CalmInv
<1> SUFFICES ASSUME Init PROVE CalmInv
  OBVIOUS
<1>1. TypeInv /\ starters = 0 /\ touched = {} /\ sm.todo = {} /\ attempts = [k \in Keys |-> 0]
  BY InitTypes DEF Init, Asleep
<1>2. \A id \in DOMAIN table, kind \in Kinds, day \in Days : ~Sent(kind, id, day)
  <2> SUFFICES ASSUME NEW id \in DOMAIN table, NEW kind \in Kinds, NEW day \in Days
               PROVE  ~Sent(kind, id, day)
    OBVIOUS
  <2>1. <<kind, id, day>> \in Keys
    BY <1>1, PlanType DEF Keys
  <2>2. QED
    BY <1>1, <2>1 DEF Sent
<1>3. PlansOK
  BY <1>2 DEF PlansOK, StartOK, StopOK, Kinds
<1>4. QED
  BY <1>1, <1>3 DEF CalmInv

\* Left alone, a hard schedule has its session from its start to its stop and none after it, as long
\* as no command of another row is due from two minutes before that start, or that stop, until now:
\* each command is fired in its window, is read in its minute, and is the last one that the
\* audio-producer reads until the next of its row.
THEOREM SessionsAsPlanned == Spec => []SessionFollowsPlan
<1>1. TypeInv /\ OnceInv /\ OwedInv /\ CalmInv /\ [Next]_vars
      => (TypeInv /\ OnceInv /\ OwedInv /\ CalmInv)'
  BY NextTypes, NextOnce, NextOwed, NextCalm
<1>2. TypeInv /\ OwedInv /\ CalmInv => SessionFollowsPlan
  <2> SUFFICES ASSUME TypeInv, OwedInv, CalmInv, Calm, NEW id \in DOMAIN table, NEW day \in Days,
                      Hard(id, day)
               PROVE  /\ clock \in Target(id, "start", day) + 3 .. Target(id, "stop", day) - 1
                         /\ ~Crossing(id, Target(id, "start", day)) => running
                      /\ clock >= Target(id, "stop", day) + 3 /\ DayOf(clock) = day
                         /\ ~Crossing(id, Target(id, "stop", day)) => ~running
    BY Zenon DEF SessionFollowsPlan, Hard
  <2> DEFINE start == Target(id, "start", day)
             stop  == Target(id, "stop", day)
  <2>1. start \in Nat /\ stop \in Nat /\ clock \in Nat
    BY TargetIs, ScheduleAssumption DEF Kinds, TypeInv, ClockType
  <2>2. StartOK(id, day) /\ StopOK(id, day) /\ id \notin touched
    BY DEF CalmInv, PlansOK
  <2>3. ASSUME NEW kind \in Kinds, clock > Target(id, kind, day) + 2 PROVE Sent(kind, id, day)
    <3> DEFINE k == <<kind, id, day>>
    <3>1. k \in Keys /\ k[1] = kind /\ k[2] = id /\ k[3] = day /\ ~Soft(id, kind)
      BY PlanType DEF Keys, Soft, Hard
    <3> HIDE DEF k
    <3>2. Fit(k) /\ clock > Minute(k) + 2
      BY <2>2, <2>3, <3>1 DEF Fit, Minute, Hard
    <3>3. crashes = 0 /\ misses <= (IF At(k[2], k[1]) = DAY - 1 THEN 0 ELSE 1)
      BY DEF Calm, TypeInv, CountType
    <3>4. attempts[k] > 0
      BY <3>2, <3>3, OwedIsFired
    <3>5. QED
      BY <3>4 DEF k, Sent
  <2>4. ASSUME clock \in start + 3 .. stop - 1, ~Crossing(id, start) PROVE running
    <3>1. clock > start + 2 /\ clock < stop
      BY <2>1, <2>4
    <3>2. Sent("start", id, day)
      BY <2>3, <3>1 DEF Kinds
    <3>3. running \/ clock <= start + 2
      BY <2>2, <2>4, <3>1, <3>2 DEF StartOK
    <3>4. QED
      BY <2>1, <3>1, <3>3
  <2>5. ASSUME clock >= stop + 3, DayOf(clock) = day, ~Crossing(id, stop) PROVE ~running
    <3>1. clock > stop + 2
      BY <2>1, <2>5
    <3>2. Sent("stop", id, day)
      BY <2>3, <3>1 DEF Kinds
    <3>3. ~running \/ clock <= stop + 2
      BY <2>2, <2>5, <3>2 DEF StopOK
    <3>4. QED
      BY <2>1, <3>1, <3>3
  <2>6. QED
    BY <2>4, <2>5
<1>3. QED
  BY <1>1, <1>2, InitTypes, InitOnce, InitOwed, InitCalm, PTL DEF Spec
=============================================================================
