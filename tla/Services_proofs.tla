---------------------------- MODULE Services_proofs ----------------------------
(***************************************************************************)
(* Proofs about Services, for any services, requests and faults: the state *)
(* of a container is what the last answer about it said.                   *)
(***************************************************************************)
EXTENDS Services, TLAPS

(* Types.                                                                    *)

Places  == {"down", "restarting", "connecting", "up", "stopping", "bouncing"}
Steps   == {"policy", "stop", "restart", "stopped", "start", "ok", "error"}
Results == {"waiting", "ok", "error", "timeout"}

ProcessType ==
    /\ policy \in [Services -> {"always", "no"}] /\ proc \in [Services -> Places]
    /\ beat \in [Services -> {"off", "init", "on"}] /\ logic \in [Services -> BOOLEAN]
    /\ key \in [Services -> {"none", "recent", "old"}]

\* Tasks live in a process.
TasksType ==
    \A s \in Services : logic[s] \/ beat[s] # "off" => proc[s] \in {"up", "stopping", "bouncing"}

RequestType ==
    /\ sent \in Seq(Request) /\ inbox \in Seq(Request) /\ answers \in Seq(Results)
    /\ Len(answers) = Len(sent)

ManagerType == manager # <<>> => manager \in Steps \X Request /\ manager[2].name \in Services

WatchType ==
    /\ nats \in BOOLEAN /\ faults \in 0 .. MaxFaults /\ halfway \in BOOLEAN
    /\ alerts \subseteq Services /\ shown \in [Services -> {"absent", "running", "stale"}]

TypeInv == ProcessType /\ TasksType /\ RequestType /\ ManagerType /\ WatchType

LEMMA TypeMeaning == TypeInv => TypeOK
<1> SUFFICES ASSUME TypeInv PROVE TypeOK
  OBVIOUS
<1>1. manager # <<>> => /\ manager[2] \in Request /\ Name \in Services
                        /\ manager[1] \in Steps
  BY DEF TypeInv, ManagerType, Name
<1>2. QED
  BY <1>1 DEF TypeInv, TypeOK, ProcessType, TasksType, RequestType, WatchType, Places, Steps,
              Results

LEMMA FaultType == ASSUME TypeInv, Fault PROVE faults' \in 0 .. MaxFaults
  BY ServicesAssumption DEF TypeInv, WatchType, Fault

\* A process that is gone has no tasks.
LEMMA GoneType ==
    ASSUME TypeInv, NEW s \in Services, NEW next \in Places, Gone(s, next), UNCHANGED <<policy, key>>
    PROVE  ProcessType' /\ TasksType'
<1>1. ProcessType'
  BY DEF TypeInv, ProcessType, Gone
<1>2. ASSUME NEW r \in Services, logic'[r] \/ beat'[r] # "off"
      PROVE  proc'[r] \in {"up", "stopping", "bouncing"}
  BY <1>2 DEF TypeInv, ProcessType, TasksType, Gone
<1>3. QED
  BY <1>1, <1>2 DEF TasksType

LEMMA RestartedType == ASSUME TypeInv, NEW s PROVE Restarted(s) \in Places
  BY DEF Restarted, Places

\* A step of a process.
LEMMA ProcessStep ==
    ASSUME TypeInv, NEW s \in Services, Runs(s) \/ LogicEnds(s) PROVE TypeInv'
<1>1. RequestType' /\ ManagerType' /\ UNCHANGED <<control, watch, nats>>
  BY DEF TypeInv, RequestType, ManagerType, Runs, LogicEnds, Connect, InitBeat, Beat, Age,
         Stopped, DockerRestarts, control
<1>2. faults' \in 0 .. MaxFaults
  BY FaultType DEF TypeInv, WatchType, Runs, LogicEnds, Connect, InitBeat, Beat, Age, Stopped,
                   DockerRestarts
<1>3. WatchType'
  BY <1>1, <1>2 DEF TypeInv, WatchType, watch
<1>4. ProcessType' /\ TasksType'
  <2>1. CASE Connect(s)
    <3>1. CASE nats
      BY <2>1, <3>1 DEF TypeInv, ProcessType, TasksType, Connect, Places
    <3>2. CASE ~nats
      <4>1. Gone(s, Restarted(s)) /\ UNCHANGED <<policy, key>>
        BY <2>1, <3>2 DEF Connect
      <4>2. QED
        BY <4>1, GoneType, RestartedType
    <3>3. QED
      BY <3>1, <3>2
  <2>2. CASE InitBeat(s)
    BY <2>2 DEF TypeInv, ProcessType, TasksType, InitBeat
  <2>3. CASE Beat(s) \/ Age(s)
    BY <2>3 DEF TypeInv, ProcessType, TasksType, Beat, Age
  <2>4. CASE Stopped(s)
    <3>1. UNCHANGED <<policy, key>> /\ (Gone(s, "down") \/ Gone(s, "connecting"))
      BY <2>4 DEF Stopped
    <3>2. QED
      BY <3>1, GoneType DEF Places
  <2>5. CASE DockerRestarts(s)
    BY <2>5 DEF TypeInv, ProcessType, TasksType, DockerRestarts, Places
  <2>6. CASE LogicEnds(s)
    <3>1. CASE Gone(s, Restarted(s))
      BY <2>6, <3>1, GoneType, RestartedType DEF LogicEnds
    <3>2. CASE logic' = [logic EXCEPT ![s] = FALSE] /\ UNCHANGED <<proc, beat>>
      BY <2>6, <3>2 DEF TypeInv, ProcessType, TasksType, LogicEnds
    <3>3. QED
      BY <2>6, <3>1, <3>2 DEF LogicEnds
  <2>7. QED
    BY <2>1, <2>2, <2>3, <2>4, <2>5, <2>6 DEF Runs
<1>5. QED
  BY <1>1, <1>3, <1>4 DEF TypeInv

\* A request is made, or its asker gives up.
LEMMA AskStep ==
    ASSUME TypeInv, NEW a \in Commands, NEW s \in Services \cup {Protected}, Ask(a, s)
    PROVE  TypeInv'
<1> DEFINE r == [n |-> Len(sent) + 1, action |-> a, name |-> s]
<1>1. r \in Request
  BY ServicesAssumption DEF TypeInv, RequestType, Ask, Request, Numbers
<1>2. sent' = Append(sent, r) /\ inbox' = Append(inbox, r) /\ answers' = Append(answers, "waiting")
  BY DEF Ask
<1> HIDE DEF r
<1>3. RequestType'
  BY <1>1, <1>2 DEF TypeInv, RequestType, Results
<1>4. UNCHANGED <<nats, process, manager, watch, faults>>
  BY DEF Ask
<1>5. ProcessType' /\ TasksType' /\ ManagerType' /\ WatchType'
  BY <1>4 DEF TypeInv, ProcessType, TasksType, ManagerType, WatchType, process, watch
<1>6. QED
  BY <1>3, <1>5 DEF TypeInv

LEMMA GiveUpStep == ASSUME TypeInv, NEW n, GiveUp(n) PROVE TypeInv'
<1>1. RequestType'
  BY DEF TypeInv, RequestType, GiveUp, Results
<1>2. ProcessType' /\ TasksType' /\ ManagerType' /\ WatchType'
  BY DEF TypeInv, ProcessType, TasksType, ManagerType, WatchType, GiveUp, process, watch
<1>3. QED
  BY <1>1, <1>2 DEF TypeInv

\* What the manager holds while it works.
LEMMA ManagerHolds ==
    ASSUME TypeInv, manager # <<>>
    PROVE  /\ manager[1] \in Steps /\ manager[2] \in Request /\ Name \in Services
           /\ Name = manager[2].name /\ manager[2].n \in Numbers
  BY DEF TypeInv, ManagerType, Name, Request

\* It goes on with its request.
LEMMA ManagerGoesOn ==
    ASSUME TypeInv, manager # <<>>, NEW step \in Steps, manager' = <<step, manager[2]>>
    PROVE  ManagerType'
  BY ManagerHolds DEF ManagerType, Name

LEMMA TakeStep == ASSUME TypeInv, Take PROVE TypeInv'
<1>1. Head(inbox) \in Request /\ Tail(inbox) \in Seq(Request)
  BY DEF TypeInv, RequestType, Take
<1>2. RequestType'
  BY <1>1 DEF TypeInv, RequestType, Take
<1>3. FirstStep(Head(inbox)) \in Steps
  BY DEF FirstStep, Steps
<1>4. ManagerType'
  BY <1>1, <1>3 DEF Take, ManagerType
<1>5. ProcessType' /\ TasksType' /\ WatchType'
  BY DEF TypeInv, ProcessType, TasksType, WatchType, Take, process, watch
<1>6. QED
  BY <1>2, <1>4, <1>5 DEF TypeInv

\* A step of the manager that calls Docker.
LEMMA DockerStep ==
    ASSUME TypeInv, SetPolicy \/ StopContainer \/ ContainerStopped \/ StartContainer \/ DockerFails
    PROVE  TypeInv'
<1>1. manager # <<>>
  BY DEF SetPolicy, StopContainer, ContainerStopped, StartContainer, DockerFails, Doing
<1>2. ManagerType'
  <2>1. \E step \in Steps : manager' = <<step, manager[2]>>
    BY DEF SetPolicy, StopContainer, ContainerStopped, StartContainer, DockerFails, AfterPolicy,
           Steps
  <2>2. QED
    BY <1>1, <2>1, ManagerGoesOn
<1>3. RequestType' /\ UNCHANGED <<nats, alerts, shown>> /\ halfway' \in BOOLEAN
  <2>1. UNCHANGED <<nats, sent, answers, inbox, alerts, shown>>
    BY Zenon DEF SetPolicy, StopContainer, ContainerStopped, StartContainer, DockerFails, watch
  <2>2. halfway' = halfway \/ StopWaiting
    BY DEF SetPolicy, StopContainer, ContainerStopped, StartContainer, DockerFails, watch
  <2>3. halfway' \in BOOLEAN
    BY <2>2 DEF StopWaiting, TypeInv, WatchType
  <2>4. QED
    BY <2>1, <2>3 DEF TypeInv, RequestType
<1>4. faults' \in 0 .. MaxFaults
  BY FaultType DEF TypeInv, WatchType, SetPolicy, StopContainer, ContainerStopped, StartContainer,
                   DockerFails
<1>5. WatchType'
  BY <1>3, <1>4 DEF TypeInv, WatchType
<1>6. Name \in Services
  BY <1>1, ManagerHolds
<1>7. ProcessType' /\ TasksType'
  <2>1. CASE SetPolicy
    BY <2>1, <1>6 DEF TypeInv, ProcessType, TasksType, SetPolicy
  <2>2. CASE StopContainer
    BY <2>2, <1>6 DEF TypeInv, ProcessType, TasksType, StopContainer, Places
  <2>3. CASE ContainerStopped \/ DockerFails
    BY <2>3 DEF TypeInv, ProcessType, TasksType, ContainerStopped, DockerFails, process
  <2>4. CASE StartContainer
    BY <2>4, <1>6 DEF TypeInv, ProcessType, TasksType, StartContainer, Places
  <2>5. QED
    BY <2>1, <2>2, <2>3, <2>4
<1>8. QED
  BY <1>2, <1>3, <1>5, <1>7 DEF TypeInv

LEMMA RespondStep == ASSUME TypeInv, Respond PROVE TypeInv'
<1>1. manager[1] \in {"ok", "error"} /\ manager' = <<>> /\ ManagerType'
  BY DEF Respond, Doing, ManagerType
<1>2. RequestType'
  <2> DEFINE n == manager[2].n
  <2>1. /\ answers' = [answers EXCEPT ![n] = IF @ = "waiting" THEN manager[1] ELSE @]
        /\ UNCHANGED <<sent, inbox>>
    BY DEF Respond
  <2> HIDE DEF n
  <2>2. answers \in Seq(Results) /\ manager[1] \in Results
    BY <1>1 DEF TypeInv, RequestType, Results
  <2>3. answers' \in Seq(Results) /\ Len(answers') = Len(answers)
    <3>1. /\ DOMAIN answers' = 1 .. Len(answers) /\ Len(answers) \in Nat
          /\ \A i \in 1 .. Len(answers) : answers'[i] \in {answers[i], manager[1]}
      BY <2>1, <2>2
    <3>2. \A i \in 1 .. Len(answers) : answers[i] \in Results
      BY <2>2
    <3>3. answers' = [i \in DOMAIN answers |->
                        IF i = n THEN IF answers[n] = "waiting" THEN manager[1] ELSE answers[n]
                        ELSE answers[i]]
      BY <2>1, Zenon
    <3>4. answers' = [i \in 1 .. Len(answers) |-> answers'[i]]
      BY <3>3, <2>2
    <3>5. answers' \in [1 .. Len(answers) -> Results]
      BY <2>2, <3>1, <3>2, <3>4
    <3>6. QED
      BY <3>1, <3>5
  <2>4. QED
    BY <2>1, <2>3 DEF TypeInv, RequestType
<1>3. ProcessType' /\ TasksType' /\ WatchType'
  BY DEF TypeInv, ProcessType, TasksType, WatchType, Respond, process, watch
<1>4. QED
  BY <1>1, <1>2, <1>3 DEF TypeInv

LEMMA ManagerEndsStep == ASSUME TypeInv, ManagerEnds PROVE TypeInv'
<1>1. ManagerType' /\ RequestType'
  BY DEF TypeInv, ManagerType, RequestType, ManagerEnds
<1>2. halfway' \in BOOLEAN /\ UNCHANGED <<nats, alerts, shown>>
  BY Zenon DEF ManagerEnds, StopWaiting
<1>3. WatchType'
  BY <1>2, FaultType DEF TypeInv, WatchType, ManagerEnds
<1>4. ProcessType' /\ TasksType'
  BY DEF TypeInv, ProcessType, TasksType, ManagerEnds, process
<1>5. QED
  BY <1>1, <1>3, <1>4 DEF TypeInv

LEMMA WatchKept ==
    ASSUME WatchType, halfway' = halfway, nats' \in BOOLEAN, faults' \in 0 .. MaxFaults,
           alerts' = alerts \/ alerts' \subseteq Services,
           shown' = shown \/ shown' \in [Services -> {"absent", "running", "stale"}]
    PROVE  WatchType'
<1>1. halfway' \in BOOLEAN
  BY Zenon DEF WatchType
<1>2. alerts' \subseteq Services
  BY Zenon DEF WatchType
<1>3. shown' \in [Services -> {"absent", "running", "stale"}]
  BY Zenon DEF WatchType
<1>4. QED
  BY <1>1, <1>2, <1>3, Zenon DEF WatchType

\* The network, and who looks at the bucket.
LEMMA LookStep == ASSUME TypeInv, NatsChanges \/ Watch \/ Status PROVE TypeInv'
<1>1. ProcessType' /\ TasksType' /\ RequestType' /\ ManagerType'
  BY DEF TypeInv, ProcessType, TasksType, RequestType, ManagerType, NatsChanges, Watch, Status,
         process, control
<1>2. \A s \in Services : Heartbeat(s) \in {"absent", "running", "stale"}
  BY DEF TypeInv, ProcessType, Heartbeat
<1>3. WatchType' => TypeInv'
  BY <1>1 DEF TypeInv
<1>4. CASE NatsChanges
  <2>1. nats' \in BOOLEAN
    BY <1>4, Zenon DEF NatsChanges
  <2>2. faults' \in 0 .. MaxFaults
    BY <1>4, FaultType DEF TypeInv, WatchType, NatsChanges
  <2>3. alerts' = alerts /\ shown' = shown /\ halfway' = halfway
    BY <1>4 DEF NatsChanges, watch
  <2>4. QED
    <3>1. WatchType
      BY Zenon DEF TypeInv
    <3>2. WatchType'
      BY <2>1, <2>2, <2>3, <3>1, WatchKept, Zenon
    <3>3. QED
      BY <3>2, <1>3
<1>5. CASE Watch
  <2>1. /\ alerts' \subseteq Services /\ nats' = nats /\ faults' = faults
        /\ halfway' = halfway /\ shown' = shown
    BY <1>5 DEF TypeInv, WatchType, Watch
  <2>2. QED
    <3>1. WatchType /\ nats' \in BOOLEAN /\ faults' \in 0 .. MaxFaults
      BY <2>1, Zenon DEF TypeInv, WatchType
    <3>2. WatchType'
      BY <2>1, <3>1, WatchKept, Zenon
    <3>3. QED
      BY <3>2, <1>3
<1>6. CASE Status
  <2>1. /\ shown' \in [Services -> {"absent", "running", "stale"}]
        /\ nats' = nats /\ faults' = faults /\ halfway' = halfway /\ alerts' = alerts
    BY <1>2, <1>6 DEF Status
  <2>2. QED
    <3>1. WatchType /\ nats' \in BOOLEAN /\ faults' \in 0 .. MaxFaults
      BY <2>1, Zenon DEF TypeInv, WatchType
    <3>2. WatchType'
      BY <2>1, <3>1, WatchKept, Zenon
    <3>3. QED
      BY <3>2, <1>3
<1>7. QED
  BY <1>4, <1>5, <1>6

LEMMA InitTypes == Init => TypeInv
<1> SUFFICES ASSUME Init PROVE TypeInv
  OBVIOUS
<1>1. ProcessType /\ TasksType
  BY DEF Init, ProcessType, TasksType, Places
<1>2. RequestType /\ ManagerType
  BY DEF Init, RequestType, ManagerType
<1>3. nats \in BOOLEAN /\ halfway \in BOOLEAN
  BY Zenon DEF Init
<1>4. WatchType
  BY <1>3, ServicesAssumption DEF Init, WatchType
<1>5. QED
  BY <1>1, <1>2, <1>4 DEF TypeInv

LEMMA NextTypes == TypeInv /\ [Next]_vars => TypeInv'
<1> SUFFICES ASSUME TypeInv, [Next]_vars PROVE TypeInv'
  OBVIOUS
<1>1. CASE UNCHANGED vars
  BY <1>1 DEF TypeInv, ProcessType, TasksType, RequestType, ManagerType, WatchType, vars, process,
              control, watch
<1>2. CASE Next
  BY <1>2, ProcessStep, AskStep, GiveUpStep, TakeStep, DockerStep, RespondStep, ManagerEndsStep,
     LookStep DEF Next, Manager
<1>3. QED
  BY <1>1, <1>2

\* Every variable keeps its type, and tasks live in a process.
THEOREM TypeCorrect == Spec => []TypeOK
<1>1. Spec => []TypeInv
  BY InitTypes, NextTypes, PTL DEF Spec
<1>2. QED
  BY <1>1, TypeMeaning, PTL
-----------------------------------------------------------------------------
(* Requests are carried out in the order in which they were sent.            *)

\* A request's number is its place in sent.
NumberOK == \A i \in DOMAIN sent : sent[i].n = i

Sent(q, r) == r.n \in DOMAIN q /\ q[r.n] = r

InboxOK ==
    /\ \A k \in DOMAIN inbox : Sent(sent, inbox[k])
    /\ \A k, l \in DOMAIN inbox : k < l => inbox[k].n < inbox[l].n

\* What the manager has in hand came before what waits for it,
HandOK == manager # <<>> => /\ Sent(sent, manager[2])
                            /\ \A k \in DOMAIN inbox : manager[2].n < inbox[k].n

\* and what it answered before both.
AnsweredOK == \A i \in DOMAIN answers : answers[i] = "ok" =>
                 /\ \A k \in DOMAIN inbox : i < inbox[k].n
                 /\ manager # <<>> => i < manager[2].n

OrderInv == NumberOK /\ InboxOK /\ HandOK /\ AnsweredOK

LEMMA AskOrder ==
    ASSUME TypeInv, OrderInv, NEW a \in Commands, NEW s \in Services \cup {Protected}, Ask(a, s)
    PROVE  OrderInv'
<1> DEFINE r == [n |-> Len(sent) + 1, action |-> a, name |-> s]
           m == Len(sent)
           l == Len(inbox)
<1>1. /\ sent' = Append(sent, r) /\ inbox' = Append(inbox, r)
      /\ answers' = Append(answers, "waiting") /\ manager' = manager
  BY DEF Ask
<1>2. r.n = m + 1
  OBVIOUS
<1>3. /\ sent \in Seq(Request) /\ inbox \in Seq(Request) /\ answers \in Seq(Results)
      /\ Len(answers) = m /\ m \in Nat /\ l \in Nat
      /\ DOMAIN sent = 1 .. m /\ DOMAIN inbox = 1 .. l /\ DOMAIN answers = 1 .. m
  BY DEF TypeInv, RequestType
<1> HIDE DEF r, m, l
<1>4. /\ DOMAIN sent' = 1 .. m + 1 /\ DOMAIN inbox' = 1 .. l + 1 /\ DOMAIN answers' = 1 .. m + 1
      /\ \A i \in 1 .. m : sent'[i] = sent[i] /\ answers'[i] = answers[i]
      /\ \A i \in 1 .. l : inbox'[i] = inbox[i]
      /\ sent'[m + 1] = r /\ inbox'[l + 1] = r /\ answers'[m + 1] = "waiting"
  BY <1>1, <1>3 DEF m, l
<1>5. NumberOK'
  BY <1>2, <1>3, <1>4 DEF OrderInv, NumberOK
<1>6. \A k \in 1 .. l : Sent(sent, inbox[k]) /\ Sent(sent', inbox[k]) /\ inbox[k].n \in 1 .. m
  <2>1. \A k \in 1 .. l : Sent(sent, inbox[k])
    BY <1>3 DEF OrderInv, InboxOK
  <2>2. 1 .. m \subseteq 1 .. m + 1
    BY <1>3
  <2>3. QED
    BY <1>3, <1>4, <2>1, <2>2 DEF Sent
<1>7. InboxOK'
  <2>1. Sent(sent', r)
    BY <1>1, <1>2, <1>3, <1>4 DEF Sent
  <2>2. \A k \in 1 .. l + 1 : Sent(sent', inbox'[k])
    <3>1. \A k \in 1 .. l + 1 : k \in 1 .. l \/ k = l + 1
      BY <1>3
    <3>2. QED
      BY <1>4, <1>6, <2>1, <3>1
  <2>3. \A k, j \in 1 .. l : k < j => inbox[k].n < inbox[j].n
    BY <1>3 DEF OrderInv, InboxOK
  <2>4. \A k, j \in 1 .. l + 1 : k < j => inbox'[k].n < inbox'[j].n
    <3>1. \A k, j \in 1 .. l + 1 : k < j => k \in 1 .. l /\ (j \in 1 .. l \/ j = l + 1)
      BY <1>3
    <3>2. \A k \in 1 .. l : inbox[k].n < m + 1
      BY <1>3, <1>6
    <3>3. QED
      BY <1>2, <1>4, <2>3, <3>1, <3>2
  <2>5. QED
    BY <1>4, <2>2, <2>4 DEF InboxOK, Sent
<1>8. HandOK'
  <2> SUFFICES ASSUME manager # <<>>
               PROVE  Sent(sent', manager[2]) /\ \A k \in 1 .. l + 1 : manager[2].n < inbox'[k].n
    BY <1>1, <1>4 DEF HandOK, Sent
  <2>1. manager[2].n \in 1 .. m /\ sent[manager[2].n] = manager[2]
    BY <1>3 DEF OrderInv, HandOK, Sent
  <2>2. Sent(sent', manager[2])
    BY <1>1, <1>3, <1>4, <2>1 DEF Sent
  <2>3. \A k \in 1 .. l : manager[2].n < inbox[k].n
    BY <1>3 DEF OrderInv, HandOK
  <2>4. ASSUME NEW k \in 1 .. l + 1 PROVE manager[2].n < inbox'[k].n
    <3>1. CASE k \in 1 .. l
      BY <1>4, <2>3, <3>1
    <3>2. CASE k = l + 1
      BY <1>2, <1>3, <1>4, <2>1, <3>2
    <3>3. k \in 1 .. l \/ k = l + 1
      BY <1>3
    <3>4. QED
      BY <3>1, <3>2, <3>3
  <2>5. QED
    BY <2>2, <2>4
<1>9. AnsweredOK'
  <2>1. \A i \in 1 .. m : answers[i] = "ok" => /\ \A k \in 1 .. l : i < inbox[k].n
                                               /\ manager # <<>> => i < manager[2].n
    BY <1>3 DEF OrderInv, AnsweredOK
  <2>2. \A i \in 1 .. m + 1 : answers'[i] = "ok" => /\ \A k \in 1 .. l + 1 : i < inbox'[k].n
                                                    /\ manager # <<>> => i < manager[2].n
    BY <1>2, <1>3, <1>4, <2>1
  <2>3. QED
    BY <1>1, <1>4, <2>2 DEF AnsweredOK
<1>10. QED
  BY <1>5, <1>7, <1>8, <1>9 DEF OrderInv

LEMMA TakeOrder == ASSUME TypeInv, OrderInv, Take PROVE OrderInv'
<1> DEFINE l == Len(inbox)
<1>1. /\ manager = <<>> /\ inbox' = Tail(inbox) /\ UNCHANGED <<sent, answers>>
      /\ manager' # <<>> => manager'[2] = Head(inbox)
  BY DEF Take
<1>2. /\ inbox \in Seq(Request) /\ l \in Nat \ {0} /\ DOMAIN inbox = 1 .. l
      /\ Head(inbox) = inbox[1]
  BY DEF TypeInv, RequestType, Take
<1>3. DOMAIN inbox' = 1 .. l - 1 /\ \A k \in 1 .. l - 1 : inbox'[k] = inbox[k + 1]
  BY <1>1, <1>2
<1> HIDE DEF l
<1>4. InboxOK'
  <2>1. \A k \in 1 .. l : Sent(sent, inbox[k])
    BY <1>2 DEF OrderInv, InboxOK
  <2>2. \A k, j \in 1 .. l : k < j => inbox[k].n < inbox[j].n
    BY <1>2 DEF OrderInv, InboxOK
  <2>3. \A k \in 1 .. l - 1 : Sent(sent', inbox'[k])
    BY <1>1, <1>2, <1>3, <2>1 DEF Sent
  <2>4. \A k, j \in 1 .. l - 1 : k < j => inbox'[k].n < inbox'[j].n
    BY <1>2, <1>3, <2>2
  <2>5. QED
    BY <1>3, <2>3, <2>4 DEF InboxOK, Sent
<1>5. HandOK'
  <2>1. Sent(sent, inbox[1]) /\ \A k \in 1 .. l - 1 : inbox[1].n < inbox[k + 1].n
    BY <1>2 DEF OrderInv, InboxOK
  <2>2. QED
    BY <1>1, <1>2, <1>3, <2>1 DEF HandOK, Sent
<1>6. AnsweredOK'
  <2>1. \A i \in DOMAIN answers : answers[i] = "ok" => \A k \in 1 .. l : i < inbox[k].n
    BY <1>2 DEF OrderInv, AnsweredOK
  <2>2. QED
    BY <1>1, <1>2, <1>3, <2>1 DEF AnsweredOK
<1>7. NumberOK'
  BY <1>1 DEF OrderInv, NumberOK
<1>8. QED
  BY <1>4, <1>5, <1>6, <1>7 DEF OrderInv

LEMMA RespondOrder == ASSUME TypeInv, OrderInv, Respond PROVE OrderInv'
<1> DEFINE n == manager[2].n
<1>1. /\ manager # <<>> /\ manager' = <<>> /\ UNCHANGED <<sent, inbox>>
      /\ answers' = [answers EXCEPT ![n] = IF @ = "waiting" THEN manager[1] ELSE @]
  BY DEF Respond, Doing
<1>2. \A k \in DOMAIN inbox : n < inbox[k].n
  BY <1>1 DEF OrderInv, HandOK
<1> HIDE DEF n
<1>3. DOMAIN answers' = DOMAIN answers /\ \A i \in DOMAIN answers : i # n => answers'[i] = answers[i]
  BY <1>1
<1>4. AnsweredOK'
  BY <1>1, <1>2, <1>3 DEF OrderInv, AnsweredOK
<1>5. NumberOK' /\ InboxOK' /\ HandOK'
  BY <1>1 DEF OrderInv, NumberOK, InboxOK, HandOK, Sent
<1>6. QED
  BY <1>4, <1>5 DEF OrderInv

LEMMA InitOrder == Init => OrderInv
  BY DEF Init, OrderInv, NumberOK, InboxOK, HandOK, AnsweredOK, Sent

LEMMA NextOrder == ASSUME TypeInv, OrderInv, [Next]_vars PROVE OrderInv'
<1>1. CASE UNCHANGED control
  BY <1>1 DEF OrderInv, NumberOK, InboxOK, HandOK, AnsweredOK, Sent, control
<1>2. ASSUME NEW a \in Commands, NEW s \in Services \cup {Protected}, Ask(a, s) PROVE OrderInv'
  BY <1>2, AskOrder
<1>3. ASSUME NEW n, GiveUp(n) PROVE OrderInv'
  <2>1. /\ n \in DOMAIN answers /\ answers' = [answers EXCEPT ![n] = "timeout"]
        /\ UNCHANGED <<sent, inbox, manager>>
    BY <1>3 DEF GiveUp
  <2>2. DOMAIN answers' = DOMAIN answers /\ \A i \in DOMAIN answers : answers'[i] \in {answers[i], "timeout"}
    BY <2>1
  <2>3. QED
    BY <2>1, <2>2 DEF OrderInv, NumberOK, InboxOK, HandOK, AnsweredOK, Sent
<1>4. CASE SetPolicy \/ StopContainer \/ ContainerStopped \/ StartContainer \/ DockerFails
  <2>1. manager # <<>> /\ manager'[2] = manager[2] /\ UNCHANGED <<sent, inbox, answers>>
    BY <1>4 DEF SetPolicy, StopContainer, ContainerStopped, StartContainer, DockerFails, Doing
  <2>2. QED
    BY <2>1 DEF OrderInv, NumberOK, InboxOK, HandOK, AnsweredOK, Sent
<1>5. CASE ManagerEnds
  BY <1>5 DEF OrderInv, NumberOK, InboxOK, HandOK, AnsweredOK, Sent, ManagerEnds
<1>6. CASE UNCHANGED vars
  BY <1>1, <1>6 DEF vars
<1>7. ASSUME NEW s \in Services, Runs(s) \/ LogicEnds(s) PROVE OrderInv'
  BY <1>1, <1>7 DEF Runs, LogicEnds, Connect, InitBeat, Beat, Age, Stopped, DockerRestarts
<1>8. CASE NatsChanges \/ Watch \/ Status
  BY <1>1, <1>8 DEF NatsChanges, Watch, Status
<1>9. QED
  BY <1>2, <1>3, <1>4, <1>5, <1>6, <1>7, <1>8, TakeOrder, RespondOrder DEF Next, Manager
-----------------------------------------------------------------------------
(* What a request leaves of a container.                                     *)

Returning == {"restarting", "connecting", "up"}

\* Request r is carried out, and its container is as it says.
Done(r) ==
    /\ r.action = "disable" => policy[r.name] = "no" /\ proc[r.name] = "down"
    /\ r.action = "enable"  => policy[r.name] = "always" /\ proc[r.name] \in Returning

\* The step of a request belongs to its action.
StepOK ==
    manager # <<>> =>
        /\ Doing("policy")  => Action \in {"enable", "disable"}
        /\ Doing("stop")    => Action = "disable"
        /\ Doing("restart") => Action = "restart"
        /\ Doing("stopped") => Action \in {"disable", "restart"}
        /\ Doing("start")   => Action = "enable"

\* Docker stops only what the manager waits for,
StopsOK == \A s \in Services : proc[s] \in {"stopping", "bouncing"} =>
              Doing("stopped") /\ Name = s /\ Action = (IF proc[s] = "stopping" THEN "disable"
                                                        ELSE "restart")

\* the request in hand is carried out up to its step,
WorkOK ==
    manager # <<>> =>
        /\ Doing("stop")  => policy[Name] = "no"
        /\ Doing("start") => policy[Name] = "always"
        /\ Doing("stopped") /\ Action = "disable" =>
              policy[Name] = "no" /\ proc[Name] \in {"stopping", "down"}
        /\ Doing("ok") => Done(manager[2])

\* The latest request about its service, which is managed.
Latest(i) == /\ i \in DOMAIN sent /\ sent[i].name \in Services
             /\ \A j \in DOMAIN sent : sent[j].name = sent[i].name => j <= i

\* and the latest one about a service, if it was answered, holds.
AnswersOK == \A i \in DOMAIN sent : Latest(i) /\ answers[i] = "ok" => Done(sent[i])

AnswerInv == StepOK /\ (~halfway => StopsOK /\ WorkOK /\ AnswersOK)

\* What a process does to its container, left alone by the manager.
Alone ==
    /\ policy' = policy
    /\ \A s \in Services :
          /\ proc[s] = "down" => proc'[s] = "down"
          /\ proc[s] = "stopping" => proc'[s] \in {"stopping", "down"}
          /\ policy[s] = "always" /\ proc[s] \in Returning => proc'[s] \in Returning
          /\ proc'[s] \in {"stopping", "bouncing"} => proc'[s] = proc[s]

LEMMA ProcessAlone ==
    ASSUME TypeInv, NEW s \in Services, Runs(s) \/ LogicEnds(s) PROVE Alone
<1>1. policy' = policy
  BY DEF Runs, LogicEnds, Connect, InitBeat, Beat, Age, Stopped, DockerRestarts, Gone
<1>2. proc \in [Services -> Places]
  BY DEF TypeInv, ProcessType
<1>3. \/ proc' = proc
      \/ /\ proc[s] \in {"connecting", "up", "restarting"}
         /\ \E p \in {"up", "connecting", Restarted(s)} : proc' = [proc EXCEPT ![s] = p]
      \/ proc[s] = "stopping" /\ proc' = [proc EXCEPT ![s] = "down"]
      \/ proc[s] = "bouncing" /\ proc' = [proc EXCEPT ![s] = "connecting"]
  BY DEF Runs, LogicEnds, Connect, InitBeat, Beat, Age, Stopped, DockerRestarts, Gone
<1>4. policy[s] = "always" => Restarted(s) \in Returning
  BY DEF Restarted, Returning
<1>5. Restarted(s) \in {"restarting", "down"}
  BY DEF Restarted
<1>6. QED
  BY <1>1, <1>2, <1>3, <1>4, <1>5 DEF Alone, Returning

LEMMA AloneStays ==
    ASSUME TypeInv, TypeInv', AnswerInv, Alone, UNCHANGED <<sent, answers, inbox, manager, halfway>>
    PROVE  AnswerInv'
<1>1. \A s \in Services : \A r \in Request : r.name = s /\ Done(r) =>
         /\ r.action = "disable" => policy'[s] = "no" /\ proc'[s] = "down"
         /\ r.action = "enable"  => policy'[s] = "always" /\ proc'[s] \in Returning
  BY DEF Alone, Done
<1>2. StepOK'
  BY DEF AnswerInv, StepOK, Doing, Action
<1> SUFFICES ASSUME ~halfway PROVE StopsOK' /\ WorkOK' /\ AnswersOK'
  BY <1>2 DEF AnswerInv
<1>3. StopsOK /\ WorkOK /\ AnswersOK
  BY DEF AnswerInv
<1>4. StopsOK'
  BY <1>3 DEF StopsOK, Alone, Doing, Name, Action
<1>5. WorkOK'
  <2> SUFFICES ASSUME manager # <<>> PROVE WorkOK'
    BY DEF WorkOK
  <2>1. /\ Doing("stop")  => policy'[Name] = "no"
        /\ Doing("start") => policy'[Name] = "always"
        /\ Doing("stopped") /\ Action = "disable" =>
              policy'[Name] = "no" /\ proc'[Name] \in {"stopping", "down"}
    BY <1>3, ManagerHolds DEF WorkOK, Alone
  <2>2. Doing("ok") => Done(manager[2])'
    BY <1>1, <1>3, ManagerHolds DEF WorkOK, Done
  <2>3. QED
    BY <2>1, <2>2 DEF WorkOK, Doing, Name, Action
<1>6. AnswersOK'
  <2> SUFFICES ASSUME NEW i \in DOMAIN sent, Latest(i), answers[i] = "ok" PROVE Done(sent[i])'
    BY DEF AnswersOK, Latest
  <2>1. Done(sent[i]) /\ sent[i] \in Request /\ sent[i].name \in Services
    BY <1>3 DEF AnswersOK, Latest, TypeInv, RequestType
  <2>2. QED
    BY <1>1, <2>1 DEF Done
<1>7. QED
  BY <1>4, <1>5, <1>6

\* The manager has nothing in hand about a service whose latest request is answered.
LEMMA AnsweredRests ==
    ASSUME TypeInv, OrderInv, NEW i \in DOMAIN sent, Latest(i), answers[i] = "ok", manager # <<>>
    PROVE  Name # sent[i].name
<1>1. i \in DOMAIN answers
  BY DEF TypeInv, RequestType
<1>2. i < manager[2].n /\ manager[2].n \in DOMAIN sent /\ sent[manager[2].n] = manager[2]
  BY <1>1 DEF OrderInv, AnsweredOK, HandOK, Sent
<1>3. i \in Nat /\ manager[2].n \in Nat
  BY <1>2 DEF TypeInv, RequestType
<1>4. QED
  BY <1>2, <1>3 DEF Latest, Name

\* The manager works on one container, and leaves the answers about the others alone.
LEMMA OthersKept ==
    ASSUME TypeInv, OrderInv, AnswersOK, manager # <<>>, UNCHANGED <<sent, answers>>,
           \A s \in Services \ {Name} : policy'[s] = policy[s] /\ proc'[s] = proc[s]
    PROVE  AnswersOK'
<1> SUFFICES ASSUME NEW i \in DOMAIN sent, Latest(i), answers[i] = "ok" PROVE Done(sent[i])'
  BY DEF AnswersOK, Latest
<1>1. Done(sent[i]) /\ sent[i].name \in Services \ {Name}
  BY AnsweredRests DEF AnswersOK, Latest
<1>2. QED
  BY <1>1 DEF Done

LEMMA WorkStep ==
    ASSUME TypeInv, OrderInv, AnswerInv,
           SetPolicy \/ StopContainer \/ ContainerStopped \/ StartContainer \/ DockerFails
    PROVE  AnswerInv'
<1>1. /\ manager # <<>> /\ manager'[2] = manager[2] /\ manager' # <<>>
      /\ UNCHANGED <<sent, answers>> /\ (~halfway' => ~halfway)
  <2>1. halfway' = halfway \/ StopWaiting
    BY DEF SetPolicy, StopContainer, ContainerStopped, StartContainer, DockerFails, watch
  <2>2. ~halfway' => ~halfway
    BY <2>1 DEF StopWaiting
  <2>3. /\ manager # <<>> /\ manager'[2] = manager[2] /\ manager' # <<>>
        /\ UNCHANGED <<sent, answers>>
    BY DEF SetPolicy, StopContainer, ContainerStopped, StartContainer, DockerFails, Doing
  <2>4. QED
    BY <2>2, <2>3
<1>2. /\ Name \in Services /\ Name' = Name /\ Action' = Action
      /\ Name = manager[2].name /\ Action = manager[2].action /\ Action \in Commands
  BY <1>1, ManagerHolds DEF Name, Action, Request
<1>3. proc \in [Services -> Places] /\ policy \in [Services -> {"always", "no"}]
  BY DEF TypeInv, ProcessType
<1>4. StepOK'
  BY <1>1, <1>2 DEF AnswerInv, StepOK, SetPolicy, StopContainer, ContainerStopped, StartContainer,
                    DockerFails, AfterPolicy, Doing, Commands
<1> SUFFICES ASSUME ~halfway, ~halfway' PROVE StopsOK' /\ WorkOK' /\ AnswersOK'
  BY <1>1, <1>4 DEF AnswerInv
<1>5. StepOK /\ StopsOK /\ WorkOK /\ AnswersOK
  BY DEF AnswerInv
<1>6. \A s \in Services \ {Name} : policy'[s] = policy[s] /\ proc'[s] = proc[s]
  BY <1>2, <1>3 DEF SetPolicy, StopContainer, ContainerStopped, StartContainer, DockerFails, process
<1>7. AnswersOK'
  BY <1>1, <1>5, <1>6, OthersKept
<1>8. CASE SetPolicy
  <2>1. /\ Doing("policy") /\ ~Doing("stopped") /\ UNCHANGED proc /\ Action \in {"enable", "disable"}
        /\ policy'[Name] = IF Action = "disable" THEN "no" ELSE "always"
        /\ manager'[1] = IF Action = "disable" THEN "stop" ELSE "start"
    BY <1>1, <1>2, <1>3, <1>5, <1>8 DEF SetPolicy, Doing, StepOK, AfterPolicy
  <2>2. StopsOK'
    BY <1>5, <2>1 DEF StopsOK
  <2>3. WorkOK'
    BY <1>1, <1>2, <2>1 DEF WorkOK, Doing
  <2>4. QED
    BY <1>7, <2>2, <2>3
<1>9. CASE StopContainer
  <2>1. \A s \in Services : proc[s] \notin {"stopping", "bouncing"}
    BY <1>5, <1>9 DEF StopsOK, StopContainer, Doing
  <2>2. /\ manager'[1] = "stopped" /\ UNCHANGED policy
        /\ proc' = [proc EXCEPT ![Name] =
                      IF @ \in {"connecting", "up"}
                      THEN IF Doing("restart") THEN "bouncing" ELSE "stopping"
                      ELSE IF @ \in {"down", "restarting"}
                           THEN IF Doing("restart") THEN "connecting" ELSE "down"
                           ELSE @]
    BY <1>9 DEF StopContainer
  <2>3. proc'[Name] \in IF Doing("restart") THEN {"bouncing", "connecting"} ELSE {"stopping", "down"}
    BY <1>2, <1>3, <2>1, <2>2 DEF Places
  <2>4. IF Doing("restart") THEN Action = "restart" ELSE Action = "disable" /\ policy[Name] = "no"
    BY <1>1, <1>5, <1>9 DEF StepOK, WorkOK, StopContainer
  <2>5. StopsOK'
    BY <1>1, <1>2, <1>6, <2>1, <2>2, <2>3, <2>4 DEF StopsOK, Doing
  <2>6. WorkOK'
    BY <1>1, <1>2, <2>2, <2>3, <2>4 DEF WorkOK, Doing
  <2>7. QED
    BY <1>7, <2>5, <2>6
<1>10. CASE ContainerStopped
  <2>1. /\ Doing("stopped") /\ proc[Name] \notin {"stopping", "bouncing"} /\ UNCHANGED <<proc, policy>>
        /\ manager'[1] = "ok"
    BY <1>10 DEF ContainerStopped, process
  <2>2. StopsOK'
    BY <1>5, <2>1 DEF StopsOK
  <2>3. Action = "restart" \/ (Action = "disable" /\ policy[Name] = "no" /\ proc[Name] = "down")
    BY <1>1, <1>5, <2>1 DEF StepOK, WorkOK
  <2>4. WorkOK'
    BY <1>1, <1>2, <2>1, <2>3 DEF WorkOK, Doing, Done
  <2>5. QED
    BY <1>7, <2>2, <2>4
<1>11. CASE StartContainer
  <2>1. \A s \in Services : proc[s] \notin {"stopping", "bouncing"}
    BY <1>5, <1>11 DEF StopsOK, StartContainer, Doing
  <2>2. /\ manager'[1] = "ok" /\ UNCHANGED policy /\ Action = "enable" /\ policy[Name] = "always"
        /\ proc' = [proc EXCEPT ![Name] = IF @ \in {"down", "restarting"} THEN "connecting" ELSE @]
    BY <1>1, <1>5, <1>11 DEF StartContainer, StepOK, WorkOK
  <2>3. proc'[Name] \in Returning
    BY <1>2, <1>3, <2>1, <2>2 DEF Places, Returning
  <2>4. StopsOK'
    BY <1>6, <2>1, <2>3 DEF StopsOK, Returning
  <2>5. WorkOK'
    BY <1>1, <1>2, <2>2, <2>3 DEF WorkOK, Doing, Done
  <2>6. QED
    BY <1>7, <2>4, <2>5
<1>12. CASE DockerFails
  <2>1. /\ Doing("stopped") => proc[Name] \notin {"stopping", "bouncing"}
        /\ UNCHANGED <<proc, policy>> /\ manager'[1] = "error"
    BY <1>12 DEF DockerFails, StopWaiting, process
  <2>2. StopsOK'
    BY <1>5, <2>1 DEF StopsOK
  <2>3. WorkOK'
    BY <2>1 DEF WorkOK, Doing
  <2>4. QED
    BY <1>7, <2>2, <2>3
<1>13. QED
  BY <1>8, <1>9, <1>10, <1>11, <1>12

LEMMA AskAnswers ==
    ASSUME TypeInv, AnswerInv, NEW a \in Commands, NEW s \in Services \cup {Protected}, Ask(a, s)
    PROVE  AnswerInv'
<1>1. UNCHANGED <<policy, proc, manager, halfway>>
  BY DEF Ask, process, watch
<1>2. StepOK' /\ (StopsOK => StopsOK') /\ (WorkOK => WorkOK')
  BY <1>1 DEF AnswerInv, StepOK, StopsOK, WorkOK, Doing, Name, Action, Done
<1>3. ASSUME AnswersOK PROVE AnswersOK'
  <2> DEFINE m == Len(sent)
             r == [n |-> Len(sent) + 1, action |-> a, name |-> s]
  <2>1. sent' = Append(sent, r) /\ answers' = Append(answers, "waiting")
    BY DEF Ask
  <2>2. /\ sent \in Seq(Request) /\ answers \in Seq(Results) /\ m \in Nat /\ Len(answers) = m
        /\ DOMAIN sent = 1 .. m
    BY DEF TypeInv, RequestType
  <2> HIDE DEF r, m
  <2>3. /\ DOMAIN sent' = 1 .. m + 1 /\ answers'[m + 1] = "waiting"
        /\ \A i \in 1 .. m : sent'[i] = sent[i] /\ answers'[i] = answers[i]
    BY <2>1, <2>2 DEF m
  <2> SUFFICES ASSUME NEW i \in DOMAIN sent', Latest(i)', answers'[i] = "ok" PROVE Done(sent[i])'
    BY DEF AnswersOK
  <2>4. i \in 1 .. m
    BY <2>2, <2>3
  <2>5. Latest(i)
    BY <2>2, <2>3, <2>4 DEF Latest
  <2>6. Done(sent[i])
    BY <1>3, <2>2, <2>3, <2>4, <2>5 DEF AnswersOK
  <2>7. QED
    BY <1>1, <2>3, <2>4, <2>6 DEF Done
<1>4. QED
  BY <1>1, <1>2, <1>3 DEF AnswerInv

LEMMA GiveUpAnswers == ASSUME AnswerInv, NEW n, GiveUp(n) PROVE AnswerInv'
<1>1. /\ n \in DOMAIN answers /\ answers' = [answers EXCEPT ![n] = "timeout"]
      /\ UNCHANGED <<policy, proc, sent, manager, halfway>>
  BY DEF GiveUp, process, watch
<1>2. \A i : answers'[i] = "ok" /\ i \in DOMAIN answers => answers[i] = "ok"
  BY <1>1
<1>3. StepOK' /\ (StopsOK => StopsOK') /\ (WorkOK => WorkOK')
  BY <1>1 DEF AnswerInv, StepOK, StopsOK, WorkOK, Doing, Name, Action, Done
<1>4. \A i : i \in DOMAIN sent /\ answers'[i] = "ok" => answers[i] = "ok"
  BY <1>1
<1>5. AnswersOK => AnswersOK'
  BY <1>1, <1>4 DEF AnswersOK, Latest, Done
<1>6. QED
  BY <1>1, <1>3, <1>5 DEF AnswerInv

LEMMA TakeAnswers == ASSUME TypeInv, AnswerInv, Take PROVE AnswerInv'
<1>1. /\ manager = <<>> /\ UNCHANGED <<policy, proc, sent, answers, halfway>>
      /\ manager' # <<>> => manager' = <<FirstStep(Head(inbox)), Head(inbox)>>
  BY DEF Take, process, watch
<1>2. Head(inbox).action \in Commands
  <2>1. Head(inbox) \in Request
    BY DEF TypeInv, RequestType, Take
  <2>2. QED
    BY <2>1 DEF Request
<1>3. manager' # <<>> => \/ manager'[1] = "restart" /\ manager'[2].action = "restart"
                         \/ manager'[1] = "policy" /\ manager'[2].action \in {"enable", "disable"}
  BY <1>1, <1>2 DEF FirstStep, Commands
<1>4. StepOK' /\ WorkOK'
  BY <1>3 DEF StepOK, WorkOK, Doing, Action
<1>5. (StopsOK => StopsOK') /\ (AnswersOK => AnswersOK')
  BY <1>1 DEF StopsOK, AnswersOK, Latest, Done, Doing
<1>6. QED
  BY <1>1, <1>4, <1>5 DEF AnswerInv

LEMMA RespondAnswers == ASSUME TypeInv, OrderInv, AnswerInv, Respond PROVE AnswerInv'
<1> DEFINE n == manager[2].n
<1>1. /\ manager # <<>> /\ manager' = <<>> /\ ~Doing("stopped") /\ manager[1] \in {"ok", "error"}
      /\ UNCHANGED <<policy, proc, sent, halfway>>
      /\ answers' = [answers EXCEPT ![n] = IF @ = "waiting" THEN manager[1] ELSE @]
  BY DEF Respond, Doing, process, watch
<1>2. n \in DOMAIN sent /\ sent[n] = manager[2] /\ DOMAIN sent = DOMAIN answers
  BY <1>1 DEF OrderInv, HandOK, Sent, TypeInv, RequestType
<1> HIDE DEF n
<1>3. \A i \in DOMAIN sent : answers'[i] = "ok" => answers[i] = "ok" \/ (i = n /\ manager[1] = "ok")
  BY <1>1, <1>2
<1>4. StepOK' /\ WorkOK' /\ (StopsOK => StopsOK')
  BY <1>1 DEF StepOK, WorkOK, StopsOK
<1>5. ASSUME WorkOK, AnswersOK PROVE AnswersOK'
  <2> SUFFICES ASSUME NEW i \in DOMAIN sent, Latest(i), answers'[i] = "ok" PROVE Done(sent[i])
    BY <1>1 DEF AnswersOK, Latest, Done
  <2>1. CASE answers[i] = "ok"
    BY <1>5, <2>1 DEF AnswersOK
  <2>2. CASE i = n /\ manager[1] = "ok"
    BY <1>1, <1>2, <1>5, <2>2 DEF WorkOK, Doing
  <2>3. QED
    BY <1>3, <2>1, <2>2
<1>6. QED
  BY <1>1, <1>4, <1>5 DEF AnswerInv

LEMMA ManagerEndsAnswers == ASSUME AnswerInv, ManagerEnds PROVE AnswerInv'
<1>1. /\ manager' = <<>> /\ UNCHANGED <<policy, proc, sent, answers>>
      /\ ~halfway' => ~halfway /\ (Doing("stopped") => proc[Name] \notin {"stopping", "bouncing"})
  BY DEF ManagerEnds, StopWaiting, process
<1>2. StepOK' /\ WorkOK' /\ (AnswersOK => AnswersOK')
  BY <1>1 DEF StepOK, WorkOK, AnswersOK, Latest, Done
<1>3. StopsOK /\ (Doing("stopped") => proc[Name] \notin {"stopping", "bouncing"}) => StopsOK'
  BY <1>1 DEF StopsOK
<1>4. QED
  BY <1>1, <1>2, <1>3 DEF AnswerInv

LEMMA InitAnswers == Init => AnswerInv
  BY DEF Init, AnswerInv, StepOK, StopsOK, WorkOK, AnswersOK, Latest

LEMMA NextAnswers == ASSUME TypeInv, TypeInv', OrderInv, AnswerInv, [Next]_vars PROVE AnswerInv'
<1>1. ASSUME NEW a \in Commands, NEW s \in Services \cup {Protected}, Ask(a, s) PROVE AnswerInv'
  BY <1>1, AskAnswers
<1>2. ASSUME NEW n, GiveUp(n) PROVE AnswerInv'
  BY <1>2, GiveUpAnswers
<1>3. ASSUME NEW s \in Services, Runs(s) \/ LogicEnds(s) PROVE AnswerInv'
  <2>1. UNCHANGED <<sent, answers, inbox, manager, halfway>>
    BY <1>3 DEF Runs, LogicEnds, Connect, InitBeat, Beat, Age, Stopped, DockerRestarts, control,
                watch
  <2>2. QED
    BY <1>3, <2>1, ProcessAlone, AloneStays
<1>4. CASE NatsChanges \/ Watch \/ Status \/ UNCHANGED vars
  <2>1. UNCHANGED <<sent, answers, inbox, manager, halfway, policy, proc>>
    BY <1>4 DEF NatsChanges, Watch, Status, vars, process, control, watch
  <2>2. Alone
    BY <2>1 DEF Alone
  <2>3. QED
    BY <2>1, <2>2, AloneStays
<1>5. QED
  BY <1>1, <1>2, <1>3, <1>4, TakeAnswers, RespondAnswers, ManagerEndsAnswers, WorkStep
     DEF Next, Manager

\* What the latest request about a service was answered holds: a disabled service is down and
\* stays down, an enabled one is started whenever it ends.  However many requests are made,
\* given up, failed or carried out late, the manager takes them in their order, so that none undoes
\* what a later one was answered.
THEOREM AnswersHold == Spec => []AnswerHolds
<1>1. TypeInv /\ OrderInv /\ AnswerInv /\ [Next]_vars => (TypeInv /\ OrderInv /\ AnswerInv)'
  BY NextTypes, NextOrder, NextAnswers
<1>2. TypeInv /\ AnswerInv => AnswerHolds
  <2> SUFFICES ASSUME TypeInv, AnswerInv, ~halfway, NEW s \in Services, NEW i \in Of(s),
                      \A j \in Of(s) : j <= i, answers[i] = "ok"
               PROVE  /\ sent[i].action = "disable" => policy[s] = "no" /\ proc[s] = "down"
                      /\ sent[i].action = "enable"  => policy[s] = "always" /\ proc[s] # "down"
    BY DEF AnswerHolds
  <2>1. Latest(i) /\ sent[i].name = s
    BY DEF Latest, Of
  <2>2. QED
    BY <2>1 DEF AnswerInv, AnswersOK, Latest, Done, Returning
<1>3. QED
  BY <1>1, <1>2, InitTypes, InitOrder, InitAnswers, PTL DEF Spec
=============================================================================
