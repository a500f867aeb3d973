------------------------------- MODULE Services -------------------------------
(***************************************************************************)
(* The life of the services: BaseService (libs/messaging) connects to      *)
(* NATS, beats in the KV bucket service_health and runs the business       *)
(* logic; Docker restarts what exits; people enable, disable and restart   *)
(* services through the api-gateway, which asks the system-manager, which  *)
(* asks Docker; the health-watchdog and the gateway's status page look at  *)
(* the bucket.                                                             *)
(*                                                                         *)
(* An action is what lies between two awaits, or one call of the Docker    *)
(* API: those block the system-manager until they are answered.            *)
(***************************************************************************)
EXTENDS Integers, Sequences, FiniteSets

CONSTANTS
    Services,     \* MANAGED_SERVICES that are deployed
    Protected,    \* a name that is not managed
    MaxRequests,  \* bound: requests of people
    MaxFaults     \* bound: failing calls, exits, outages of NATS

ASSUME ServicesAssumption ==
    /\ Services # {} /\ Protected \notin Services
    /\ {MaxRequests, MaxFaults} \subseteq Nat

Commands == {"enable", "disable", "restart"}
Numbers  == 1 .. MaxRequests
Request  == [n : Numbers, action : Commands, name : Services \cup {Protected}]

VARIABLES
    nats,     \* the NATS server can be reached
    \* a container and its process
    policy,   \* RestartPolicy: "always", "no"
    proc,     \* "down", "restarting" (Docker will start it), "connecting", "up",
              \* "stopping", "bouncing" (Docker stops it and will start it)
    beat,     \* _heartbeat_task: "off", "init", "on"
    logic,    \* run_business_logic is running
    key,      \* its entry of service_health: "none", "recent", "old" (over 30 seconds)
    \* the gateway and the system-manager
    sent,     \* the last request of each service: a sequence of requests so far
    answers,  \* number of a request -> "waiting", "ok", "error", "timeout"
    inbox,    \* requests on system.service_control that wait for the system-manager
    manager,  \* _handle_service_control: <<>>, or <<what it does next, request>>
    \* the observers of the bucket
    alerts,   \* services that the last check of the health-watchdog found down
    shown,    \* what /admin/status showed last: service -> status
    faults,
    halfway      \* observer: Docker stopped a container, and nobody waited for it

process == <<policy, proc, beat, logic, key>>
control == <<sent, answers, inbox, manager>>
watch   == <<alerts, shown, halfway>>
vars == <<nats, process, control, watch, faults>>

Fault == faults < MaxFaults /\ faults' = faults + 1
-----------------------------------------------------------------------------
(* BaseService, and Docker's restart policy.                               *)

\* The process is gone; Docker starts it again if its policy says so.
Gone(s, next) ==
    /\ proc' = [proc EXCEPT ![s] = next]
    /\ beat' = [beat EXCEPT ![s] = "off"] /\ logic' = [logic EXCEPT ![s] = FALSE]

\* Mutant: without NATS the process waits for a signal.
ConnectHangs(s) ==
    /\ proc[s] = "connecting"
    /\ proc' = [proc EXCEPT ![s] = "up"]
    /\ IF nats THEN beat' = [beat EXCEPT ![s] = "init"] /\ logic' = [logic EXCEPT ![s] = TRUE]
       ELSE UNCHANGED <<beat, logic>>
    /\ UNCHANGED <<nats, policy, key, control, watch, faults>>

Restarted(s) == IF policy[s] = "always" THEN "restarting" ELSE "down"

\* start connects, and runs both tasks; without NATS it returns.
Connect(s) ==
    /\ proc[s] = "connecting"
    /\ IF nats THEN /\ proc' = [proc EXCEPT ![s] = "up"]
                    /\ beat' = [beat EXCEPT ![s] = "init"]
                    /\ logic' = [logic EXCEPT ![s] = TRUE]
       ELSE Gone(s, Restarted(s))
    /\ UNCHANGED <<nats, policy, key, control, watch, faults>>

\* _heartbeat_task makes the bucket; when that fails it never beats.
InitBeat(s) ==
    /\ proc[s] = "up" /\ beat[s] = "init"
    /\ \/ nats /\ beat' = [beat EXCEPT ![s] = "on"] /\ UNCHANGED faults
       \/ beat' = [beat EXCEPT ![s] = "off"] /\ (IF nats THEN Fault ELSE UNCHANGED faults)
    /\ UNCHANGED <<nats, policy, proc, logic, key, control, watch>>

\* Every two seconds it puts its entry, or tries again.
Beat(s) ==
    /\ proc[s] = "up" /\ beat[s] = "on" /\ nats
    /\ key' = [key EXCEPT ![s] = "recent"]
    /\ UNCHANGED <<nats, policy, proc, beat, logic, control, watch, faults>>

\* Half a minute goes by without a beat.  The entry stays: the bucket is created with
\* a ttl of 5 * 1000000000, which the library counts in seconds, like max_age.
Age(s) ==
    /\ key[s] = "recent" /\ ~(proc[s] = "up" /\ beat[s] = "on" /\ nats)
    /\ key' = [key EXCEPT ![s] = "old"]
    /\ UNCHANGED <<nats, policy, proc, beat, logic, control, watch, faults>>

\* run_business_logic returns early, and the heartbeat goes on; or it raises, which
\* cancels the heartbeat and ends the process.
LogicEnds(s) ==
    /\ proc[s] = "up" /\ logic[s] /\ Fault
    /\ \/ logic' = [logic EXCEPT ![s] = FALSE] /\ UNCHANGED <<proc, beat>>
       \/ Gone(s, Restarted(s))
    /\ UNCHANGED <<nats, policy, key, control, watch>>

\* A signal sets stop_event and both tasks end, or the process is killed.
Stopped(s) ==
    /\ \/ proc[s] = "stopping" /\ Gone(s, "down")
       \/ proc[s] = "bouncing" /\ Gone(s, "connecting")
    /\ UNCHANGED <<nats, policy, key, control, watch, faults>>

DockerRestarts(s) ==
    /\ proc[s] = "restarting"
    /\ proc' = [proc EXCEPT ![s] = "connecting"]
    /\ UNCHANGED <<nats, policy, beat, logic, key, control, watch, faults>>

NatsChanges ==
    /\ nats' = ~nats
    /\ IF nats THEN Fault ELSE UNCHANGED faults
    /\ UNCHANGED <<process, control, watch>>
-----------------------------------------------------------------------------
(* The requests, from the gateway to Docker.                               *)

\* enable_service, disable_service, restart_service of the gateway: nc.request.
Ask(action, name) ==
    /\ Len(sent) < MaxRequests
    /\ LET r == [n |-> Len(sent) + 1, action |-> action, name |-> name]
       IN  sent' = Append(sent, r) /\ inbox' = Append(inbox, r)
    /\ answers' = Append(answers, "waiting")
    /\ UNCHANGED <<nats, process, manager, watch, faults>>

\* Ten seconds go by, and the gateway answers 504; the request stays where it is.
GiveUp(n) ==
    /\ n \in DOMAIN answers /\ answers[n] = "waiting"
    /\ answers' = [answers EXCEPT ![n] = "timeout"]
    /\ UNCHANGED <<nats, process, sent, inbox, manager, watch, faults>>

FirstStep(r) == IF r.action = "restart" THEN "restart" ELSE "policy"

\* Mutant: every request is handled by a task of its own.
TakeAny ==
    /\ manager = <<>>
    /\ \E i \in DOMAIN inbox :
          /\ manager' = IF inbox[i].name \in Services
                        THEN <<FirstStep(inbox[i]), inbox[i]>> ELSE <<>>
          /\ inbox' = SubSeq(inbox, 1, i - 1) \o SubSeq(inbox, i + 1, Len(inbox))
    /\ UNCHANGED <<nats, process, sent, answers, watch, faults>>

\* _handle_service_control takes one request after the other.  _require_managed
\* raises for a name that is not managed, and nobody answers.
Take ==
    /\ manager = <<>> /\ inbox # <<>>
    /\ manager' = IF Head(inbox).name \in Services
                  THEN <<FirstStep(Head(inbox)), Head(inbox)>> ELSE <<>>
    /\ inbox' = Tail(inbox)
    /\ UNCHANGED <<nats, process, sent, answers, watch, faults>>

Doing(step) == manager # <<>> /\ manager[1] = step
Name   == manager[2].name
Action == manager[2].action

\* c.update comes first, then c.stop or c.start.
AfterPolicy == IF Action = "disable" THEN "stop" ELSE "start"

SetPolicy ==
    /\ Doing("policy")
    /\ policy' = [policy EXCEPT ![Name] = IF Action = "disable" THEN "no" ELSE "always"]
    /\ manager' = <<AfterPolicy, manager[2]>>
    /\ UNCHANGED <<nats, proc, beat, logic, key, sent, answers, inbox, watch, faults>>

\* c.stop and c.restart: Docker signals the process.
StopContainer ==
    /\ Doing("stop") \/ Doing("restart")
    /\ LET again == Doing("restart")
       IN  proc' = [proc EXCEPT ![Name] =
                      IF @ \in {"connecting", "up"} THEN IF again THEN "bouncing" ELSE "stopping"
                      ELSE IF @ \in {"down", "restarting"}
                           THEN IF again THEN "connecting" ELSE "down"
                           ELSE @]
    /\ manager' = <<"stopped", manager[2]>>
    /\ UNCHANGED <<nats, policy, beat, logic, key, sent, answers, inbox, watch, faults>>

\* The call returns when it has stopped.
ContainerStopped ==
    /\ Doing("stopped") /\ proc[Name] \notin {"stopping", "bouncing"}
    /\ manager' = <<"ok", manager[2]>>
    /\ UNCHANGED <<nats, process, sent, answers, inbox, watch, faults>>

\* c.start, which leaves a running container alone.
StartContainer ==
    /\ Doing("start")
    /\ proc' = [proc EXCEPT ![Name] = IF @ \in {"down", "restarting"} THEN "connecting" ELSE @]
    /\ manager' = <<"ok", manager[2]>>
    /\ UNCHANGED <<nats, policy, beat, logic, key, sent, answers, inbox, watch, faults>>

\* Docker goes on stopping the container that the system-manager no longer waits for.
StopWaiting ==
    halfway' = (halfway \/ (Doing("stopped") /\ proc[Name] \in {"stopping", "bouncing"}))

\* A call of the Docker API fails, c.stop and c.restart before or after the signal; what
\* was done until then stays done.
DockerFails ==
    /\ manager # <<>> /\ manager[1] \notin {"ok", "error"} /\ Fault
    /\ manager' = <<"error", manager[2]>>
    /\ StopWaiting
    /\ UNCHANGED <<nats, process, sent, answers, inbox, alerts, shown>>

\* msg.respond; an answer that comes too late is dropped.
Respond ==
    /\ Doing("ok") \/ Doing("error")
    /\ answers' = [answers EXCEPT ![manager[2].n] = IF @ = "waiting" THEN manager[1] ELSE @]
    /\ manager' = <<>>
    /\ UNCHANGED <<nats, process, sent, inbox, watch, faults>>

\* The system-manager ends, with the requests that it had not handled.
ManagerEnds ==
    /\ manager # <<>> /\ Fault
    /\ manager' = <<>> /\ inbox' = <<>>
    /\ StopWaiting
    /\ UNCHANGED <<nats, process, sent, answers, alerts, shown>>
-----------------------------------------------------------------------------
(* Who looks at the bucket.                                                *)

\* _check_services: every service without an entry is down; an empty or a missing
\* bucket says nothing.
Watch ==
    /\ nats
    /\ alerts' = LET down == {s \in Services : key[s] = "none"}
                 IN  IF down = Services THEN alerts ELSE down
    /\ UNCHANGED <<nats, process, control, shown, faults, halfway>>

\* Mutant: the age of an entry is not looked at.
AnyAge(s) == IF key[s] = "none" THEN "absent" ELSE "running"

\* _get_service_heartbeats.
Heartbeat(s) == CASE key[s] = "none"   -> "absent"
                  [] key[s] = "recent" -> "running"
                  [] key[s] = "old"    -> "stale"

Status ==
    /\ nats
    /\ shown' = [s \in Services |-> Heartbeat(s)]
    /\ UNCHANGED <<nats, process, control, alerts, faults, halfway>>
-----------------------------------------------------------------------------
Init ==
    /\ nats = TRUE
    /\ policy = [s \in Services |-> "always"] /\ proc = [s \in Services |-> "connecting"]
    /\ beat = [s \in Services |-> "off"] /\ logic = [s \in Services |-> FALSE]
    /\ key = [s \in Services |-> "none"]
    /\ sent = <<>> /\ answers = <<>> /\ inbox = <<>> /\ manager = <<>>
    /\ alerts = {} /\ shown = [s \in Services |-> "absent"]
    /\ faults = 0 /\ halfway = FALSE

Runs(s)  == Connect(s) \/ InitBeat(s) \/ Beat(s) \/ Age(s) \/ Stopped(s) \/ DockerRestarts(s)
Manager  == \/ Take \/ SetPolicy \/ StopContainer \/ ContainerStopped \/ StartContainer
            \/ Respond

Next == \/ \E s \in Services : Runs(s) \/ LogicEnds(s)
        \/ \E a \in Commands, s \in Services \cup {Protected} : Ask(a, s)
        \/ \E n \in Numbers : GiveUp(n)
        \/ NatsChanges \/ Manager \/ DockerFails \/ ManagerEnds \/ Watch \/ Status

Spec == Init /\ [][Next]_vars

\* Processes and Docker make progress, outages of NATS end, and the bucket is looked at
\* again and again.
FairSpec == /\ Spec /\ WF_vars(Manager) /\ WF_vars(~nats /\ NatsChanges)
            /\ WF_vars(Watch) /\ WF_vars(Status)
            /\ \A s \in Services : WF_vars(Runs(s) /\ ~Beat(s))
-----------------------------------------------------------------------------
\* Every variable has its type; tasks live in a process that is up, or being stopped.
TypeOK ==
    /\ nats \in BOOLEAN /\ policy \in [Services -> {"always", "no"}]
    /\ proc \in [Services -> {"down", "restarting", "connecting", "up", "stopping",
                         "bouncing"}]
    /\ beat \in [Services -> {"off", "init", "on"}] /\ logic \in [Services -> BOOLEAN]
    /\ \A s \in Services :
          logic[s] \/ beat[s] # "off" => proc[s] \in {"up", "stopping", "bouncing"}
    /\ key \in [Services -> {"none", "recent", "old"}]
    /\ sent \in Seq(Request) /\ inbox \in Seq(Request)
    /\ answers \in Seq({"waiting", "ok", "error", "timeout"}) /\ Len(answers) = Len(sent)
    /\ manager # <<>> => /\ manager[2] \in Request /\ Name \in Services
                         /\ manager[1] \in {"policy", "stop", "restart", "stopped", "start",
                                           "ok", "error"}
    /\ alerts \subseteq Services
    /\ shown \in [Services -> {"absent", "running", "stale"}]
    /\ faults \in 0 .. MaxFaults /\ halfway \in BOOLEAN

\* The requests of one service.
Of(s) == {i \in DOMAIN sent : sent[i].name = s}

\* What the latest request about a service was answered holds: a disabled service is
\* down and stays down, an enabled one is started whenever it ends.  A request that
\* was answered 504 and is carried out later does not undo it, nor does one that
\* failed halfway, unless Docker went on stopping a container that nobody waited for.
AnswerHolds ==
    ~halfway => \A s \in Services : \A i \in Of(s) :
        (\A j \in Of(s) : j <= i) /\ answers[i] = "ok" =>
            /\ sent[i].action = "disable" => policy[s] = "no" /\ proc[s] = "down"
            /\ sent[i].action = "enable"  => policy[s] = "always" /\ proc[s] # "down"

\* A service that Docker is to restart is back, or stopped on request, in the end: a
\* start without NATS ends the process and so is repeated.
ServicesReturn ==
    \A s \in Services : proc[s] = "restarting" ~> (beat[s] # "off" \/ policy[s] = "no"
                                                     \/ proc[s] \in {"stopping", "down"})

\* The status page shows in the end that a service is down, if it ever beat.
StaleShown ==
    \A s \in Services :
        proc[s] = "down" ~> (shown[s] # "running" \/ proc[s] # "down")

\* So do the alerts of the health-watchdog, since the entry of a service that is down
\* expires after five seconds.
DownReported ==
    \A s \in Services : proc[s] = "down" /\ key[s] # "none" ~> (s \in alerts \/ proc[s] # "down")
=============================================================================
