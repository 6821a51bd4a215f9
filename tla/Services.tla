------------------------------ MODULE Services ------------------------------
(***************************************************************************)
(* Starting, stopping and restarting services at run time: ServiceProvider *)
(* and the service command, with three services that use it differently.   *)
(*                                                                         *)
(*   MQTT  keeps up to three interval tasks by id and makes a one-shot     *)
(*         task for every change of its configuration                      *)
(*   MDNS  listens for the station's address, never takes the listener     *)
(*         back, and latches a flag while its certificate task is due      *)
(*   CRON  has no tasks; its listener is removed on stop, and its jobs run *)
(*         service commands from inside the event's dispatch               *)
(*                                                                         *)
(* The scheduler is the table of ServiceTasks; the pass of handle_tasks    *)
(* itself is in TaskScheduler.  A pass runs one callback and then reaps;   *)
(* between the two it yields to the SDK, which delivers address events.    *)
(* Commands and configuration changes come from outside the pass (serial   *)
(* events and web requests in PDIStack::serve), with tasks still unreaped. *)
(***************************************************************************)
EXTENDS ServiceTasks, EventBus

CONSTANTS
    PublishChoices,  \* bound: whether a configuration has a publish frequency
    KeepChoices,     \* bound: whether it has a keep-alive time
    MaxOps           \* bound: commands, events and configuration changes

ASSUME ServicesAssumption ==
    /\ Services = {"MQTT", "MDNS", "CRON"}
    /\ PublishChoices \subseteq BOOLEAN /\ KeepChoices \subseteq BOOLEAN
    /\ MaxOps \in Nat

Jobs == {"init", "timer", "publish", "subscribe", "cert"}
Intervals == {"timer", "publish", "subscribe"}
JobsOf(p) == CASE p = "MQTT" -> Intervals \cup {"init"}
               [] p = "MDNS" -> {"cert"}
               [] OTHER -> {}
BootOrder == <<"MQTT", "MDNS", "CRON">>

VARIABLES
    tasks,     \* the record of ServiceTasks
    state,     \* m_service_state
    cached,    \* m_mqtt_timer_cb_id, and those of publish and subscribe
    pending,   \* m_cert_task_pending
    bus,       \* the record of EventBus
    cronId,    \* m_listener_id
    scanning,  \* m_scanning
    at,        \* the listener the minute event is running, 0 when none is
    quiet,     \* services nothing has asked anything of since they stopped
    excused,   \* history: what has happened that the properties depend on
    due,       \* a callback has run and the pass has yet to reap
    ops        \* how many operations there have been

vars == <<tasks, state, cached, pending, bus, cronId, scanning, at, quiet,
          excused, due, ops>>

Init ==
    /\ tasks = NoTasks
    /\ state = [p \in Services |-> "BOOT"]
    /\ cached = [j \in Intervals |-> 0]
    /\ pending = FALSE
    /\ bus = EmptyBus
    /\ cronId = NoListener
    /\ scanning = FALSE
    /\ at = 0
    /\ quiet = {}
    /\ excused = {}
    /\ due = FALSE
    /\ ops = 0

Booted == \A p \in Services : state[p] # "BOOT"
Loop == Booted /\ ~due       \* the loop may take up something new
Idle == Loop /\ at = 0        \* and is not inside a cron job

Operation == ops < MaxOps /\ ops' = ops + 1 /\ due' = due

Live(p) == {s \in Slots : tasks.job[s] \in JobsOf(p) /\ s \notin tasks.dead}

-----------------------------------------------------------------------------
\* an id kept from a task that was killed may by now name somebody else's
Steals(t, id, j) == Registered(t, id) /\ t.job[SlotOf(t, id)] # j

\* one interval of the MQTT service, on or off: serviceUpdateInterval with the
\* id it had, or clearInterval and 0.  r holds the tasks, the ids, and whether
\* an update has taken over a task it did not make.
Interval(r, j, on) ==
    IF on THEN [t |-> ServiceUpdate(r.t, "MQTT", r.c[j], j),
                c |-> [r.c EXCEPT ![j] = UpdatedId(r.t, r.c[j])],
                x |-> r.x \/ Steals(r.t, r.c[j], j)]
          ELSE [t |-> ClearTask(r.t, r.c[j]), c |-> [r.c EXCEPT ![j] = 0],
                x |-> r.x]

Before(t, c) == [t |-> t, c |-> c, x |-> FALSE]
Stolen(r) == IF r.x THEN {"stolen"} ELSE {}

\* handleMqttConfigChange, with or without a new connection
Reconfigured(r, general, publishes, keepsAlive) ==
    LET r1 == IF general THEN [r EXCEPT !.t = ServiceSet(@, "MQTT", "init")]
              ELSE r
        r2 == Interval(r1, "publish", publishes)
    IN  Interval(r2, "subscribe", keepsAlive)

\* ensureServerCertificate
Ensured(t, p) ==
    IF p THEN [t |-> t, p |-> p]
    ELSE [t |-> ServiceSet(t, "MDNS", "cert"), p |-> TRUE]

\* initService of each service, from the tasks, ids, flag and list it finds
StartMqtt(t, c) ==
    \/ /\ \E pub \in PublishChoices, keep \in KeepChoices :
            LET r == Reconfigured(Before(t, c), TRUE, pub, keep)
            IN  /\ tasks' = r.t /\ cached' = r.c
                /\ excused' = excused \cup Stolen(r)
       /\ state' = [state EXCEPT !["MQTT"] = "ACTIVE"]
    \/ /\ tasks' = t /\ cached' = c /\ excused' = excused
       /\ state' = [state EXCEPT !["MQTT"] = "FAILED"]

StartMdns(t, p, hasIp) ==
    LET e == Ensured(t, p)
    IN  /\ tasks' = IF hasIp THEN e.t ELSE t
        /\ pending' = IF hasIp THEN e.p ELSE p
        /\ bus' = AddListener(bus, "GOT_IP")
        /\ excused' = excused \cup
               (IF hasIp /\ ~p /\ ~CanRegister(t) THEN {"full"} ELSE {}) \cup
               (IF Named(bus, AddedId(bus)) # {} THEN {"clash"} ELSE {})

StartCron(b) ==
    /\ bus' = AddListener(b, "MINUTE")
    /\ cronId' = AddedId(b)
    /\ excused' = excused \cup
           (IF HasRoom(b) THEN {} ELSE {"full_bus"}) \cup
           (IF Named(b, AddedId(b)) # {} /\ HasRoom(b) THEN {"clash"} ELSE {})

\* startService, once the service is enabled
Start(p) ==
    /\ quiet' = quiet \ {p}
    /\ CASE p = "MQTT" -> /\ StartMqtt(tasks, cached)
                          /\ UNCHANGED <<pending, bus, cronId, scanning>>
         [] p = "MDNS" -> /\ \E ip \in BOOLEAN : StartMdns(tasks, pending, ip)
                          /\ state' = [state EXCEPT ![p] = "ACTIVE"]
                          /\ UNCHANGED <<cached, cronId, scanning>>
         [] p = "CRON" -> /\ StartCron(bus)
                          /\ state' = [state EXCEPT ![p] = "ACTIVE"]
                          /\ UNCHANGED <<tasks, cached, pending, scanning>>

\* what stopService and resetServiceState leave of each part of the state
StoppedCached(p) == IF p = "MQTT" THEN [j \in Intervals |-> 0] ELSE cached
StoppedPendingKept(p) == pending   \* a slip: the flag outlives the task
StoppedPending(p) == IF p = "MDNS" THEN FALSE ELSE pending
StoppedTasks(p) ==
    StopTasks(IF p = "MQTT" THEN ClearTask(tasks, cached["timer"]) ELSE tasks,
              p)
StoppedBus(p) == IF p = "CRON" THEN RemoveListener(bus, cronId) ELSE bus

Stop(p) ==
    /\ tasks' = StoppedTasks(p)
    /\ cached' = StoppedCached(p)
    /\ pending' = StoppedPending(p)
    /\ bus' = StoppedBus(p)
    /\ cronId' = IF p = "CRON" THEN NoListener ELSE cronId
    /\ scanning' = IF p = "CRON" THEN FALSE ELSE scanning
    /\ state' = [state EXCEPT ![p] = "INACTIVE"]
    /\ quiet' = IF JobsOf(p) = {} THEN quiet ELSE quiet \cup {p}
    /\ UNCHANGED excused

\* findUnmetServiceDependency: MQTT and MDNS need the WiFi service, which may
\* or may not be active; Cron needs nothing
MayLackDependency(p) == p # "CRON"

\* restartOne: a service whose dependency is gone stays stopped
Restart(p) ==
    \/ MayLackDependency(p) /\ Stop(p)
    \/   /\ quiet' = quiet \ {p}
         /\ CASE p = "MQTT" ->
                   /\ StartMqtt(StoppedTasks(p), StoppedCached(p))
                   /\ UNCHANGED <<pending, bus, cronId, scanning>>
              [] p = "MDNS" ->
                   /\ \E ip \in BOOLEAN : StartMdns(StoppedTasks(p), FALSE, ip)
                   /\ state' = [state EXCEPT ![p] = "ACTIVE"]
                   /\ UNCHANGED <<cached, cronId, scanning>>
              [] p = "CRON" ->
                   /\ StartCron(StoppedBus(p))
                   /\ scanning' = FALSE
                   /\ state' = [state EXCEPT ![p] = "ACTIVE"]
                   /\ UNCHANGED <<tasks, cached, pending>>

-----------------------------------------------------------------------------
\* PdiStack::initialize starts the services in order (one disabled at boot is
\* left as a stop leaves it, which StopOne reaches)
Boot ==
    /\ \E i \in 1 .. Len(BootOrder) :
         /\ state[BootOrder[i]] = "BOOT"
         /\ \A k \in 1 .. i - 1 : state[BootOrder[k]] # "BOOT"
         /\ Start(BootOrder[i])
    /\ UNCHANGED <<at, due, ops>>

\* the service command; it runs from a terminal's task or from a cron job.  A
\* command that is refused (disabled, already running, unmet dependency) leaves
\* everything as it is, so enabling and disabling only allow fewer of these.
StopOne(p) ==
    /\ Operation /\ Loop
    /\ Stop(p)
    /\ UNCHANGED at

StartOne(p) ==
    /\ Operation /\ Loop
    /\ state[p] # "ACTIVE"
    /\ Start(p)
    /\ UNCHANGED at

RestartOne(p) ==
    /\ Operation /\ Loop
    /\ Restart(p)
    /\ UNCHANGED at

\* the kill command: the signal ends the task in the next pass
Kill(s) ==
    /\ Operation /\ Loop
    /\ tasks.ids[s] # Free /\ s \notin tasks.dead
    /\ tasks' = [tasks EXCEPT !.dead = @ \cup {s}]
    /\ excused' = excused \cup {"kill"}
    /\ UNCHANGED <<state, cached, pending, bus, cronId, scanning,
                   at, quiet>>

-----------------------------------------------------------------------------
\* a controller, or the device-iot service, applies a changed configuration;
\* neither asks whether the MQTT service is running
ConfigChange(general) ==
    /\ Operation /\ Idle
    /\ \E pub \in PublishChoices, keep \in KeepChoices :
         LET r == Reconfigured(Before(tasks, cached), general, pub, keep)
         IN  /\ tasks' = r.t /\ cached' = r.c
             /\ excused' = excused \cup Stolen(r)
    /\ quiet' = quiet \ {"MQTT"}
    /\ UNCHANGED <<state, pending, bus, cronId, scanning, at>>

\* the device-iot service drops the broker: MqttServiceProvider::stop
DropBroker ==
    /\ Operation /\ Idle
    /\ tasks' = ClearTask(tasks, cached["timer"])
    /\ cached' = [cached EXCEPT !["timer"] = 0]
    /\ UNCHANGED <<state, pending, bus, cronId, scanning, at,
                   quiet, excused>>

\* the one-shot MQTT task: it begins, cannot begin, or has no memory to try; a
\* stopped service has no client to begin with.  Then its one attempt is used.
RunInit(s) ==
    /\ Idle
    /\ tasks.job[s] = "init" /\ s \notin tasks.dead
    /\ \E began \in {TRUE, FALSE}, memory \in {TRUE, FALSE} :
         /\ began => memory /\ state["MQTT"] = "ACTIVE"
         /\ LET r0 == Before(tasks, cached)
                r == IF memory THEN Interval(r0, "timer", began) ELSE r0
            IN  /\ tasks' = [r.t EXCEPT !.dead = @ \cup {s}]
                /\ cached' = r.c
                /\ excused' = excused \cup Stolen(r)
    /\ due' = TRUE
    /\ UNCHANGED <<state, pending, bus, cronId, scanning, at, quiet, ops>>

\* the certificate task
RunCert(s) ==
    /\ Idle
    /\ tasks.job[s] = "cert" /\ s \notin tasks.dead
    /\ pending' = FALSE
    /\ tasks' = [tasks EXCEPT !.dead = @ \cup {s}]
    /\ due' = TRUE
    /\ UNCHANGED <<state, cached, bus, cronId, scanning, at, quiet,
                   excused, ops>>

\* the station has an address: every listener mDNS ever left runs
GotIp ==
    /\ Operation /\ Booted
    /\ Listening(bus, "GOT_IP") # {}
    /\ LET e == Ensured(tasks, pending)
       IN  tasks' = e.t /\ pending' = e.p
    /\ excused' = excused \cup
           (IF ~pending /\ ~CanRegister(tasks) THEN {"full"} ELSE {})
    /\ quiet' = quiet \ {"MDNS"}
    /\ UNCHANGED <<state, cached, bus, cronId, scanning, at>>

\* the minute event reaches Cron's listener, which starts on the due jobs
MinuteEvent ==
    /\ Operation /\ Idle
    /\ NextHandler(bus, "MINUTE", 1) # 0
    /\ at' = NextHandler(bus, "MINUTE", 1)
    /\ scanning' = TRUE
    /\ UNCHANGED <<tasks, state, cached, pending, bus, cronId,
                   quiet, excused>>

\* the jobs are done, and the dispatch goes on along the list as it is now
JobsDone ==
    /\ at # 0
    /\ at' = NextHandler(bus, "MINUTE", at + 1)
    /\ scanning' = (at' # 0)
    /\ due' = (at' = 0 /\ tasks.dead # {})
    /\ UNCHANGED <<tasks, state, cached, pending, bus, cronId,
                   quiet, excused, ops>>

\* remove_expired_tasks takes the dead slots in order
Reap(s) ==
    /\ Booted /\ at = 0
    /\ s \in tasks.dead /\ \A r \in tasks.dead : s <= r
    /\ tasks' = ReapTask(tasks, s)
    /\ due' = (due /\ tasks'.dead # {})
    /\ UNCHANGED <<state, cached, pending, bus, cronId, scanning,
                   at, quiet, excused, ops>>

Next ==
    \/ Boot \/ DropBroker \/ GotIp \/ MinuteEvent \/ JobsDone
    \/ \E p \in Services : StopOne(p) \/ StartOne(p) \/ RestartOne(p)
    \/ \E g \in BOOLEAN : ConfigChange(g)
    \/ \E s \in Slots : Kill(s) \/ RunInit(s) \/ RunCert(s) \/ Reap(s)

Spec == Init /\ [][Next]_vars

-----------------------------------------------------------------------------
\* Every variable stays in its range; a slot has a job exactly while it has an
\* id, and only such a slot can be dead or carry a finalizer (task_t::clear).
ServicesTypeOK ==
    /\ tasks.ids \in [Slots -> TaskIdSet \cup {Free}]
    /\ tasks.next \in TaskIdSet
    /\ tasks.job \in [Slots -> Jobs \cup {None}]
    /\ tasks.hook \in [Slots -> Services \cup {None}]
    /\ \A s \in Slots : tasks.ids[s] = Free =>
         tasks.job[s] = None /\ tasks.hook[s] = None /\ s \notin tasks.dead
    /\ \A p \in Services : Len(tasks.tracked[p]) <= MaxServiceTasks
    /\ state \in [Services -> {"BOOT", "ACTIVE", "FAILED", "INACTIVE"}]
    /\ cached \in [Intervals -> TaskIdSet \cup {0, Nothing}]
    /\ Len(bus.slots) <= MaxListeners
    /\ bus.next \in 1 .. MaxListenerId
    /\ at \in 0 .. Len(bus.slots)
    /\ excused \subseteq {"kill", "full", "full_bus", "clash", "stolen"}

\* A service's list, the finalizers and the table never drift apart: a listed
\* id is a registered task whose finalizer will take it off this very list, no
\* id is listed twice, every such finalizer belongs to a listed id, and the
\* routine id is the first of the list.  Only a task killed under a service
\* that still keeps its id, and the id handed out again, breaks this.
TrackedAgree ==
    "stolen" \notin excused =>
      \A p \in Services :
        /\ \A i, k \in 1 .. Len(tasks.tracked[p]) :
             tasks.tracked[p][i] = tasks.tracked[p][k] => i = k
        /\ \A i \in 1 .. Len(tasks.tracked[p]) :
             /\ Registered(tasks, tasks.tracked[p][i])
             /\ tasks.hook[SlotOf(tasks, tasks.tracked[p][i])] = p
        /\ \A s \in Slots : tasks.hook[s] = p => Tracks(tasks, p, tasks.ids[s])
        /\ tasks.routine[p] = IF tasks.tracked[p] = <<>> THEN Nothing
                              ELSE tasks.tracked[p][1]

\* After stopService a service runs nothing until somebody asks something of
\* it again, except tasks the full list had refused when they were made: the
\* reading "stopping the service reaps every tracked task" and "every running
\* task named for a service is tracked by it" give of a stop.
StoppedStaysQuiet ==
    \A p \in quiet : \A s \in Live(p) : tasks.ids[s] \in tasks.missed

\* The certificate flag is up only while a certificate task is due, so the
\* next address event can ask for one: unless the table had no slot for the
\* task, or it was killed, after which only a restart of mDNS clears the flag.
CertNotLost ==
    pending /\ excused \cap {"full", "kill"} = {} => Live("MDNS") # {}

\* An active Cron has exactly one listener, the one its id names, and a Cron
\* that is not active has none, through stops and restarts from its own jobs:
\* unless the list was full when it started, or an id was handed out twice.
CronListens ==
    excused \cap {"full_bus", "clash"} = {} =>
      IF state["CRON"] = "ACTIVE"
      THEN \E i \in Named(bus, cronId) : Listening(bus, "MINUTE") = {i}
      ELSE Listening(bus, "MINUTE") = {}
=============================================================================
