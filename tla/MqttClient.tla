---------------------------- MODULE MqttClient ----------------------------
(***************************************************************************)
(* The MQTT client (transports/mqtt/MqttClient.cpp) as the MQTT service     *)
(* drives it: a timer task once a second, a subscribe task, a publish task  *)
(* and the two kinds of configuration change.  The broker and the tcp       *)
(* connection are external: packets arrive in order, and what is on the     *)
(* wire is lost with the connection.                                        *)
(*                                                                          *)
(* The client, the connection and what the broker holds for it are one      *)
(* record m, so that a call made inside a call is an operator applied to    *)
(* its result.  An operator whose outcome the network decides returns the   *)
(* set of its outcomes.                                                     *)
(***************************************************************************)
EXTENDS Integers, Sequences, SequencesExt

CONSTANTS
    Topics,         \* subscribe topics
    MacTopics,      \* those whose configured text has the [mac] placeholder
    SlotChoices,    \* the subscribe slots a configuration may hold
    PublishQos,     \* the qos of each configured publish topic
    KeepAlive,      \* 0.85 of the keepalive, in seconds
    ReadTimeout,    \* MQTT_READ_TIMEOUT
    HostTimeout,    \* MQTT_HOST_CONNECT_TIMEOUT
    QueueSize,      \* packets msgQueue holds
    MaxFaults,      \* bound on network faults
    MaxInbound,     \* bound on messages the broker sends
    MaxOps          \* bound on publish runs and configuration changes

ASSUME MqttAssumption ==
    /\ {KeepAlive, ReadTimeout, HostTimeout, QueueSize} \subseteq Nat \ {0}
    /\ {MaxFaults, MaxInbound, MaxOps} \subseteq Nat
    /\ MacTopics \subseteq Topics
    /\ SlotChoices \subseteq Seq(Topics)
    /\ PublishQos \in Seq(0 .. 2)

VARIABLES
    m,              \* MQTT_Client, the connection and the broker's session
    slots,          \* subscribe_topics of the stored configuration
    begins,         \* config changes whose timeout has yet to call begin
    inbound,        \* messages the broker sent
    ops             \* publish runs and configuration changes so far

vars == <<m, slots, begins, inbound, ops>>

Plain(type) == [type |-> type, topic |-> "none"]
Subscription(t) == [type |-> "SUBSCRIBE", topic |-> t]
Unsubscription(t) == [type |-> "UNSUBSCRIBE", topic |-> t]
Published(qos) ==
    Plain(CASE qos = 0 -> "PUBLISH0"
            [] qos = 1 -> "PUBLISH1"
            [] qos = 2 -> "PUBLISH2")

SentStates == {"CONNECT_SENT", "PING_SENT", "DATA_SENT"}
FailedStates == {"CONNECT_FAILED", "PING_FAILED", "DATA_FAILED"}

\* the topics whose last packet in q subscribes
Subscribing(q) ==
    {t \in Topics : \E i \in DOMAIN q :
        /\ q[i] = Subscription(t)
        /\ \A j \in i + 1 .. Len(q) : q[j].topic # t}

-----------------------------------------------------------------------------
(* The connection                                                           *)

\* slip: the callback is not called and the topics stay recorded
DisconnectKeepsTopics(s) ==
    [s EXCEPT !.connected = FALSE, !.link = FALSE, !.tx = <<>>, !.subs = {}]

\* disconnectServer: the callback forgets the session and its topics, the
\* queue is kept.  stale remembers the subscriptions left in it.
DisconnectServer(s) ==
    [s EXCEPT !.connected = FALSE, !.topics = <<>>, !.link = FALSE,
              !.tx = <<>>, !.subs = {}, !.stale = Subscribing(s.queue)]

\* sendPacket hands p to the connection
Delivered(s, p) ==
    IF s.link THEN {[s EXCEPT !.tx = Append(@, p)]} ELSE {}

\* sendPacket fails: nobody is there, or the connection does not take p
Refused(s) ==
    IF ~s.link THEN {s}
    ELSE IF s.faults < MaxFaults THEN {[s EXCEPT !.faults = @ + 1]}
    ELSE {}

\* what the sending functions do with sendPacket's result
Sending(s, p, sent, failed) ==
    {[d EXCEPT !.conn = sent, !.read = 0] : d \in Delivered(s, p)}
      \cup {DisconnectServer([d EXCEPT !.conn = failed, !.host = 0]) :
                d \in Refused(s)}

MqttClientConnect(s) ==
    Sending([s EXCEPT !.pending = "CONNECT"], Plain("CONNECT"),
            "CONNECT_SENT", "CONNECT_FAILED")

MqttSendKeepalive(s) ==
    {[u EXCEPT !.keep = IF u.conn = "PING_SENT" THEN 0 ELSE @] :
        u \in Sending([s EXCEPT !.pending = "PINGREQ"], Plain("PINGREQ"),
                      "PING_SENT", "PING_FAILED")}

\* Connect: the client is closed and flushed, then connected or left closed
Connect(s) ==
    LET idle == [s EXCEPT !.keep = 0, !.host = 0, !.conn = "HOST_CONNECTING",
                          !.rx = <<>>, !.late = FALSE]
    IN  MqttClientConnect([idle EXCEPT !.link = TRUE])
          \cup {d \in {[idle EXCEPT !.link = FALSE, !.faults = @ + 1]} :
                    s.faults < MaxFaults}

-----------------------------------------------------------------------------
(* Receiving                                                                *)

\* slip: a full queue takes one more packet
QueuedAlways(q, p) == Append(q, p)

\* queue_packet refuses what does not fit
Queued(q, p) == IF Len(q) < QueueSize THEN Append(q, p) ELSE q

\* what mqtt_client_recv answers a packet with, when it answers at all
Answers ==
    [PUBLISH1 |-> "PUBACK", PUBLISH2 |-> "PUBREC", PUBREC |-> "PUBREL",
     PUBREL |-> "PUBCOMP", PINGREQ |-> "PINGRESP"]

Answered(q, p) ==
    IF p.type \in DOMAIN Answers THEN Queued(q, Plain(Answers[p.type])) ELSE q

\* a packet was read: its effect depends on what the client was waiting for
Received(s, p) ==
    LET t == IF p.type = "PUBLISH0" THEN s
             ELSE [s EXCEPT !.keep = 0, !.read = 0]
    IN  CASE s.conn = "CONNECT_SENT" /\ p.type = "CONNACK" ->
               IF s.pending = "CONNECT"
               THEN [t EXCEPT !.conn = "DATA", !.connected = TRUE]
               ELSE [t EXCEPT !.conn = "HOST_RECONNECT_REQ"]
          [] s.conn \in {"DATA_SENT", "PING_SENT", "DATA"} ->
               [t EXCEPT !.conn = "DATA", !.queue = Answered(@, p)]
          [] OTHER -> t

MqttClientRecv(s) ==
    IF s.rx = <<>>
    THEN [s EXCEPT !.conn = IF @ = "PING_SENT" THEN "DATA" ELSE @]
    ELSE Received([s EXCEPT !.rx = Tail(@), !.late = FALSE], Head(s.rx))


\* the state an accepted packet of the queue leaves the client in
AfterSend(p) == IF p.type = "PUBLISH0" THEN "DATA" ELSE "DATA_SENT"

\* MQTT_DATA with something queued: one packet leaves the queue
SendQueued(s) ==
    LET p == Head(s.queue)
    IN  Sending([s EXCEPT !.queue = Tail(@), !.pending = p.type], p,
                AfterSend(p), "DATA_FAILED")

MqttTask(s) ==
    CASE s.conn \in {"HOST_RECONNECT_REQ", "HOST_RECONNECT"} ->
           Connect(DisconnectServer(s))
      [] s.conn \in SentStates -> {MqttClientRecv(s)}
      [] s.conn = "HOST_CONNECTING" /\ s.link -> MqttClientConnect(s)
      [] s.conn = "KEEPALIVE_REQ" -> MqttSendKeepalive(s)
      [] s.conn = "DATA" ->
           IF s.queue = <<>> THEN {MqttClientRecv(s)} ELSE SendQueued(s)
      [] OTHER -> {s}

\* mqtt_timer, once a second
MqttTimer(s) ==
    CASE s.conn = "DATA" ->
           MqttTask([s EXCEPT !.keep = @ + 1,
                              !.conn = IF s.keep + 1 > KeepAlive
                                       THEN "KEEPALIVE_REQ" ELSE @])
      [] s.conn \in SentStates ->
           MqttTask(IF s.read + 1 > ReadTimeout
                    THEN [s EXCEPT !.read = 0, !.conn = "HOST_RECONNECT_REQ"]
                    ELSE [s EXCEPT !.read = @ + 1])
      [] s.conn = "HOST_RECONNECT_REQ" -> MqttTask(s)
      [] s.conn \in FailedStates \cup {"HOST_CONNECTING"} ->
           IF s.host + 1 > HostTimeout
           THEN MqttTask([s EXCEPT !.host = 0, !.conn = "HOST_RECONNECT"])
           ELSE IF s.conn = "HOST_CONNECTING" /\ s.link
           THEN MqttTask([s EXCEPT !.host = @ + 1])
           ELSE {[s EXCEPT !.host = @ + 1]}
      [] OTHER -> {s}

-----------------------------------------------------------------------------
(* The service's tasks and configuration changes                            *)

IsMqttConnected(s) == s.conn # "DELETING" /\ s.link /\ s.connected

\* slip: the topic is recorded although its packet was refused
SubscribeRecords(s, t) ==
    [s EXCEPT !.queue = Queued(@, Subscription(t)), !.topics = Append(@, t)]

\* Subscribe, for a topic the handler found missing
Subscribe(s, t) ==
    IF s.link /\ Len(s.queue) < QueueSize
    THEN [s EXCEPT !.queue = Append(@, Subscription(t)),
                   !.topics = Append(@, t), !.stale = @ \ {t}]
    ELSE s

SubscribeMissing(s, t) ==
    IF t \in ToSet(s.topics) THEN s ELSE Subscribe(s, t)

UnSubscribe(s, t) ==
    IF Len(s.queue) < QueueSize
    THEN [s EXCEPT !.queue = Append(@, Unsubscription(t)),
                   !.topics = Remove(@, t), !.stale = @ \ {t}]
    ELSE s

\* a [mac] topic is recorded substituted and looked up unsubstituted
UnSubscribeDropped(s, t, configured) ==
    IF t \in ToSet(configured) \ MacTopics THEN s ELSE UnSubscribe(s, t)

\* Publish, and the MQTT_Task of a synchronous publish
Publish(s, qos, sync) ==
    IF s.link /\ Len(s.queue) < QueueSize
    THEN LET q == [s EXCEPT !.queue = Append(@, Published(qos))]
         IN  IF sync THEN MqttTask(q) ELSE {q}
    ELSE {s}

DeleteClient(s) ==
    [DisconnectServer(s) EXCEPT !.conn = "DELETING", !.queue = <<>>,
                                !.rx = <<>>, !.stale = {}]

\* the client after DeleteClient, InitConnection and InitClient
Fresh(faults) ==
    [conn |-> "DELETING", keep |-> 0, read |-> 0, host |-> 0,
     pending |-> "none", queue |-> <<>>, topics |-> <<>>,
     connected |-> FALSE, link |-> FALSE, tx |-> <<>>, rx |-> <<>>,
     subs |-> {}, stale |-> {}, late |-> FALSE, faults |-> faults]

\* initService has asked for the first begin
Init ==
    /\ m = Fresh(0)
    /\ slots \in SlotChoices
    /\ begins = 1
    /\ inbound = 0
    /\ ops = 0

\* a second passes; when the broker still owes an answer it is a slow one
Timer ==
    /\ m.tx # <<>> => m.faults < MaxFaults
    /\ m' \in MqttTimer(IF m.tx # <<>>
                        THEN [m EXCEPT !.faults = @ + 1, !.late = TRUE]
                        ELSE m)
    /\ UNCHANGED <<slots, begins, inbound, ops>>

Begin ==
    /\ begins > 0
    /\ begins' = begins - 1
    /\ m' \in Connect(Fresh(m.faults))
    /\ UNCHANGED <<slots, inbound, ops>>

HandleMqttSubScribe ==
    /\ IsMqttConnected(m)
    /\ m' = FoldLeft(SubscribeMissing, m, slots)
    /\ UNCHANGED <<slots, begins, inbound, ops>>

HandleMqttPublish(sync) ==
    /\ ops < MaxOps
    /\ IsMqttConnected(m)
    /\ m' \in FoldLeft(LAMBDA S, qos : UNION {Publish(s, qos, sync) : s \in S},
                       {m}, PublishQos)
    /\ ops' = ops + 1
    /\ UNCHANGED <<slots, begins, inbound>>

\* handleMqttConfigChange for the general or the last will table
ChangeGeneral ==
    /\ ops < MaxOps
    /\ m' = DeleteClient(m)
    /\ begins' = begins + 1
    /\ ops' = ops + 1
    /\ UNCHANGED <<slots, inbound>>

\* handleMqttConfigChange for the topics, walked from the last one down
ChangePubSub ==
    /\ ops < MaxOps
    /\ \E c \in SlotChoices \ {slots} :
          /\ slots' = c
          /\ m' = FoldLeft(LAMBDA s, t : UnSubscribeDropped(s, t, c), m,
                           Reverse(m.topics))
    /\ ops' = ops + 1
    /\ UNCHANGED <<begins, inbound>>

-----------------------------------------------------------------------------
(* The broker and the network (external)                                    *)

Replies ==
    [CONNECT |-> "CONNACK", SUBSCRIBE |-> "SUBACK", UNSUBSCRIBE |-> "UNSUBACK",
     PUBLISH1 |-> "PUBACK", PUBLISH2 |-> "PUBREC", PUBREC |-> "PUBREL",
     PUBREL |-> "PUBCOMP", PINGREQ |-> "PINGRESP"]

\* packets no broker answers
Unanswered == {"PUBACK", "PUBCOMP"}

BrokerSubs(p) ==
    CASE p.type = "SUBSCRIBE" -> m.subs \cup {p.topic}
      [] p.type = "UNSUBSCRIBE" -> m.subs \ {p.topic}
      [] OTHER -> m.subs

Broker ==
    /\ m.tx # <<>>
    /\ LET p == Head(m.tx)
       IN  m' = [m EXCEPT !.tx = Tail(@), !.subs = BrokerSubs(p),
                          !.rx = IF p.type \in DOMAIN Replies
                                 THEN Append(@, Plain(Replies[p.type])) ELSE @]
    /\ UNCHANGED <<slots, begins, inbound, ops>>

\* the connection ends; what was received may still be read, or is flushed
Lost(s, rx) ==
    [s EXCEPT !.link = FALSE, !.tx = <<>>, !.subs = {}, !.rx = rx,
              !.faults = @ + 1]

\* the broker refuses the CONNECT, in a CONNACK, and closes the connection
Refuse ==
    /\ m.tx # <<>> /\ Head(m.tx).type = "CONNECT"
    /\ m.faults < MaxFaults
    /\ m' = Lost(m, Append(m.rx, Plain("CONNACK")))
    /\ UNCHANGED <<slots, begins, inbound, ops>>

DropLink ==
    /\ m.link
    /\ m.faults < MaxFaults
    /\ \E rx \in {m.rx, <<>>} : m' = Lost(m, rx)
    /\ UNCHANGED <<slots, begins, inbound, ops>>

BrokerPublishes(qos) ==
    /\ m.subs # {}
    /\ inbound < MaxInbound
    /\ inbound' = inbound + 1
    /\ m' = [m EXCEPT !.rx = Append(@, Published(qos))]
    /\ UNCHANGED <<slots, begins, ops>>

Next ==
    \/ Timer
    \/ Begin
    \/ HandleMqttSubScribe
    \/ \E sync \in BOOLEAN : HandleMqttPublish(sync)
    \/ ChangeGeneral
    \/ ChangePubSub
    \/ Broker
    \/ Refuse
    \/ DropLink
    \/ \E qos \in 0 .. 2 : BrokerPublishes(qos)

\* the scheduler runs the service's tasks, and the broker serves what it gets
Fairness ==
    /\ WF_vars(Timer)
    /\ WF_vars(Begin)
    /\ WF_vars(HandleMqttSubScribe)
    /\ WF_vars(Broker)

Spec == Init /\ [][Next]_vars /\ Fairness

-----------------------------------------------------------------------------
(* Properties                                                               *)

ConnStates ==
    SentStates \cup FailedStates
      \cup {"HOST_CONNECTING", "HOST_RECONNECT_REQ", "DATA", "DELETING"}

PacketTypes ==
    DOMAIN Replies \cup {Replies[p] : p \in DOMAIN Replies}
      \cup {"PUBLISH0", "PINGRESP"}

Packets == [type : PacketTypes, topic : Topics \cup {"none"}]

\* The client is in a state mqtt_timer knows, its counters stay within their
\* limits, the queue never holds more than QueueSize packets and no topic is
\* recorded twice.
MqttTypeOK ==
    /\ m.conn \in ConnStates
    /\ m.keep \in 0 .. KeepAlive + 1
    /\ m.read \in 0 .. ReadTimeout
    /\ m.host \in 0 .. HostTimeout
    /\ m.pending \in PacketTypes \cup {"none"}
    /\ m.queue \in Seq(Packets) /\ Len(m.queue) <= QueueSize
    /\ m.topics \in Seq(Topics) /\ IsInjective(m.topics)
    /\ m.connected \in BOOLEAN /\ m.link \in BOOLEAN /\ m.late \in BOOLEAN
    /\ m.tx \in Seq(Packets) /\ m.rx \in Seq(Packets)
    /\ m.subs \in SUBSET Topics /\ m.stale \in SUBSET Topics
    /\ m.faults \in 0 .. MaxFaults
    /\ slots \in SlotChoices
    /\ begins \in Nat /\ inbound \in 0 .. MaxInbound /\ ops \in 0 .. MaxOps

\* what the broker will hold for t once it has been sent everything queued
WillHold(t) ==
    LET sent == m.tx \o m.queue
    IN  t \in Subscribing(sent)
          \/ (t \in m.subs /\ \A i \in DOMAIN sent : sent[i].topic # t)

\* While the connection is up, the topics subscribed_topics records are the
\* ones the broker holds or will hold once the queue is sent: no topic is taken
\* for subscribed that is not, and none stays subscribed that the client forgot.
\* The exception is a SUBSCRIBE left in the queue when disconnectServer cleared
\* the list: it is sent on the next connection, recorded or not.
SubscriptionsAgree ==
    m.link => \A t \in Topics \ m.stale :
                  WillHold(t) <=> t \in ToSet(m.topics)


\* Once faults and changes stop, every configured topic is subscribed at the
\* broker for good: a lost connection is noticed, by a failed send, a read
\* timeout or the keepalive, and reconnecting subscribes again.
EventuallySubscribed == <>[](ToSet(slots) \subseteq m.subs)
=============================================================================
