---------------------------- MODULE MqttClient -----------------------------
(***************************************************************************)
(* The connection of the MQTT client: the callbacks of espconn, the one    *)
(* second timer and the task of mqtt.c, and the callbacks and the retry    *)
(* timer of user_mqtt.c.  The broker is configured by its IP address.      *)
(*                                                                         *)
(* All of them run at task level, one at a time, so that each is one       *)
(* action; what is interleaved is their order.  The packets that wait are  *)
(* counted: MqttQueue.tla models how they are stored.  espconn, Wi-Fi and  *)
(* the broker are the environment, modelled as the client uses them.       *)
(***************************************************************************)
EXTENDS Integers

CONSTANTS
  KeepAlive,         \* connect_info.keepalive, in seconds
  SendTimeout,       \* MQTT_SEND_TIMOUT, in seconds
  ReconnectTimeout,  \* MQTT_RECONNECT_TIMEOUT, in seconds
  Greeting,          \* packets of mqttConnectedCb: actuators also subscribe
  QueueMax,          \* bound: packets the queue can hold
  MaxPublish,        \* bound: packets the application publishes
  MaxFaults,         \* bound: faults of the environment
  Faults,            \* those that happen: "close", "reset", "refuse", "wifi"
  Inbound,           \* whether the broker has packets for the client
  FastNetwork        \* whether answers come within the period of tryConnect

ASSUME ClientAssumption ==
  /\ {KeepAlive, SendTimeout, ReconnectTimeout, QueueMax} \subseteq Nat \ {0}
  /\ Greeting \in 1..2
  /\ {MaxPublish, MaxFaults} \subseteq Nat
  /\ {Inbound, FastNetwork} \subseteq BOOLEAN

VARIABLES
  \* MQTT_Client
  connState, posted,        \* tConnState; an event waits for MQTT_Task
  sendTimeout, keepAliveTick, reconnectTick,
  mqttTimer,                \* the one second timer is armed
  pending,                  \* pending_msg_type
  queue,                    \* packets in msgQueue
  \* user_mqtt.c
  tryTimer,                 \* timer_try_connect is armed
  connected,
  \* espconn and beyond
  tcp,                      \* the connection of pCon
  inflight,                 \* what espconn_send took and TCP has not acked
  session,                  \* the MQTT session of this connection
  wifi, faults, published,
  \* history
  silent,                   \* seconds since the client last sent a packet
  lost                      \* a packet left the queue and never arrived

client == <<connState, posted, sendTimeout, keepAliveTick, reconnectTick,
            mqttTimer, pending, queue>>
user == <<tryTimer, connected>>
net == <<tcp, inflight, session>>
env == <<wifi, faults, published>>
vars == <<client, user, net, env, silent, lost>>

PingAfter == KeepAlive \div 2
InSession == connState \in {"MQTT_DATA", "MQTT_KEEPALIVE_SEND"}
AtMost(n, max) == IF n > max THEN max ELSE n

Fault(f) == f \in Faults /\ faults < MaxFaults /\ faults' = faults + 1

\* system_os_post: the queue of MQTT_Task has one place.
system_os_post == posted' = TRUE

\* The connection ends and its unacknowledged packet with it.
Drop(to) == /\ tcp' = to /\ inflight' = "none" /\ session' = "no"
            /\ lost' = (lost \/ inflight = "data")

\* espconn_send takes a packet when none is unacknowledged.  On a connection
\* whose end is already known to TCP either answer is possible.
espconn_send == CASE tcp = "open" -> {inflight = "none"}
                  [] tcp \in {"closing", "failing"} -> BOOLEAN
                  [] OTHER -> {FALSE}

\* espconn_disconnect: the callback follows, unless there is no connection.
espconn_disconnect == tcp' = IF tcp = "open" THEN "closing" ELSE tcp

-----------------------------------------------------------------------------
(* Connecting.                                                             *)

\* Aborts and frees the old connection, silently, and starts another.
\* espconn_connect returns ESPCONN_RTE at once when the station has no
\* address: nothing will call back, and the result is not looked at.
MQTT_Connect ==
  /\ Drop(IF wifi THEN "connecting" ELSE "idle")
  /\ keepAliveTick' = 0 /\ reconnectTick' = 0
  /\ mqttTimer' = TRUE
  /\ connState' = "TCP_CONNECTING"

\* The network is about to answer: it does so before a timer runs when it is
\* fast, at any time when it is not.
Answering == /\ wifi /\ tcp \in {"connecting", "open"}
             /\ tcp = "connecting" \/ session = "sent" \/ inflight # "none"

NoTimerYet == FastNetwork /\ Answering

tryConnect ==
  /\ tryTimer /\ ~NoTimerYet
  /\ MQTT_Connect
  /\ UNCHANGED <<posted, sendTimeout, pending, queue, user, env, silent>>

\* The TCP connection is established: the CONNECT packet goes out.
mqtt_tcpclient_connect_cb ==
  /\ tcp = "connecting" /\ wifi
  /\ tcp' = "open" /\ inflight' = "connect" /\ session' = "sent"
  /\ pending' = "CONNECT" /\ sendTimeout' = SendTimeout
  /\ connState' = "MQTT_CONNECT_SENDING"
  /\ system_os_post
  /\ UNCHANGED <<keepAliveTick, reconnectTick, mqttTimer, queue, user, env,
                 silent, lost>>

\* Faulty: the retry timer is not disarmed.
mqttConnectedCbRetrying ==
  /\ UNCHANGED tryTimer /\ connected' = TRUE
  /\ queue' = AtMost(queue + Greeting, QueueMax)

\* mqttConnectedCb, after the state is MQTT_DATA: subscribes and announces.
mqttConnectedCb ==
  /\ tryTimer' = FALSE /\ connected' = TRUE
  /\ queue' = AtMost(queue + Greeting, QueueMax)

\* mqtt_tcpclient_recv on CONNACK.  After MQTT_Disconnect it is ignored.
RecvConnack(accepted) ==
  /\ tcp = "open" /\ wifi /\ session = "sent"
  /\ keepAliveTick' = 0
  /\ \/ /\ connState = "MQTT_CONNECT_SENDING" /\ pending = "CONNECT" /\ accepted
        /\ connState' = "MQTT_DATA" /\ session' = "accepted" /\ silent' = 0
        /\ mqttConnectedCb
        /\ UNCHANGED <<tcp, faults>>
     \/ /\ connState = "MQTT_CONNECT_SENDING" /\ (pending # "CONNECT" \/ ~accepted)
        /\ Fault("refuse")
        /\ espconn_disconnect
        /\ session' = "no"
        /\ UNCHANGED <<connState, queue, user, silent>>
     \/ /\ connState # "MQTT_CONNECT_SENDING" /\ accepted
        /\ session' = "accepted"
        /\ UNCHANGED <<connState, queue, user, tcp, faults, silent>>
  /\ system_os_post
  /\ UNCHANGED <<sendTimeout, reconnectTick, mqttTimer, pending, inflight,
                 wifi, published, lost>>

-----------------------------------------------------------------------------
(* The end of a connection.                                                *)

mqttDisconnectedCb == tryTimer' = TRUE /\ connected' = FALSE

\* espconn reports a connection that was closed, by either side.  What the
\* client does, before it calls its disconnectedCb.
Disconnected ==
  /\ tcp = "closing"
  /\ Drop("idle")
  /\ connState' = IF connState = "TCP_DISCONNECTING" THEN "TCP_DISCONNECTED"
                                                   ELSE "TCP_RECONNECT_REQ"
  /\ system_os_post
  /\ UNCHANGED <<sendTimeout, keepAliveTick, reconnectTick, mqttTimer, pending,
                 queue, env, silent>>

mqtt_tcpclient_discon_cb == Disconnected /\ mqttDisconnectedCb

\* The application asks for the end of the connection: SleepCycle calls it.
MQTT_Disconnect ==
  /\ connState' = "TCP_DISCONNECTING"
  /\ mqttTimer' = FALSE
  /\ system_os_post
  /\ UNCHANGED <<sendTimeout, keepAliveTick, reconnectTick, pending, queue, net,
                 env, silent, lost>>

\* Faulty: the state of the lost connection is kept.
mqtt_tcpclient_recon_cbKeepsState ==
  /\ tcp = "failing"
  /\ Drop("idle")
  /\ system_os_post
  /\ UNCHANGED <<connState, sendTimeout, keepAliveTick, reconnectTick, mqttTimer,
                 pending, queue, user, env, silent>>

\* espconn reports a connection that was reset or timed out.  The application
\* is not told and timer_try_connect stays as it is.
mqtt_tcpclient_recon_cb ==
  /\ tcp = "failing"
  /\ Drop("idle")
  /\ connState' = "TCP_RECONNECT_REQ"
  /\ system_os_post
  /\ UNCHANGED <<sendTimeout, keepAliveTick, reconnectTick, mqttTimer, pending,
                 queue, user, env, silent>>

-----------------------------------------------------------------------------
(* The session.                                                            *)

\* mqtt_tcpclient_recv on any packet of a session: a PUBLISH or a QoS packet
\* may queue an answer.
mqtt_tcpclient_recv ==
  /\ Inbound /\ tcp = "open" /\ wifi /\ session = "accepted"
  /\ keepAliveTick' = 0
  /\ queue' \in {queue} \cup IF InSession THEN {AtMost(queue + 1, QueueMax)} ELSE {}
  /\ system_os_post
  /\ UNCHANGED <<connState, sendTimeout, reconnectTick, mqttTimer, pending, user,
                 net, env, silent, lost>>

\* Faulty: the task is not told that the next packet can go.
mqtt_tcpclient_sent_cbSilent ==
  /\ tcp = "open" /\ wifi /\ inflight # "none"
  /\ inflight' = "none"
  /\ sendTimeout' = 0 /\ keepAliveTick' = 0
  /\ UNCHANGED <<connState, posted, reconnectTick, mqttTimer, pending, queue, user,
                 tcp, session, env, silent, lost>>

\* The packet in flight was acknowledged.
mqtt_tcpclient_sent_cb ==
  /\ tcp = "open" /\ wifi /\ inflight # "none"
  /\ inflight' = "none"
  /\ sendTimeout' = 0 /\ keepAliveTick' = 0
  /\ system_os_post
  /\ UNCHANGED <<connState, reconnectTick, mqttTimer, pending, queue, user,
                 tcp, session, env, silent, lost>>

\* MQTT_Publish by the application, connected or not.
MQTT_Publish ==
  /\ published < MaxPublish /\ published' = published + 1
  /\ queue' = AtMost(queue + 1, QueueMax)
  /\ system_os_post
  /\ UNCHANGED <<connState, sendTimeout, keepAliveTick, reconnectTick, mqttTimer,
                 pending, user, net, wifi, faults, silent, lost>>

\* What espconn_send does with a packet of this kind.
Sends(kind, ok) ==
  /\ sendTimeout' = SendTimeout
  /\ inflight' = IF ok THEN kind ELSE inflight
  /\ silent' = IF ok THEN 0 ELSE silent

mqtt_send_keepalive ==
  \E ok \in espconn_send :
    /\ Sends("ping", ok) /\ pending' = "PINGREQ"
    /\ connState' = IF ok THEN "MQTT_DATA" ELSE "TCP_RECONNECT_DISCONNECTING"
    /\ keepAliveTick' = IF ok THEN 0 ELSE keepAliveTick
    /\ system_os_post

\* In state MQTT_DATA the oldest packet is sent.  The result of espconn_send
\* is not looked at.
SendOldest ==
  \E ok \in espconn_send :
    /\ Sends("data", ok) /\ pending' = "APP"
    /\ queue' = queue - 1
    /\ lost' = (lost \/ ~ok)

MQTT_Task ==
  /\ posted
  /\ \/ /\ connState = "TCP_RECONNECT"
        /\ posted' = FALSE
        /\ MQTT_Connect
        /\ UNCHANGED <<sendTimeout, pending, queue, silent>>
     \/ /\ connState \in {"TCP_DISCONNECTING", "TCP_RECONNECT_DISCONNECTING"}
        /\ posted' = FALSE
        /\ espconn_disconnect
        /\ UNCHANGED <<connState, sendTimeout, keepAliveTick, reconnectTick,
                       mqttTimer, pending, queue, inflight, session, silent, lost>>
     \/ /\ connState = "TCP_DISCONNECTED"
        /\ posted' = FALSE
        /\ Drop("idle")
        /\ UNCHANGED <<connState, sendTimeout, keepAliveTick, reconnectTick,
                       mqttTimer, pending, queue, silent>>
     \/ /\ connState = "MQTT_KEEPALIVE_SEND"
        /\ mqtt_send_keepalive
        /\ UNCHANGED <<reconnectTick, mqttTimer, queue, tcp, session, lost>>
     \/ /\ connState = "MQTT_DATA" /\ queue > 0 /\ sendTimeout = 0
        /\ posted' = FALSE
        /\ SendOldest
        /\ UNCHANGED <<connState, keepAliveTick, reconnectTick, mqttTimer, tcp,
                       session>>
     \/ /\ \/ connState = "MQTT_DATA" /\ (queue = 0 \/ sendTimeout # 0)
           \/ connState \notin {"TCP_RECONNECT", "TCP_RECONNECT_DISCONNECTING",
                                "TCP_DISCONNECTING", "TCP_DISCONNECTED",
                                "MQTT_KEEPALIVE_SEND", "MQTT_DATA"}
        /\ posted' = FALSE
        /\ UNCHANGED <<connState, sendTimeout, keepAliveTick, reconnectTick,
                       mqttTimer, pending, queue, net, silent, lost>>
  /\ UNCHANGED <<user, env>>

-----------------------------------------------------------------------------
(* Time.  A second passes only when no task is due: they take milliseconds. *)

\* Faulty: a ping every period of the keep alive instead of every half.
KeepAliveDueLate == keepAliveTick + 1 > KeepAlive

KeepAliveDue == keepAliveTick + 1 > PingAfter

\* Faulty: the tick is compared before it is counted.
ReconnectDueLate == reconnectTick > ReconnectTimeout

ReconnectDue == reconnectTick + 1 > ReconnectTimeout

\* What mqtt_timer does.
CountSecond ==
  /\ mqttTimer
  /\ \/ /\ connState = "MQTT_DATA"
        /\ keepAliveTick' = keepAliveTick + 1
        /\ \/ /\ KeepAliveDue
              /\ connState' = "MQTT_KEEPALIVE_SEND" /\ system_os_post
           \/ ~KeepAliveDue /\ UNCHANGED <<connState, posted>>
        /\ UNCHANGED reconnectTick
     \/ /\ connState = "TCP_RECONNECT_REQ"
        /\ reconnectTick' = IF ReconnectDue THEN 0 ELSE reconnectTick + 1
        /\ \/ /\ ReconnectDue
              /\ connState' = "TCP_RECONNECT" /\ system_os_post
           \/ ~ReconnectDue /\ UNCHANGED <<connState, posted>>
        /\ UNCHANGED keepAliveTick
     \/ /\ connState \notin {"MQTT_DATA", "TCP_RECONNECT_REQ"}
        /\ UNCHANGED <<connState, posted, keepAliveTick, reconnectTick>>
  /\ sendTimeout' = IF sendTimeout > 0 THEN sendTimeout - 1 ELSE 0
  /\ silent' = IF session = "accepted" THEN AtMost(silent + 1, 2 * KeepAlive) ELSE 0
  /\ UNCHANGED <<mqttTimer, pending, queue, user, net, env, lost>>

mqtt_timer ==
  /\ ~NoTimerYet /\ ~posted /\ tcp \notin {"closing", "failing"}
  /\ CountSecond

-----------------------------------------------------------------------------
(* The environment.                                                        *)

\* The broker closes the connection: espconn closes it too.
BrokerCloses ==
  /\ Fault("close") /\ tcp = "open" /\ wifi
  /\ tcp' = "closing"
  /\ UNCHANGED <<client, user, inflight, session, wifi, published, silent, lost>>

\* A reset by the broker, or TCP gives up on a packet nobody acknowledges.
Reset ==
  /\ Fault("reset") /\ tcp \in {"open", "connecting"}
  /\ wifi \/ tcp = "connecting" \/ inflight # "none"
  /\ tcp' = "failing"
  /\ UNCHANGED <<client, user, inflight, session, wifi, published, silent, lost>>

WifiLost ==
  /\ Fault("wifi") /\ wifi /\ wifi' = FALSE
  /\ UNCHANGED <<client, user, net, published, silent, lost>>

WifiBack ==
  /\ ~wifi /\ wifi' = TRUE
  /\ UNCHANGED <<client, user, net, faults, published, silent, lost>>

-----------------------------------------------------------------------------
\* MQTT_InitClient and mqttInit have run: the task has its first event and
\* tryConnect is armed; Wi-Fi is not up yet.
Init ==
  /\ connState = "WIFI_INIT" /\ posted = TRUE
  /\ sendTimeout = 0 /\ keepAliveTick = 0 /\ reconnectTick = 0
  /\ mqttTimer = FALSE /\ pending = "none" /\ queue = 0
  /\ tryTimer = TRUE /\ connected = FALSE
  /\ tcp = "idle" /\ inflight = "none" /\ session = "no"
  /\ wifi = FALSE /\ faults = 0 /\ published = 0
  /\ silent = 0 /\ lost = FALSE

Callback == \/ mqtt_tcpclient_connect_cb \/ mqtt_tcpclient_sent_cb
            \/ mqtt_tcpclient_discon_cb \/ mqtt_tcpclient_recon_cb

Next == \/ Callback \/ MQTT_Task \/ mqtt_timer \/ tryConnect
        \/ \E accepted \in BOOLEAN : RecvConnack(accepted)
        \/ mqtt_tcpclient_recv \/ MQTT_Publish
        \/ BrokerCloses \/ Reset \/ WifiLost \/ WifiBack

Spec == Init /\ [][Next]_vars

\* Tasks and timers of the SDK run, the network answers and Wi-Fi comes back.
FairSpec ==
  /\ Spec
  /\ WF_vars(mqtt_tcpclient_connect_cb) /\ WF_vars(mqtt_tcpclient_sent_cb)
  /\ WF_vars(mqtt_tcpclient_discon_cb) /\ WF_vars(mqtt_tcpclient_recon_cb)
  /\ WF_vars(MQTT_Task) /\ WF_vars(mqtt_timer) /\ WF_vars(tryConnect)
  /\ WF_vars(RecvConnack(TRUE)) /\ WF_vars(WifiBack)

-----------------------------------------------------------------------------
(* Properties.                                                             *)

States ==
  /\ connState \in {"WIFI_INIT", "TCP_CONNECTING", "MQTT_CONNECT_SENDING",
                    "MQTT_DATA", "MQTT_KEEPALIVE_SEND", "TCP_RECONNECT_REQ",
                    "TCP_RECONNECT", "TCP_RECONNECT_DISCONNECTING",
                    "TCP_DISCONNECTING", "TCP_DISCONNECTED"}
  /\ pending \in {"none", "CONNECT", "PINGREQ", "APP"}
  /\ tcp \in {"idle", "connecting", "open", "closing", "failing"}
  /\ inflight \in {"none", "connect", "ping", "data"}
  /\ session \in {"no", "sent", "accepted"}

Flags ==
  /\ posted \in BOOLEAN /\ mqttTimer \in BOOLEAN
  /\ tryTimer \in BOOLEAN /\ connected \in BOOLEAN
  /\ wifi \in BOOLEAN /\ lost \in BOOLEAN

Counters ==
  /\ sendTimeout \in 0..SendTimeout
  /\ keepAliveTick \in 0..PingAfter + 1
  /\ reconnectTick \in 0..ReconnectTimeout
  /\ queue \in 0..QueueMax
  /\ faults \in 0..MaxFaults /\ published \in 0..MaxPublish
  /\ silent \in 0..2 * KeepAlive

\* Every variable has its type and every counter of the client stays in the
\* range its timeout gives it.
TypeOK == States /\ Flags /\ Counters

\* MQTT_DATA is only ever the state of a connection whose CONNACK arrived:
\* no callback of an older connection, no late event of MQTT_Task and no retry
\* makes the client send into a session that does not exist.
DataMeansSession ==
  InSession => session = "accepted" /\ tcp \in {"open", "closing", "failing"}

\* system_os_post keeps one event and drops the others: still, a packet that
\* could be sent and a request for a new connection or for a keep alive always
\* have their event.
NoLostWakeup ==
  /\ connState \in {"TCP_RECONNECT", "MQTT_KEEPALIVE_SEND"} => posted
  /\ connState = "TCP_RECONNECT_DISCONNECTING" =>
       posted \/ tcp \in {"closing", "failing"}
  /\ connState = "MQTT_DATA" /\ tcp = "open" /\ queue > 0 /\ inflight = "none" =>
       posted

\* While the broker has nothing to say, the client is never silent for more
\* than one and a half keep alive periods, what a broker tolerates, although
\* mqtt_tcpclient_sent_cb counts from the acknowledgement of a packet.
KeptAlive == InSession => 2 * silent <= 3 * KeepAlive

\* In a session the application is told so, and timer_try_connect is at rest: it
\* would abort the session, as MQTT_Connect drops the connection it finds.
RetryAtRest == InSession => connected /\ ~tryTimer

\* A device that lost its session gets another.
Reconnects == []<>InSession

\* MQTT_Task is woken as long as packets are queued: the queue gets empty, or, if the
\* broker has the client answer for ever, packets never stop leaving it.
QueueDrains == []<>(queue = 0) \/ []<><<queue' < queue>>_queue
=============================================================================
