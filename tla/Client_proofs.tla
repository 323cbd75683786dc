---------------------------- MODULE Client_proofs -----------------------------
(***************************************************************************)
(* Proofs about MqttClient, for every keep alive, every timeout, every     *)
(* bound and every choice of faults; then about SleepCycle, the client on  *)
(* a device that goes back to sleep: for every period of its timers, or,   *)
(* of the length of a wake and of what it publishes, for every one that    *)
(* keeps the order of those of the product.                                *)
(***************************************************************************)
EXTENDS SleepCycle, TLAPS

\* An open connection with nothing to acknowledge is free to send.
SendFree == tcp = "open" /\ inflight = "none" => sendTimeout = 0

\* A ping that failed leaves a connection to disconnect.
Disconnectable ==
  connState = "TCP_RECONNECT_DISCONNECTING" => tcp \in {"open", "closing", "failing"}

\* The keep alive counter passes its limit only together with the state.
TickBounded == connState = "MQTT_DATA" => keepAliveTick <= PingAfter

IInv == /\ States /\ Counters /\ DataMeansSession /\ NoLostWakeup
        /\ SendFree /\ Disconnectable /\ TickBounded

\* In a session, keepAliveTick is never far behind the real silence: it counts
\* it from the last packet sent, or, once that is acknowledged, from the
\* acknowledgement, which came before the next ping was due.
SilenceInv ==
  InSession => /\ silent <= keepAliveTick + PingAfter + 1
               /\ inflight # "none" => silent <= keepAliveTick

-----------------------------------------------------------------------------
LEMMA Constants ==
  /\ KeepAlive \in Nat /\ KeepAlive > 0
  /\ SendTimeout \in Nat /\ SendTimeout > 0
  /\ ReconnectTimeout \in Nat /\ ReconnectTimeout > 0
  /\ QueueMax \in Nat /\ QueueMax > 0
  /\ MaxPublish \in Nat /\ MaxFaults \in Nat /\ Greeting \in Nat
BY ClientAssumption

LEMMA PingAfterType ==
  PingAfter \in Nat /\ 2 * PingAfter <= KeepAlive /\ KeepAlive <= 2 * PingAfter + 1
BY Constants DEF PingAfter

LEMMA InitIInv == Init => IInv
BY Constants, PingAfterType
   DEF Init, IInv, States, Counters, DataMeansSession, NoLostWakeup, SendFree,
       Disconnectable, TickBounded, InSession

\* On an open connection espconn_send refuses a packet only while it has
\* another one to be acknowledged.
LEMMA RefusedWhenBusy ==
  ASSUME NEW ok \in espconn_send, tcp = "open", ~ok
  PROVE  inflight # "none"
<1>1. ok \in {inflight = "none"}
  BY SMT DEF espconn_send
<1>2. ok = (inflight = "none")
  BY <1>1, Zenon
<1> QED BY <1>2, Zenon

LEMMA NextIInv == IInv /\ [Next]_vars => IInv'
<1> SUFFICES ASSUME IInv, [Next]_vars PROVE IInv'
  OBVIOUS
<1> USE Constants, PingAfterType
    DEF IInv, States, Counters, DataMeansSession, NoLostWakeup, SendFree,
        Disconnectable, TickBounded, InSession, AtMost, system_os_post
<1>1. CASE mqtt_tcpclient_connect_cb
  BY <1>1 DEF mqtt_tcpclient_connect_cb, user, env
<1>2. CASE mqtt_tcpclient_sent_cb
  BY <1>2 DEF mqtt_tcpclient_sent_cb, user, env
<1>3. CASE mqtt_tcpclient_discon_cb
  BY <1>3 DEF mqtt_tcpclient_discon_cb, Disconnected, mqttDisconnectedCb, Drop, env
<1>4. CASE mqtt_tcpclient_recon_cb
  BY <1>4 DEF mqtt_tcpclient_recon_cb, Drop, user, env
<1>5. CASE MQTT_Task
  <2>1. CASE connState = "TCP_RECONNECT"
    BY <1>5, <2>1 DEF MQTT_Task, MQTT_Connect, Drop, user, env
  <2>2. CASE connState \in {"TCP_RECONNECT_DISCONNECTING", "TCP_DISCONNECTING"}
    BY <1>5, <2>2 DEF MQTT_Task, espconn_disconnect, user, env
  <2>3. CASE connState = "MQTT_KEEPALIVE_SEND"
    <3>1. PICK ok \in espconn_send :
            /\ Sends("ping", ok) /\ pending' = "PINGREQ"
            /\ connState' = IF ok THEN "MQTT_DATA" ELSE "TCP_RECONNECT_DISCONNECTING"
            /\ keepAliveTick' = IF ok THEN 0 ELSE keepAliveTick
            /\ posted' = TRUE
            /\ UNCHANGED <<reconnectTick, mqttTimer, queue, tcp, session, lost, user, env>>
      BY <1>5, <2>3 DEF MQTT_Task, mqtt_send_keepalive
    <3>2. tcp = "open" /\ ~ok => inflight # "none"
      BY RefusedWhenBusy, Zenon
    <3> QED BY <2>3, <3>1, <3>2 DEF Sends, user, env
  <2>4. CASE connState = "MQTT_DATA"
    <3>1. CASE queue > 0 /\ sendTimeout = 0
      <4>1. PICK ok \in espconn_send :
              /\ Sends("data", ok) /\ pending' = "APP"
              /\ queue' = queue - 1
              /\ UNCHANGED <<connState, keepAliveTick, reconnectTick, mqttTimer, tcp,
                             session, user, env>>
        BY <1>5, <2>4, <3>1 DEF MQTT_Task, SendOldest
      <4>2. tcp = "open" /\ ~ok => inflight # "none"
        BY RefusedWhenBusy, Zenon
      <4> QED BY <2>4, <3>1, <4>1, <4>2 DEF Sends, user, env
    <3>2. CASE ~(queue > 0 /\ sendTimeout = 0)
      BY <1>5, <2>4, <3>2 DEF MQTT_Task, net, user, env
    <3> QED BY <3>1, <3>2
  <2>5. CASE connState = "TCP_DISCONNECTED"
    BY <1>5, <2>5 DEF MQTT_Task, Drop, user, env
  <2>6. CASE connState \notin {"TCP_RECONNECT", "TCP_RECONNECT_DISCONNECTING",
                               "TCP_DISCONNECTING", "TCP_DISCONNECTED",
                               "MQTT_KEEPALIVE_SEND", "MQTT_DATA"}
    BY <1>5, <2>6 DEF MQTT_Task, net, user, env
  <2> QED BY <2>1, <2>2, <2>3, <2>4, <2>5, <2>6
<1>6. CASE mqtt_timer
  <2>1. CASE connState = "MQTT_DATA"
    BY <1>6, <2>1 DEF mqtt_timer, CountSecond, KeepAliveDue, user, net, env
  <2>2. CASE connState = "TCP_RECONNECT_REQ"
    BY <1>6, <2>2 DEF mqtt_timer, CountSecond, ReconnectDue, user, net, env
  <2>3. CASE connState \notin {"MQTT_DATA", "TCP_RECONNECT_REQ"}
    BY <1>6, <2>3 DEF mqtt_timer, CountSecond, user, net, env
  <2> QED BY <2>1, <2>2, <2>3
<1>7. CASE tryConnect
  BY <1>7 DEF tryConnect, MQTT_Connect, Drop, user, env
<1>8. ASSUME NEW accepted \in BOOLEAN, RecvConnack(accepted) PROVE IInv'
  BY <1>8 DEF RecvConnack, mqttConnectedCb, espconn_disconnect, user, Fault
<1>9. CASE mqtt_tcpclient_recv
  BY <1>9 DEF mqtt_tcpclient_recv, user, net, env
<1>10. CASE MQTT_Publish
  BY <1>10 DEF MQTT_Publish, user, net
<1>11. CASE BrokerCloses \/ Reset
  BY <1>11 DEF BrokerCloses, Reset, Fault, client, user
<1>12. CASE WifiLost \/ WifiBack
  BY <1>12 DEF WifiLost, WifiBack, Fault, client, user, net
<1>13. CASE UNCHANGED vars
  BY <1>13 DEF vars, client, user, net, env
<1> QED
  BY <1>1, <1>2, <1>3, <1>4, <1>5, <1>6, <1>7, <1>8, <1>9, <1>10, <1>11, <1>12, <1>13
  DEF Next, Callback

\* The variables that are true or false.
LEMMA NextFlags == Flags /\ [Next]_vars => Flags'
<1> SUFFICES ASSUME Flags, [Next]_vars PROVE Flags'
  OBVIOUS
<1> USE DEF Flags, system_os_post
<1>1. CASE mqtt_tcpclient_connect_cb
  BY <1>1 DEF mqtt_tcpclient_connect_cb, user, env
<1>2. CASE mqtt_tcpclient_sent_cb
  BY <1>2 DEF mqtt_tcpclient_sent_cb, user, env
<1>3. CASE mqtt_tcpclient_discon_cb
  BY <1>3 DEF mqtt_tcpclient_discon_cb, Disconnected, mqttDisconnectedCb, Drop, env
<1>4. CASE mqtt_tcpclient_recon_cb
  BY <1>4 DEF mqtt_tcpclient_recon_cb, Drop, user, env
<1>5. CASE MQTT_Task
  <2>1. UNCHANGED <<user, env>>
    BY <1>5 DEF MQTT_Task
  <2>2. posted' \in BOOLEAN
    BY <1>5 DEF MQTT_Task, mqtt_send_keepalive
  <2>3. mqttTimer' \in BOOLEAN
    BY <1>5 DEF MQTT_Task, MQTT_Connect
  <2>4. lost' \in BOOLEAN
    BY <1>5 DEF MQTT_Task, MQTT_Connect, Drop, SendOldest
  <2> QED BY <2>1, <2>2, <2>3, <2>4 DEF user, env
<1>6. CASE mqtt_timer
  BY <1>6 DEF mqtt_timer, CountSecond, user, net, env
<1>7. CASE tryConnect
  BY <1>7 DEF tryConnect, MQTT_Connect, Drop, user, env
<1>8. ASSUME NEW accepted \in BOOLEAN, RecvConnack(accepted) PROVE Flags'
  BY <1>8 DEF RecvConnack, mqttConnectedCb, espconn_disconnect, user, Fault
<1>9. CASE mqtt_tcpclient_recv
  BY <1>9 DEF mqtt_tcpclient_recv, user, net, env
<1>10. CASE MQTT_Publish
  BY <1>10 DEF MQTT_Publish, user, net
<1>11. CASE BrokerCloses \/ Reset
  BY <1>11 DEF BrokerCloses, Reset, Fault, client, user
<1>12. CASE WifiLost \/ WifiBack
  BY <1>12 DEF WifiLost, WifiBack, Fault, client, user, net
<1>13. CASE UNCHANGED vars
  BY <1>13 DEF vars, client, user, net, env
<1> QED
  BY <1>1, <1>2, <1>3, <1>4, <1>5, <1>6, <1>7, <1>8, <1>9, <1>10, <1>11, <1>12, <1>13
  DEF Next, Callback

-----------------------------------------------------------------------------
(* The silence of the client.                                              *)

LEMMA NextSilence ==
  ASSUME ~Inbound, IInv, SilenceInv, [Next]_vars
  PROVE  SilenceInv'
<1> USE Constants, PingAfterType
    DEF IInv, States, Counters, DataMeansSession, NoLostWakeup, TickBounded,
        InSession, SilenceInv, AtMost, system_os_post
<1>1. CASE mqtt_tcpclient_connect_cb
  BY <1>1 DEF mqtt_tcpclient_connect_cb
<1>2. CASE mqtt_tcpclient_sent_cb
  BY <1>2 DEF mqtt_tcpclient_sent_cb
<1>3. CASE mqtt_tcpclient_discon_cb \/ mqtt_tcpclient_recon_cb
  BY <1>3 DEF mqtt_tcpclient_discon_cb, Disconnected, mqtt_tcpclient_recon_cb
<1>4. CASE MQTT_Task
  <2>1. CASE connState = "MQTT_KEEPALIVE_SEND"
    <3>1. PICK ok \in espconn_send :
            /\ Sends("ping", ok)
            /\ connState' = IF ok THEN "MQTT_DATA" ELSE "TCP_RECONNECT_DISCONNECTING"
            /\ keepAliveTick' = IF ok THEN 0 ELSE keepAliveTick
      BY <1>4, <2>1 DEF MQTT_Task, mqtt_send_keepalive
    <3> QED BY <2>1, <3>1 DEF Sends
  <2>2. CASE connState = "MQTT_DATA" /\ queue > 0 /\ sendTimeout = 0
    <3>1. PICK ok \in espconn_send :
            Sends("data", ok) /\ UNCHANGED <<connState, keepAliveTick>>
      BY <1>4, <2>2 DEF MQTT_Task, SendOldest
    <3> QED BY <2>2, <3>1 DEF Sends
  <2>3. CASE connState = "MQTT_DATA" /\ ~(queue > 0 /\ sendTimeout = 0)
    BY <1>4, <2>3 DEF MQTT_Task, net
  <2>4. CASE ~InSession
    BY <1>4, <2>4 DEF MQTT_Task, MQTT_Connect
  <2> QED BY <2>1, <2>2, <2>3, <2>4
<1>5. CASE mqtt_timer
  <2>1. CASE connState = "MQTT_DATA"
    BY <1>5, <2>1 DEF mqtt_timer, CountSecond, net
  <2>2. CASE connState = "TCP_RECONNECT_REQ"
    BY <1>5, <2>2 DEF mqtt_timer, CountSecond
  <2>3. CASE connState \notin {"MQTT_DATA", "TCP_RECONNECT_REQ"}
    BY <1>5, <2>3 DEF mqtt_timer, CountSecond
  <2> QED BY <2>1, <2>2, <2>3
<1>6. CASE tryConnect
  BY <1>6 DEF tryConnect, MQTT_Connect
<1>7. ASSUME NEW accepted \in BOOLEAN, RecvConnack(accepted) PROVE SilenceInv'
  BY <1>7 DEF RecvConnack
<1>8. CASE mqtt_tcpclient_recv
  BY <1>8 DEF mqtt_tcpclient_recv
<1>9. CASE MQTT_Publish
  BY <1>9 DEF MQTT_Publish, net
<1>10. CASE BrokerCloses \/ Reset
  BY <1>10 DEF BrokerCloses, Reset, client
<1>11. CASE WifiLost \/ WifiBack
  BY <1>11 DEF WifiLost, WifiBack, client, net
<1>12. CASE UNCHANGED vars
  BY <1>12 DEF vars, client, net
<1> QED
  BY <1>1, <1>2, <1>3, <1>4, <1>5, <1>6, <1>7, <1>8, <1>9, <1>10, <1>11, <1>12
  DEF Next, Callback

-----------------------------------------------------------------------------
(* The theorems.                                                           *)

\* The client never leaves the inductive invariant.
THEOREM InductiveInvariant == Spec => []IInv
BY InitIInv, NextIInv, PTL DEF Spec

\* The variables of the client keep their types and its counters never pass
\* their limits, whatever the order of callbacks, timers and events.
THEOREM TypeCorrect == Spec => []TypeOK
<1>1. Init => Flags
  BY Zenon DEF Init, Flags
<1>2. Spec => []Flags
  BY <1>1, NextFlags, PTL DEF Spec
<1>3. IInv /\ Flags => TypeOK
  BY DEF IInv, TypeOK
<1> QED BY <1>2, <1>3, InductiveInvariant, PTL

\* MQTT_DATA is only the state of a connection whose CONNACK has arrived.
THEOREM SessionExists == Spec => []DataMeansSession
<1>1. IInv => DataMeansSession
  BY DEF IInv
<1> QED BY <1>1, InductiveInvariant, PTL

\* The single event of MQTT_Task is there whenever it has something to do.
THEOREM WakeupNeverLost == Spec => []NoLostWakeup
<1>1. IInv => NoLostWakeup
  BY DEF IInv
<1> QED BY <1>1, InductiveInvariant, PTL

\* Each step of the client leaves timer_try_connect at rest in a session.
LEMMA StepRetry ==
  ASSUME RetryAtRest, [Next]_vars
  PROVE  RetryAtRest'
<1> USE DEF RetryAtRest, InSession
<1>1. CASE mqtt_tcpclient_connect_cb \/ mqtt_tcpclient_sent_cb
  BY <1>1 DEF mqtt_tcpclient_connect_cb, mqtt_tcpclient_sent_cb, user
<1>2. CASE mqtt_tcpclient_discon_cb \/ mqtt_tcpclient_recon_cb
  BY <1>2 DEF mqtt_tcpclient_discon_cb, Disconnected, mqtt_tcpclient_recon_cb
<1>3. CASE MQTT_Task
  BY <1>3 DEF MQTT_Task, MQTT_Connect, mqtt_send_keepalive, user
<1>4. CASE mqtt_timer
  BY <1>4 DEF mqtt_timer, CountSecond, user
<1>5. CASE tryConnect
  BY <1>5 DEF tryConnect, MQTT_Connect
<1>6. ASSUME NEW accepted \in BOOLEAN, RecvConnack(accepted) PROVE RetryAtRest'
  BY <1>6 DEF RecvConnack, mqttConnectedCb, user
<1>7. CASE mqtt_tcpclient_recv \/ MQTT_Publish
  BY <1>7 DEF mqtt_tcpclient_recv, MQTT_Publish, user
<1>8. CASE BrokerCloses \/ Reset \/ WifiLost \/ WifiBack
  BY <1>8 DEF BrokerCloses, Reset, WifiLost, WifiBack, client, user
<1>9. CASE UNCHANGED vars
  BY <1>9 DEF vars, client, user
<1> QED BY <1>1, <1>2, <1>3, <1>4, <1>5, <1>6, <1>7, <1>8, <1>9
        DEF Next, Callback

\* mqttConnectedCb disarms timer_try_connect when the session begins, and only
\* the end of a session arms it again: no retry ever aborts a session.
THEOREM NoRetryInSession == Spec => []RetryAtRest
<1>1. Init => RetryAtRest
  BY DEF Init, RetryAtRest, InSession
<1> QED BY <1>1, StepRetry, PTL DEF Spec

\* With a keep alive of at least four seconds and a broker that sends nothing
\* by itself, the client is never silent for longer than a broker tolerates.
THEOREM SilenceBounded ==
  ASSUME ~Inbound, KeepAlive >= 4
  PROVE  Spec => []KeptAlive
<1>1. Init => SilenceInv
  BY Constants, PingAfterType DEF Init, SilenceInv, InSession
<1>2. IInv /\ SilenceInv /\ [Next]_vars => SilenceInv'
  BY NextSilence
<1>3. Spec => []SilenceInv
  BY <1>1, <1>2, InductiveInvariant, PTL DEF Spec
<1>4. IInv /\ SilenceInv => KeptAlive
  <2> SUFFICES ASSUME IInv, SilenceInv, InSession PROVE 2 * silent <= 3 * KeepAlive
    BY DEF KeptAlive
  <2>1. silent \in Nat /\ keepAliveTick \in Nat /\ keepAliveTick <= PingAfter + 1
    BY Constants, PingAfterType DEF IInv, Counters
  <2>2. silent <= 2 * PingAfter + 2
    BY <2>1, PingAfterType DEF SilenceInv
  <2>3. PingAfter >= 2
    BY Constants, PingAfterType
  <2> QED BY <2>1, <2>2, <2>3, Constants, PingAfterType
<1> QED BY <1>3, <1>4, InductiveInvariant, PTL

-----------------------------------------------------------------------------
(* The wake of a device on battery.                                         *)

\* Only a CONNACK opens a session: every other step of the client that ends
\* in a session began in one.
OpensNone == InSession' => InSession

\* mqtt.c: outside mqtt_tcpclient_recv no callback, timer or task goes from
\* another state to MQTT_DATA or MQTT_KEEPALIVE_SEND.
LEMMA StepsOpenNone ==
  ASSUME \/ Untimed \/ Disconnected \/ MQTT_Task \/ mqtt_tcpclient_recv
         \/ tryConnect \/ CountSecond \/ MQTT_Disconnect
  PROVE  OpensNone
<1>1. CASE Untimed
  BY <1>1 DEF Untimed, OpensNone, InSession, mqtt_tcpclient_connect_cb,
       mqtt_tcpclient_sent_cb, mqtt_tcpclient_recon_cb, BrokerCloses, Reset,
       WifiLost, WifiBack, client, Drop, system_os_post
<1>2. CASE Disconnected
  BY <1>2 DEF Disconnected, OpensNone, InSession
<1>3. CASE MQTT_Task
  BY <1>3 DEF MQTT_Task, MQTT_Connect, mqtt_send_keepalive, Sends, OpensNone,
       InSession
<1>4. CASE mqtt_tcpclient_recv
  BY <1>4 DEF mqtt_tcpclient_recv, OpensNone, InSession
<1>5. CASE tryConnect
  BY <1>5 DEF tryConnect, MQTT_Connect, OpensNone, InSession
<1>6. CASE CountSecond
  BY <1>6 DEF CountSecond, OpensNone, InSession
<1>7. CASE MQTT_Disconnect
  BY <1>7 DEF MQTT_Disconnect, OpensNone, InSession
<1> QED BY <1>1, <1>2, <1>3, <1>4, <1>5, <1>6, <1>7

\* connectedCB takes timer_DisconnectMQTT back from go_sleep in the same step
\* that opens a session.
LEMMA SessionTakesTimer ==
  ASSUME NeverCutsSession, NEW accepted \in BOOLEAN, Connack(accepted)
  PROVE  NeverCutsSession'
<1>1. CASE connState' = "MQTT_DATA"
  BY <1>1 DEF Connack, connectedCB, NeverCutsSession
<1>2. CASE connState' # "MQTT_DATA"
  <2>1. connState' = connState
    BY <1>2 DEF Connack, RecvConnack
  <2> QED BY <1>2, <2>1 DEF Connack, NeverCutsSession, InSession
<1> QED BY <1>1, <1>2

\* Every step keeps it: connectedCB and DisconnectMQTT are the two that
\* change both the state of the client and the function of the timer.
LEMMA StepNeverCuts ==
  ASSUME NeverCutsSession, [SleepNext]_sleepVars
  PROVE  NeverCutsSession'
<1>1. CASE Untimed \/ Closed \/ Task \/ TimedTry \/ TimedSecond
  <2>1. OpensNone /\ UNCHANGED disconnectFn
    BY <1>1, StepsOpenNone DEF Untimed, Closed, Task, TimedTry, TimedSecond, Rest
  <2> QED BY <2>1 DEF OpensNone, NeverCutsSession
<1>2. CASE Data
  <2>1. OpensNone
    BY <1>2, StepsOpenNone DEF Data
  <2> QED BY <1>2, <2>1 DEF Data, OpensNone, NeverCutsSession
<1>3. ASSUME NEW accepted \in BOOLEAN, Connack(accepted) PROVE NeverCutsSession'
  BY <1>3, SessionTakesTimer
<1>4. CASE timer_mesure_handler
  BY <1>4 DEF timer_mesure_handler, Rest, NeverCutsSession, InSession
<1>5. CASE Disconnects
  BY <1>5 DEF Disconnects, DisconnectMQTT, MQTT_Disconnect, NeverCutsSession,
       InSession
<1>6. CASE go_sleep \/ Tick \/ Key \/ TopicEnd
  BY <1>6 DEF go_sleep, Tick, Key, TopicEnd, vars, client, NeverCutsSession,
       InSession
<1>7. CASE UNCHANGED sleepVars
  BY <1>7 DEF sleepVars, device, vars, client, NeverCutsSession, InSession
<1> QED BY <1>1, <1>2, <1>3, <1>4, <1>5, <1>6, <1>7 DEF SleepNext

\* user_main.c, connectedCB and DisconnectMQTT: whatever the periods of the
\* timers, the number of faults and what is typed, go_sleep never runs while
\* the client is in a session.
THEOREM NeverCuts == SleepSpec => []NeverCutsSession
<1>1. Boot => NeverCutsSession
  BY DEF Boot, NeverCutsSession
<1> QED BY <1>1, StepNeverCuts, PTL DEF SleepSpec

\* The next step of the same argument: the step in which the device falls
\* asleep is never one in which it is in a session.
THEOREM SleepsOutOfSession ==
  SleepSpec => [][asleep' # asleep => ~InSession]_sleepVars
<1>1. ASSUME NeverCutsSession, [SleepNext]_sleepVars
      PROVE  [asleep' # asleep => ~InSession]_sleepVars
  <2>1. CASE go_sleep
    BY <1>1, <2>1 DEF go_sleep, NeverCutsSession
  <2>2. CASE ~go_sleep
    BY <1>1, <2>2 DEF SleepNext, Untimed, Closed, Task, Data, Connack, TimedTry,
         TimedSecond, timer_mesure_handler, Disconnects, DisconnectMQTT, Tick,
         Key, TopicEnd, Rest
  <2> QED BY <2>1, <2>2
<1> QED BY <1>1, NeverCuts, PTL DEF SleepSpec

-----------------------------------------------------------------------------
(* Types.                                                                  *)

Lefts == {0} \cup UNION {1..Armed(n) : n \in Periods}

LEMMA PeriodsAreNumbers == Periods \subseteq Nat \ {0} /\ Measures \in Nat /\ MaxKeys \in Nat
BY SleepAssumption DEF Periods

LEMMA LeftsType ==
  /\ Lefts \subseteq Nat
  /\ 0 \in Lefts
  /\ \A n \in Periods : Armed(n) \in Lefts /\ Armed(n) > 0
  /\ \A n \in Lefts : n > 1 => n - 1 \in Lefts
<1>1. \A n \in Periods : Armed(n) \in Nat /\ Armed(n) > 1
  BY PeriodsAreNumbers DEF Armed
<1>2. ASSUME NEW n \in Lefts, n > 1 PROVE n - 1 \in Lefts
  <2>1. PICK p \in Periods : n \in 1..Armed(p)
    BY <1>2 DEF Lefts
  <2>2. n - 1 \in 1..Armed(p)
    BY <1>1, <1>2, <2>1
  <2> QED BY <2>2 DEF Lefts
<1> QED BY <1>1, <1>2 DEF Lefts

\* The types of what the device adds to the client, and its timers.
DeviceOK ==
  /\ left \in [Timers -> Lefts]
  /\ disconnectFn \in {"none", "DisconnectMQTT", "go_sleep"}
  /\ retired \in BOOLEAN /\ topic \in BOOLEAN /\ asleep \in BOOLEAN
  /\ quick \in BOOLEAN /\ heard \in BOOLEAN
  /\ keys \in 0..MaxKeys /\ timeouts \in 0..MaxKeys + 2

TimersAgree ==
  ~asleep => (tryTimer <=> left["try"] > 0) /\ (mqttTimer <=> left["second"] > 0)

LEMMA SleepTypeParts == SleepTypeOK <=> TypeOK /\ DeviceOK /\ TimersAgree
BY DEF SleepTypeOK, DeviceOK, TimersAgree, Lefts

\* The states and the counters of the client.
Ranges == States /\ Counters /\ TickBounded

LEMMA StepRanges ==
  ASSUME Ranges, [SleepNext]_sleepVars
  PROVE  Ranges'
<1> USE Constants, PingAfterType
    DEF Ranges, States, Counters, TickBounded, AtMost, system_os_post
<1>1. CASE Untimed
  BY <1>1 DEF Untimed, mqtt_tcpclient_connect_cb, mqtt_tcpclient_sent_cb,
       mqtt_tcpclient_recon_cb, Drop, BrokerCloses, Reset, WifiLost, WifiBack,
       Fault, client, user, net, env
<1>2. CASE Closed
  BY <1>2 DEF Closed, Disconnected, Drop, env
<1>3. CASE Task
  <2>0. MQTT_Task
    BY <1>3 DEF Task
  <2> HIDE DEF system_os_post
  <2>1. CASE connState = "TCP_RECONNECT"
    BY <2>0, <2>1 DEF MQTT_Task, MQTT_Connect, Drop, user, env
  <2>2. CASE connState \in {"TCP_RECONNECT_DISCONNECTING", "TCP_DISCONNECTING"}
    BY <2>0, <2>2 DEF MQTT_Task, espconn_disconnect, user, env
  <2>3. CASE connState = "MQTT_KEEPALIVE_SEND"
    BY <2>0, <2>3 DEF MQTT_Task, mqtt_send_keepalive, Sends, user, env
  <2>4. CASE connState = "MQTT_DATA" /\ queue > 0 /\ sendTimeout = 0
    BY <2>0, <2>4 DEF MQTT_Task, SendOldest, Sends, user, env
  <2>5. CASE connState = "TCP_DISCONNECTED"
    BY <2>0, <2>5 DEF MQTT_Task, Drop, user, env
  <2>6. CASE /\ connState \notin {"TCP_RECONNECT", "TCP_RECONNECT_DISCONNECTING",
                                  "TCP_DISCONNECTING", "TCP_DISCONNECTED",
                                  "MQTT_KEEPALIVE_SEND"}
             /\ ~(connState = "MQTT_DATA" /\ queue > 0 /\ sendTimeout = 0)
    BY <2>0, <2>6 DEF MQTT_Task, net, user, env
  <2> QED BY <2>1, <2>2, <2>3, <2>4, <2>5, <2>6
<1>4. CASE Data
  BY <1>4 DEF Data, mqtt_tcpclient_recv, net, env
<1>5. ASSUME NEW accepted \in BOOLEAN, Connack(accepted) PROVE Ranges'
  BY <1>5 DEF Connack, RecvConnack, mqttConnectedCb, espconn_disconnect, Fault
<1>6. CASE TimedTry
  BY <1>6 DEF TimedTry, tryConnect, MQTT_Connect, Drop, env
<1>7. CASE TimedSecond
  <2>0. CountSecond
    BY <1>7 DEF TimedSecond
  <2>1. CASE connState = "MQTT_DATA"
    BY <2>0, <2>1 DEF CountSecond, KeepAliveDue, net, env
  <2>2. CASE connState = "TCP_RECONNECT_REQ"
    BY <2>0, <2>2 DEF CountSecond, ReconnectDue, net, env
  <2>3. CASE connState \notin {"MQTT_DATA", "TCP_RECONNECT_REQ"}
    BY <2>0, <2>3 DEF CountSecond, net, env
  <2> QED BY <2>1, <2>2, <2>3
<1>8. CASE timer_mesure_handler \/ TopicEnd
  <2>1. /\ queue' \in {AtMost(queue + Measures, QueueMax), AtMost(queue + 1, QueueMax)}
        /\ UNCHANGED <<connState, sendTimeout, keepAliveTick, reconnectTick, pending,
                       net, env, silent>>
    BY <1>8 DEF timer_mesure_handler, TopicEnd
  <2>2. Measures \in Nat
    BY PeriodsAreNumbers
  <2> QED BY <2>1, <2>2 DEF net, env
<1>9. CASE Disconnects
  BY <1>9 DEF Disconnects, DisconnectMQTT, MQTT_Disconnect, net, env
<1>10. CASE go_sleep \/ Tick \/ Key \/ UNCHANGED sleepVars
  BY <1>10 DEF go_sleep, Tick, Key, sleepVars, vars, client, net, env
<1> QED BY <1>1, <1>2, <1>3, <1>4, <1>5, <1>6, <1>7, <1>8, <1>9, <1>10 DEF SleepNext

\* The session of the client, on a device that leaves it by itself.
LEMMA StepSession ==
  ASSUME States, DataMeansSession, [SleepNext]_sleepVars
  PROVE  DataMeansSession'
<1> USE DEF States, DataMeansSession, InSession
<1>1. CASE Untimed
  BY <1>1 DEF Untimed, mqtt_tcpclient_connect_cb, mqtt_tcpclient_sent_cb,
       mqtt_tcpclient_recon_cb, BrokerCloses, Reset, WifiLost, WifiBack, client, net
<1>2. CASE Closed
  BY <1>2 DEF Closed, Disconnected
<1>3. CASE Task
  BY <1>3 DEF Task, MQTT_Task, MQTT_Connect, mqtt_send_keepalive, net, espconn_disconnect
<1>4. CASE Data
  BY <1>4 DEF Data, mqtt_tcpclient_recv, net
<1>5. ASSUME NEW accepted \in BOOLEAN, Connack(accepted) PROVE DataMeansSession'
  BY <1>5 DEF Connack, RecvConnack
<1>6. CASE TimedTry
  BY <1>6 DEF TimedTry, tryConnect, MQTT_Connect
<1>7. CASE TimedSecond
  BY <1>7 DEF TimedSecond, CountSecond, net
<1>8. CASE timer_mesure_handler \/ TopicEnd
  BY <1>8 DEF timer_mesure_handler, TopicEnd, net
<1>9. CASE Disconnects
  BY <1>9 DEF Disconnects, DisconnectMQTT, MQTT_Disconnect
<1>10. CASE go_sleep \/ Tick \/ Key \/ UNCHANGED sleepVars
  BY <1>10 DEF go_sleep, Tick, Key, sleepVars, vars, client, net
<1> QED BY <1>1, <1>2, <1>3, <1>4, <1>5, <1>6, <1>7, <1>8, <1>9, <1>10 DEF SleepNext

\* The variables of the client that are true or false.
LEMMA StepFlags == Flags /\ [SleepNext]_sleepVars => Flags'
<1> SUFFICES ASSUME Flags, [SleepNext]_sleepVars PROVE Flags'
  OBVIOUS
<1>1. CASE [Next]_vars
  BY <1>1, NextFlags
<1> USE DEF Flags, system_os_post
<1>2. CASE Closed
  BY <1>2 DEF Closed, Disconnected, mqttDisconnectedCb, Drop, user, env
<1>3. CASE TimedSecond
  BY <1>3 DEF TimedSecond, CountSecond, user, net, env
<1>4. CASE timer_mesure_handler \/ TopicEnd
  BY <1>4 DEF timer_mesure_handler, TopicEnd, user, net, env
<1>5. CASE Disconnects
  BY <1>5 DEF Disconnects, DisconnectMQTT, MQTT_Disconnect, user, net, env
<1>6. CASE Untimed \/ Task \/ Data \/ TimedTry \/ \E accepted \in BOOLEAN : Connack(accepted)
  <2>1. Next
    BY <1>6 DEF Untimed, Task, Data, TimedTry, Connack, Next, Callback
  <2> QED BY <1>1, <2>1
<1>7. CASE go_sleep \/ Tick \/ Key \/ UNCHANGED sleepVars
  <2>1. UNCHANGED vars
    BY <1>7 DEF go_sleep, Tick, Key, sleepVars
  <2> QED BY <1>1, <2>1
<1> QED BY <1>2, <1>3, <1>4, <1>5, <1>6, <1>7 DEF SleepNext

\* What the device adds.
LEMMA StepDevice ==
  ASSUME DeviceOK, [SleepNext]_sleepVars
  PROVE  DeviceOK'
<1> USE LeftsType DEF DeviceOK, AtMost
<1> DEFINE Others == UNCHANGED <<retired, topic, asleep, quick, keys, heard, timeouts>>
<1>0. {Grace, TryConnect, Measure, Idle, TopicIdle, Second, Console, Timeout}
        \subseteq Periods /\ IdleTime \in Periods
  BY DEF Periods, IdleTime
<1>00. /\ Measures \in Nat /\ MaxKeys \in Nat
  BY PeriodsAreNumbers
<1>1. CASE Untimed \/ UNCHANGED sleepVars
  BY <1>1 DEF Untimed, Rest, sleepVars, device
<1>2. CASE Closed
  BY <1>0, <1>2 DEF Closed, Rest, Timers
<1>3. CASE Task
  BY <1>0, <1>3 DEF Task, Rest, Timers
<1>4. CASE Data
  BY <1>0, <1>4 DEF Data, Timers
<1>5. ASSUME NEW accepted \in BOOLEAN, Connack(accepted) PROVE DeviceOK'
  BY <1>0, <1>5 DEF Connack, connectedCB, Timers
<1>6. CASE TimedTry \/ TimedSecond
  BY <1>0, <1>6 DEF TimedTry, TimedSecond, Rest, Timers
<1>7. CASE timer_mesure_handler
  BY <1>7 DEF timer_mesure_handler, Rest, Timers
<1>8. CASE Disconnects
  <2>1. PICK n \in Lefts : DisconnectMQTT(n)
    BY <1>0, <1>8 DEF Disconnects, Timers
  <2>2. left' \in [Timers -> Lefts]
    BY <1>0, <2>1 DEF DisconnectMQTT, Timers
  <2>3. timeouts' \in {timeouts, AtMost(timeouts + 1, MaxKeys + 2)}
    BY <1>8 DEF Disconnects
  <2>4. timeouts' \in 0..MaxKeys + 2
    BY <1>00, <2>3
  <2> QED BY <2>1, <2>2, <2>4 DEF DisconnectMQTT
<1>9. CASE go_sleep
  BY <1>9 DEF go_sleep
<1>10. CASE Tick
  BY <1>10 DEF Tick
<1>11. CASE Key \/ TopicEnd
  <2>1. PICK n \in Lefts : left' = [left EXCEPT !["disconnect"] = n]
    BY <1>0, <1>11 DEF Key, TopicEnd
  <2>2. left' \in [Timers -> Lefts]
    BY <2>1
  <2>3. keys' \in 0..MaxKeys
    <3>1. keys < MaxKeys /\ keys' = keys + 1
      BY <1>11 DEF Key, TopicEnd
    <3> QED BY <1>00, <3>1
  <2>4. topic' \in BOOLEAN /\ disconnectFn' = "DisconnectMQTT"
    BY <1>11, Zenon DEF Key, TopicEnd
  <2>5. UNCHANGED <<retired, asleep, quick, heard, timeouts>>
    BY <1>11 DEF Key, TopicEnd
  <2> QED BY <2>2, <2>3, <2>4, <2>5
<1> QED BY <1>1, <1>2, <1>3, <1>4, <1>5, <1>6, <1>7, <1>8, <1>9, <1>10, <1>11
        DEF SleepNext

\* Every callback that arms or disarms timer_try_connect or mqttTimer does so
\* where the client notes it.
LEMMA StepTimersAgree ==
  ASSUME Flags, DataMeansSession, DeviceOK, TimersAgree, [SleepNext]_sleepVars
  PROVE  TimersAgree'
<1> USE LeftsType DEF TimersAgree
<1>0. {TryConnect, Second} \subseteq Periods
  BY DEF Periods
<1>00. left \in [Timers -> Lefts] /\ DOMAIN left = Timers
       /\ {"try", "second", "mesure", "disconnect", "timeout"} \subseteq Timers
  BY DEF DeviceOK, Timers
<1>1. CASE Untimed
  BY <1>1 DEF Untimed, Rest, mqtt_tcpclient_connect_cb, mqtt_tcpclient_sent_cb,
       mqtt_tcpclient_recon_cb, BrokerCloses, Reset, WifiLost, WifiBack, client, user
<1>2. CASE Closed
  BY <1>0, <1>00, <1>2 DEF Closed, Rest, Disconnected, mqttDisconnectedCb, user
<1>3. CASE Task
  <2>1. CASE connState = "TCP_RECONNECT"
    BY <1>0, <1>00, <1>3, <2>1 DEF Task, MQTT_Task, MQTT_Connect, Rest, user
  <2>2. CASE connState # "TCP_RECONNECT"
    <3>1. UNCHANGED <<mqttTimer, user>>
      BY <1>3, <2>2 DEF Task, MQTT_Task, mqtt_send_keepalive, SendOldest
    <3>2. left' = left /\ asleep' = asleep
      BY <1>00, <1>3, <2>2 DEF Task, Rest
    <3> QED BY <3>1, <3>2 DEF user
  <2> QED BY <2>1, <2>2
<1>4. CASE Data
  BY <1>00, <1>4 DEF Data, mqtt_tcpclient_recv, user
<1>5. ASSUME NEW accepted \in BOOLEAN, Connack(accepted) PROVE TimersAgree'
  <2>1. CASE connState' = "MQTT_DATA" /\ connState = "MQTT_CONNECT_SENDING"
    BY <1>00, <1>5, <2>1 DEF Connack, connectedCB, RecvConnack, mqttConnectedCb
  <2>2. CASE connState' # "MQTT_DATA"
    BY <1>5, <2>2 DEF Connack, RecvConnack, user
  <2>3. CASE connState' = "MQTT_DATA" /\ connState # "MQTT_CONNECT_SENDING"
    BY <1>5, <2>3 DEF Connack, RecvConnack, DataMeansSession, InSession
  <2> QED BY <2>1, <2>2, <2>3
<1>6. CASE TimedTry
  BY <1>0, <1>00, <1>6 DEF TimedTry, tryConnect, MQTT_Connect, Rest, user
<1>7. CASE TimedSecond
  BY <1>0, <1>00, <1>7 DEF TimedSecond, CountSecond, Rest, user
<1>8. CASE timer_mesure_handler
  BY <1>00, <1>8 DEF timer_mesure_handler, Rest, user
<1>9. CASE Disconnects
  BY <1>00, <1>9 DEF Disconnects, DisconnectMQTT, MQTT_Disconnect, user
<1>10. CASE go_sleep
  BY <1>10 DEF go_sleep
<1>11. CASE Tick
  <2>1. left["try"] \in Nat /\ left["second"] \in Nat
    BY <1>00
  <2>2. UNCHANGED <<asleep, tryTimer, mqttTimer>>
    BY <1>11 DEF Tick, vars, user, client
  <2>3. \A t \in {"try", "second"} : left'[t] = IF left[t] > 1 THEN left[t] - 1 ELSE 0
    BY <1>00, <1>11 DEF Tick
  <2>4. left["try"] # 1 /\ left["second"] # 1
    BY <1>00, <1>11 DEF Tick
  <2> QED BY <2>1, <2>2, <2>3, <2>4
<1>12. CASE Key \/ TopicEnd
  BY <1>00, <1>12 DEF Key, TopicEnd, vars, client, user
<1>13. CASE UNCHANGED sleepVars
  BY <1>13 DEF sleepVars, device, vars, client, user
<1> QED BY <1>1, <1>2, <1>3, <1>4, <1>5, <1>6, <1>7, <1>8, <1>9, <1>10, <1>11, <1>12,
           <1>13 DEF SleepNext

\* What SleepTypeOK needs besides itself: the limit of the keep alive counter,
\* and that a CONNACK opens no session twice.
SleepInv == SleepTypeOK /\ TickBounded /\ DataMeansSession

LEMMA BootInv == Boot => SleepInv
<1> SUFFICES ASSUME Boot PROVE SleepInv
  OBVIOUS
<1>1. IInv
  BY InitIInv DEF Boot
<1>2. Flags
  BY Zenon DEF Boot, Init, Flags
<1>3. {TryConnect, Measure, Timeout} \subseteq Periods
  BY DEF Periods
<1>4. DeviceOK
  <2>1. left \in [Timers -> Lefts]
    BY <1>3, LeftsType DEF Boot
  <2>2. quick \in BOOLEAN
    BY Zenon DEF Boot
  <2>3. keys = 0 /\ timeouts = 0 /\ 0 \in 0..MaxKeys /\ 0 \in 0..MaxKeys + 2
    BY PeriodsAreNumbers DEF Boot
  <2>4. retired \in BOOLEAN /\ topic \in BOOLEAN /\ asleep \in BOOLEAN /\ heard \in BOOLEAN
    BY Zenon DEF Boot
  <2>5. disconnectFn = "none"
    BY DEF Boot
  <2> QED BY <2>1, <2>2, <2>3, <2>4, <2>5 DEF DeviceOK
<1>5. TimersAgree
  BY <1>3, LeftsType DEF Boot, Init, TimersAgree, Timers
<1> QED BY <1>1, <1>2, <1>4, <1>5, SleepTypeParts DEF IInv, SleepInv, TypeOK

LEMMA NextInv == SleepInv /\ [SleepNext]_sleepVars => SleepInv'
<1> SUFFICES ASSUME SleepInv, [SleepNext]_sleepVars PROVE SleepInv'
  OBVIOUS
<1>1. Ranges /\ Flags /\ DeviceOK /\ TimersAgree /\ DataMeansSession
  BY SleepTypeParts DEF SleepInv, TypeOK, Ranges
<1>2. Ranges'
  BY <1>1, StepRanges
<1>3. Flags'
  BY <1>1, StepFlags
<1>4. DeviceOK' /\ TimersAgree' /\ DataMeansSession'
  BY <1>1, StepDevice, StepTimersAgree, StepSession DEF Ranges
<1>5. SleepTypeOK' <=> TypeOK' /\ DeviceOK' /\ TimersAgree'
  BY SleepTypeParts, PTL
<1> QED BY <1>2, <1>3, <1>4, <1>5 DEF SleepInv, TypeOK, Ranges

\* On a device that disconnects by itself the variables of the client keep
\* their types, and timer_try_connect and mqttTimer are armed exactly while the
\* client believes it: for every period, fault and key.
THEOREM SleepTypeCorrect == SleepSpec => []SleepTypeOK
<1>1. SleepInv => SleepTypeOK
  BY DEF SleepInv
<1> QED BY <1>1, BootInv, NextInv, PTL DEF SleepSpec

-----------------------------------------------------------------------------
(* What a step does to the timers that end a wake.                         *)

Wait == left["disconnect"]
Limit == left["timeout"]

\* A step that leaves both timers, and what a user does, alone.
Quiet == UNCHANGED <<Wait, Limit, disconnectFn, retired, topic, asleep, keys, timeouts>>

\* The steps that do not: a session opens, or lasts a while longer, a timer
\* expires, a tick, somebody types.
Opens == /\ connState = "MQTT_CONNECT_SENDING" /\ connState' = "MQTT_DATA"
         /\ session = "sent" /\ session' = "accepted"
         /\ tcp = "open" /\ UNCHANGED <<tcp, reconnectTick, topic>>
         /\ left' = [left EXCEPT !["try"] = 0, !["disconnect"] = Armed(IdleTime)]
         /\ disconnectFn' = "DisconnectMQTT"
         /\ UNCHANGED <<retired, asleep, keys, timeouts>>

Lasts == /\ topic /\ InSession
         /\ left' = [left EXCEPT !["disconnect"] = Armed(Idle)]
         /\ disconnectFn' = "DisconnectMQTT"
         /\ UNCHANGED <<connState, reconnectTick, net, retired, topic, asleep, keys,
                        timeouts>>

Types == \E n \in {Console, TopicIdle} :
           /\ left' = [left EXCEPT !["disconnect"] = Armed(n)]
           /\ disconnectFn' = "DisconnectMQTT"
           /\ keys' = keys + 1
           /\ UNCHANGED <<connState, reconnectTick, net, retired, asleep, timeouts>>

\* A step of a device is quiet or one of these.
LEMMA StepKinds ==
  ASSUME SleepInv, [SleepNext]_sleepVars
  PROVE  \/ Quiet /\ OpensNone
         \/ Opens \/ Lasts \/ Types \/ Disconnects \/ go_sleep \/ Tick
<1> USE DEF Quiet, Wait, Limit
<1>0. /\ left \in [Timers -> Lefts]
      /\ {"try", "second", "mesure", "disconnect", "timeout"} \subseteq Timers
  BY SleepTypeParts DEF SleepInv, DeviceOK, Timers
<1>1. CASE Untimed \/ TimedTry \/ TimedSecond \/ Closed \/ Task
  <2>1. OpensNone
    BY <1>1, StepsOpenNone DEF TimedTry, TimedSecond, Closed, Task
  <2>2. Quiet
    BY <1>0, <1>1 DEF Untimed, TimedTry, TimedSecond, Closed, Task, Rest
  <2> QED BY <2>1, <2>2
<1>2. CASE Data
  <2>1. OpensNone
    BY <1>2, StepsOpenNone DEF Data
  <2>2. UNCHANGED <<connState, reconnectTick, net, retired, topic, asleep, keys, timeouts>>
    BY <1>2 DEF Data, mqtt_tcpclient_recv
  <2>3. CASE UNCHANGED <<left, disconnectFn>>
    BY <2>1, <2>2, <2>3
  <2>4. CASE ~UNCHANGED <<left, disconnectFn>>
    <3>1. Lasts
      BY <1>2, <2>2, <2>4 DEF Data, Lasts
    <3> QED BY <3>1
  <2> QED BY <2>3, <2>4
<1>3. ASSUME NEW accepted \in BOOLEAN, Connack(accepted)
      PROVE  (Quiet /\ OpensNone) \/ Opens
  <2>1. CASE connState' = "MQTT_DATA" /\ connState = "MQTT_CONNECT_SENDING"
    <3>1. /\ tcp = "open" /\ session = "sent" /\ session' = "accepted"
          /\ UNCHANGED <<tcp, reconnectTick>>
      BY <1>3, <2>1 DEF Connack, RecvConnack
    <3>2. Opens
      BY <1>3, <2>1, <3>1 DEF Connack, connectedCB, Opens
    <3> QED BY <3>2
  <2>2. CASE connState' # "MQTT_DATA"
    <3>1. connState' = connState
      BY <1>3, <2>2 DEF Connack, RecvConnack
    <3> QED BY <1>3, <2>2, <3>1 DEF Connack, OpensNone, InSession
  <2>3. CASE connState' = "MQTT_DATA" /\ connState # "MQTT_CONNECT_SENDING"
    BY <1>3, <2>3 DEF Connack, RecvConnack, SleepInv, DataMeansSession, InSession
  <2> QED BY <2>1, <2>2, <2>3
<1>4. CASE timer_mesure_handler
  BY <1>0, <1>4 DEF timer_mesure_handler, Rest, OpensNone, InSession
<1>5. CASE Key \/ TopicEnd
  <2>1. Types
    BY <1>5 DEF Key, TopicEnd, Types, vars, client, net
  <2> QED BY <2>1
<1>6. CASE UNCHANGED sleepVars
  BY <1>6 DEF sleepVars, vars, client, device, OpensNone, InSession
<1> QED BY <1>1, <1>2, <1>3, <1>4, <1>5, <1>6 DEF SleepNext

-----------------------------------------------------------------------------
(* The time out of a wake.                                                 *)

\* The order of the periods on which it depends: 200 and 800 ms are less than the
\* 3 s of the console, which are less than the 5 s and more after which a lost
\* connection is retried; all that together is less than the time out of 40 s.
PeriodsOrdered ==
  /\ Idle < Console /\ TopicIdle < Console
  /\ Console < ReconnectTimeout * Second
  /\ Idle + Console + 2 * Grace + 1 < Timeout

\* What a time out may still cost: there is one, and another for each key.
Credit == 1 + keys - timeouts

\* No handshake is under way, and none begins before mqtt_timer has counted.
NoHandshake == /\ left["try"] = 0 /\ tcp # "connecting" /\ session # "sent"
               /\ connState # "TCP_RECONNECT"

\* Ticks until mqtt_timer asks for a connection in place of the one that is lost,
\* or would be if it were lost now.
ToReconnect ==
  IF connState = "TCP_RECONNECT_REQ"
  THEN (ReconnectTimeout - reconnectTick) * Second + left["second"]
  ELSE ReconnectTimeout * Second + left["second"]

\* timer_DisconnectMQTT expires first, so that this session is the last one.
LastSession == NoHandshake /\ (left["second"] > 0 => Wait < ToReconnect)

\* There will be no session any more.
Dead == NoHandshake /\ ~InSession /\ left["second"] = 0

\* Without another session, or a key, the wake ends before the time out.
ToSleep == IF disconnectFn = "go_sleep" THEN Wait ELSE Wait + Grace
Short == ToSleep < Limit

\* The time out has just been: the device waits for go_sleep, or for the end of
\* a session that opened meanwhile and gets no packets.
Fresh == /\ ~topic
         /\ \/ disconnectFn = "go_sleep" /\ Limit + Grace >= Timeout + Wait
            \/ /\ disconnectFn = "DisconnectMQTT" /\ LastSession
               /\ Limit + Grace + Idle + 1 >= Timeout + Wait

\* The delay of a reconnection runs only while there is no connection.
TickAtRest == /\ tcp # "idle" => reconnectTick = 0
              /\ connState = "TCP_RECONNECT_REQ" => tcp = "idle"

\* What the steps of the client and of the timers keep by themselves.
WakeInv ==
  /\ timeouts > 0 => retired
  /\ keys = 0 => ~topic
  /\ TickAtRest
  /\ ~asleep => Limit > 0
  /\ timeouts > 0 /\ ~asleep => Wait > 0 /\ disconnectFn # "none"

\* Which states have how much of it left.
CreditInv ==
  /\ Credit >= 0
  /\ timeouts > 0 /\ ~asleep =>
       /\ Credit = 0 => Fresh \/ (Dead /\ Short)
       /\ Credit = 1 => LastSession \/ (~InSession /\ (Short \/ ~topic))

LEMMA WakeTypes ==
  ASSUME SleepInv
  PROVE  /\ left \in [Timers -> Nat]
         /\ {"try", "second", "mesure", "disconnect", "timeout"} = Timers
         /\ Wait \in Nat /\ Limit \in Nat /\ left["second"] \in Nat /\ left["try"] \in Nat
         /\ keys \in 0..MaxKeys /\ timeouts \in 0..MaxKeys + 2 /\ MaxKeys \in Nat
         /\ topic \in BOOLEAN /\ asleep \in BOOLEAN /\ retired \in BOOLEAN
         /\ disconnectFn \in {"none", "DisconnectMQTT", "go_sleep"}
         /\ reconnectTick \in 0..ReconnectTimeout
BY SleepTypeParts, LeftsType, PeriodsAreNumbers
   DEF SleepInv, DeviceOK, Timers, Wait, Limit, TypeOK, Counters

LEMMA WakePeriods ==
  /\ Idle \in Nat \ {0} /\ TopicIdle \in Nat \ {0} /\ Console \in Nat \ {0}
  /\ Grace \in Nat \ {0} /\ Timeout \in Nat \ {0} /\ Second \in Nat \ {0}
  /\ Measure \in Nat \ {0}
  /\ \A n : Armed(n) = n + 1
  /\ IdleTime \in {Idle, TopicIdle}
BY SleepAssumption DEF Armed, IdleTime

\* mqtt.c sets reconnectTick to 0 before it connects.
LEMMA StepTick ==
  ASSUME SleepInv, TickAtRest, [SleepNext]_sleepVars
  PROVE  TickAtRest'
<1> USE DEF TickAtRest
<1>1. CASE Untimed
  BY <1>1 DEF Untimed, mqtt_tcpclient_connect_cb, mqtt_tcpclient_sent_cb,
       mqtt_tcpclient_recon_cb, BrokerCloses, Reset, WifiLost, WifiBack, client, net, Drop
<1>2. CASE Closed
  BY <1>2 DEF Closed, Disconnected, Drop
<1>3. CASE Task
  BY <1>3 DEF Task, MQTT_Task, MQTT_Connect, mqtt_send_keepalive, Drop, espconn_disconnect, net
<1>4. CASE Data
  BY <1>4 DEF Data, mqtt_tcpclient_recv, net
<1>5. ASSUME NEW accepted \in BOOLEAN, Connack(accepted)
      PROVE  TickAtRest'
  BY <1>5 DEF Connack, RecvConnack, espconn_disconnect
<1>6. CASE TimedTry
  BY <1>6 DEF TimedTry, tryConnect, MQTT_Connect
<1>7. CASE TimedSecond
  BY <1>7 DEF TimedSecond, CountSecond, net
<1>8. CASE timer_mesure_handler \/ TopicEnd
  BY <1>8 DEF timer_mesure_handler, TopicEnd, net
<1>9. CASE Disconnects
  BY <1>9 DEF Disconnects, DisconnectMQTT, MQTT_Disconnect, net
<1>10. CASE go_sleep \/ Tick \/ Key \/ UNCHANGED sleepVars
  BY <1>10 DEF go_sleep, Tick, Key, sleepVars, vars, client, net
<1> QED BY <1>1, <1>2, <1>3, <1>4, <1>5, <1>6, <1>7, <1>8, <1>9, <1>10 DEF SleepNext

\* A time out counts: AtMost in Disconnects never bites.
LEMMA DisconnectSteps ==
  ASSUME SleepInv, CreditInv, Disconnects
  PROVE  /\ retired' /\ disconnectFn' = "go_sleep" /\ Wait' = Grace + 1
         /\ left["second"]' = 0 /\ left["try"]' = left["try"]
         /\ ~InSession' /\ connState' = "TCP_DISCONNECTING" /\ ~asleep
         /\ UNCHANGED <<net, reconnectTick, topic, asleep, keys>>
         /\ \/ /\ Wait = 1 /\ disconnectFn = "DisconnectMQTT"
               /\ Limit' = Limit /\ timeouts' = timeouts
            \/ Limit = 1 /\ Limit' = Timeout + 1 /\ timeouts' = timeouts + 1
<1>0. /\ left \in [Timers -> Nat] /\ DOMAIN left = Timers
      /\ {"try", "second", "mesure", "disconnect", "timeout"} = Timers
      /\ timeouts \in 0..MaxKeys + 2 /\ keys \in 0..MaxKeys /\ MaxKeys \in Nat
  BY WakeTypes
<1>1. PICK n : DisconnectMQTT(n) /\ \/ /\ Due("disconnect") /\ disconnectFn = "DisconnectMQTT"
                                       /\ n = left["timeout"] /\ timeouts' = timeouts
                                    \/ /\ Due("timeout") /\ n = Armed(Timeout)
                                       /\ timeouts' = AtMost(timeouts + 1, MaxKeys + 2)
  BY Zenon DEF Disconnects
<1>2. /\ retired' /\ disconnectFn' = "go_sleep"
      /\ connState' = "TCP_DISCONNECTING"
      /\ UNCHANGED <<net, reconnectTick, topic, asleep, keys>>
  BY <1>1 DEF DisconnectMQTT, MQTT_Disconnect
<1>3. left' = [left EXCEPT !["second"] = 0, !["disconnect"] = Armed(Grace),
                           !["timeout"] = n]
  BY <1>1 DEF DisconnectMQTT
<1>4. Wait' = Grace + 1 /\ left["second"]' = 0 /\ left["try"]' = left["try"] /\ Limit' = n
  BY <1>0, <1>3 DEF Wait, Limit, Armed
<1>5. timeouts <= MaxKeys + 1
  BY <1>0 DEF CreditInv, Credit
<1>6. timeouts' = AtMost(timeouts + 1, MaxKeys + 2) => timeouts' = timeouts + 1
  BY <1>0, <1>5 DEF AtMost
<1>7. ~InSession'
  BY <1>2 DEF InSession
<1> QED BY <1>1, <1>2, <1>4, <1>6, <1>7, WakePeriods DEF Due, Wait, Limit

LEMMA SleepSteps ==
  ASSUME SleepInv, go_sleep
  PROVE  asleep' /\ UNCHANGED <<connState, net, reconnectTick, topic, retired, keys, timeouts>>
BY DEF go_sleep, vars, client, net

LEMMA TickSteps ==
  ASSUME SleepInv, Tick
  PROVE  /\ ~asleep /\ UNCHANGED <<connState, net, reconnectTick, topic, retired, keys,
                                   timeouts, disconnectFn, asleep>>
         /\ \A t \in Timers : left[t] # 1 /\ left[t]' = IF left[t] > 1 THEN left[t] - 1 ELSE 0
         /\ Wait # 1 /\ Wait' = IF Wait > 1 THEN Wait - 1 ELSE 0
         /\ Limit # 1 /\ Limit' = IF Limit > 1 THEN Limit - 1 ELSE 0
<1>0. {"try", "second", "mesure", "disconnect", "timeout"} = Timers
  BY WakeTypes
<1>1. \A t \in Timers : left[t] # 1 /\ left[t]' = IF left[t] > 1 THEN left[t] - 1 ELSE 0
  BY DEF Tick
<1> QED BY <1>0, <1>1 DEF Tick, vars, client, net, Wait, Limit

\* What happens to the timers that arm others in a step that sets only Wait.
LEMMA OnlyWait ==
  ASSUME SleepInv, NEW n \in Nat, left' = [left EXCEPT !["disconnect"] = Armed(n)]
  PROVE  /\ Wait' = n + 1 /\ Limit' = Limit
         /\ left["second"]' = left["second"] /\ left["try"]' = left["try"]
BY WakeTypes DEF Wait, Limit, Armed

LEMMA OpenSteps ==
  ASSUME SleepInv, Opens
  PROVE  /\ Wait' = IdleTime + 1 /\ Limit' = Limit
         /\ left["second"]' = left["second"] /\ left["try"]' = 0
BY WakeTypes DEF Wait, Limit, Opens, Armed

\* The simple part of the invariant.
LEMMA NextWakeInv ==
  ASSUME SleepInv, WakeInv, CreditInv, [SleepNext]_sleepVars
  PROVE  WakeInv'
<1>0. TickAtRest'
  BY StepTick DEF WakeInv
<1> HIDE DEF TickAtRest
<1> USE WakeTypes, WakePeriods DEF WakeInv
<1>1. CASE Quiet
  BY <1>0, <1>1 DEF Quiet
<1>2. CASE Opens
  BY <1>0, <1>2, OpenSteps DEF Opens
<1>3. CASE Lasts
  <2>1. Wait' = Idle + 1 /\ Limit' = Limit
    <3>1. left' = [left EXCEPT !["disconnect"] = Armed(Idle)]
      BY <1>3 DEF Lasts
    <3>2. Idle \in Nat
      OBVIOUS
    <3> QED BY <3>1, <3>2, OnlyWait
  <2> QED BY <1>0, <1>3, <2>1 DEF Lasts
<1>4. CASE Types
  <2>1. PICK n \in {Console, TopicIdle} : left' = [left EXCEPT !["disconnect"] = Armed(n)]
    BY <1>4 DEF Types
  <2>2. Wait' = n + 1 /\ Limit' = Limit
    <3>1. n \in Nat
      OBVIOUS
    <3> QED BY <2>1, <3>1, OnlyWait
  <2>3. /\ disconnectFn' = "DisconnectMQTT" /\ keys' = keys + 1
        /\ UNCHANGED <<retired, asleep, timeouts>>
    BY <1>4 DEF Types
  <2> QED BY <1>0, <2>2, <2>3
<1>5. CASE Disconnects
  BY <1>0, <1>5, DisconnectSteps
<1>6. CASE go_sleep
  BY <1>0, <1>6, SleepSteps
<1>7. CASE Tick
  BY <1>0, <1>7, TickSteps
<1> QED BY <1>1, <1>2, <1>3, <1>4, <1>5, <1>6, <1>7, StepKinds

\* Once retired, only mqtt_timer begins a handshake, at the end of its delay.
LEMMA StepNoHandshake ==
  ASSUME SleepInv, retired, NoHandshake, [SleepNext]_sleepVars
  PROVE  \/ NoHandshake'
         \/ /\ connState = "TCP_RECONNECT_REQ" /\ reconnectTick = ReconnectTimeout
            /\ left["second"] = 1
<1>0. /\ left \in [Timers -> Nat] /\ DOMAIN left = Timers
      /\ {"try", "second", "mesure", "disconnect", "timeout"} = Timers
      /\ reconnectTick \in 0..ReconnectTimeout
  BY WakeTypes
<1> USE DEF NoHandshake
<1>1. CASE Untimed
  BY <1>1 DEF Untimed, Rest, mqtt_tcpclient_connect_cb, mqtt_tcpclient_sent_cb,
       mqtt_tcpclient_recon_cb, BrokerCloses, Reset, WifiLost, WifiBack, client, net, Drop
<1>2. CASE Closed
  BY <1>2 DEF Closed, Disconnected, Drop
<1>3. CASE Task
  <2>1. left' = left
    BY <1>0, <1>3 DEF Task
  <2>2. connState' # "TCP_RECONNECT" /\ tcp' # "connecting" /\ session' # "sent"
    BY <1>3 DEF Task, MQTT_Task, mqtt_send_keepalive, Drop, espconn_disconnect, net
  <2> QED BY <2>1, <2>2
<1>4. CASE Data
  BY <1>0, <1>4 DEF Data, mqtt_tcpclient_recv, net
<1>5. ASSUME NEW accepted \in BOOLEAN, Connack(accepted) PROVE FALSE
  BY <1>5 DEF Connack, RecvConnack
<1>6. CASE TimedTry
  BY <1>6 DEF TimedTry, Due
<1>7. CASE TimedSecond
  <2>1. CountSecond /\ left["second"] = 1 /\ left["try"]' = left["try"]
    BY <1>0, <1>7 DEF TimedSecond, Due
  <2>2. UNCHANGED net
    BY <2>1 DEF CountSecond
  <2>3. connState' = "TCP_RECONNECT" => connState = "TCP_RECONNECT_REQ" /\ ReconnectDue
    BY <2>1 DEF CountSecond
  <2>4. ReconnectDue => reconnectTick = ReconnectTimeout
    BY <1>0, Constants DEF ReconnectDue
  <2> QED BY <2>1, <2>2, <2>3, <2>4 DEF net
<1>8. CASE timer_mesure_handler \/ TopicEnd
  BY <1>0, <1>8 DEF timer_mesure_handler, TopicEnd, net
<1>9. CASE Disconnects
  BY <1>0, <1>9 DEF Disconnects, DisconnectMQTT, MQTT_Disconnect, net
<1>10. CASE go_sleep
  BY <1>0, <1>10 DEF go_sleep, vars, client, net
<1>11. CASE Tick
  BY <1>0, <1>11, TickSteps DEF net
<1>12. CASE Key \/ UNCHANGED sleepVars
  BY <1>0, <1>12 DEF Key, sleepVars, device, vars, client, net
<1> QED BY <1>1, <1>2, <1>3, <1>4, <1>5, <1>6, <1>7, <1>8, <1>9, <1>10, <1>11, <1>12
        DEF SleepNext

\* One count of the delay is one period of mqtt_timer.
LEMMA OneSecondMore ==
  ASSUME NEW n \in Nat, n < ReconnectTimeout
  PROVE  /\ (ReconnectTimeout - n) * Second = (ReconnectTimeout - (n + 1)) * Second + Second
         /\ (ReconnectTimeout - n) * Second \in Nat
         /\ (ReconnectTimeout - (n + 1)) * Second \in Nat
<1> DEFINE m == ReconnectTimeout - (n + 1)
<1>1. m \in Nat /\ ReconnectTimeout - n = m + 1 /\ Second \in Nat
  BY Constants, WakePeriods
<1> HIDE DEF m
<1>2. (m + 1) * Second = m * Second + Second /\ m * Second \in Nat
  BY <1>1
<1> QED BY <1>1, <1>2 DEF m

LEMMA ToReconnectType ==
  ASSUME SleepInv
  PROVE  /\ ToReconnect \in Nat /\ ReconnectTimeout * Second \in Nat
         /\ ToReconnect >= left["second"]
<1>1. reconnectTick \in 0..ReconnectTimeout /\ left["second"] \in Nat /\ Second \in Nat
      /\ ReconnectTimeout \in Nat
  BY WakeTypes, WakePeriods, Constants
<1>2. \A a, b \in Nat : a * b \in Nat
  OBVIOUS
<1>3. ReconnectTimeout - reconnectTick \in Nat
  BY <1>1
<1>4. /\ (ReconnectTimeout - reconnectTick) * Second \in Nat
      /\ ReconnectTimeout * Second \in Nat
  BY <1>1, <1>2, <1>3
<1> QED BY <1>1, <1>4 DEF ToReconnect

LEMMA WaitsAreNumbers ==
  SleepInv => Wait \in Nat /\ Limit \in Nat /\ left["second"] \in Nat /\ ToReconnect \in Nat
BY WakeTypes, ToReconnectType

LEMMA NextWaitsAreNumbers ==
  ASSUME SleepInv, [SleepNext]_sleepVars
  PROVE  Wait' \in Nat /\ Limit' \in Nat /\ left["second"]' \in Nat /\ ToReconnect' \in Nat
<1>1. SleepInv'
  BY NextInv
<1>2. SleepInv' => (Wait \in Nat /\ Limit \in Nat /\ left["second"] \in Nat
                      /\ ToReconnect \in Nat)'
  BY WaitsAreNumbers, PTL
<1> QED BY <1>1, <1>2

\* Without a handshake, the delay only gets shorter by the ticks that pass, and
\* mqtt_timer is not armed again once DisconnectMQTT has disarmed it.
LEMMA StepToReconnect ==
  ASSUME SleepInv, TickAtRest, NoHandshake, NoHandshake', [SleepNext]_sleepVars,
         left["second"]' > 0
  PROVE  /\ left["second"] > 0
         /\ ToReconnect' >= IF Tick THEN ToReconnect - 1 ELSE ToReconnect
<1> DEFINE Req == "TCP_RECONNECT_REQ"
<1> DEFINE Alone == /\ left["second"]' = left["second"] /\ reconnectTick' = reconnectTick
                    /\ connState' = Req => connState = Req \/ reconnectTick = 0
                    /\ connState = Req => connState' = Req
<1>0. /\ left \in [Timers -> Nat] /\ DOMAIN left = Timers
      /\ {"try", "second", "mesure", "disconnect", "timeout"} = Timers
      /\ reconnectTick \in 0..ReconnectTimeout /\ left["second"] \in Nat
      /\ ReconnectTimeout \in Nat /\ Second \in Nat \ {0}
      /\ ToReconnect \in Nat /\ ReconnectTimeout * Second \in Nat
  BY WakeTypes, WakePeriods, Constants, ToReconnectType
<1>a. ASSUME Alone, ~Tick
      PROVE  /\ left["second"] > 0
             /\ ToReconnect' >= IF Tick THEN ToReconnect - 1 ELSE ToReconnect
  <2>1. (ReconnectTimeout - 0) * Second = ReconnectTimeout * Second
    BY <1>0
  <2>2. ToReconnect' = ToReconnect
    BY <1>a, <2>1 DEF ToReconnect
  <2> QED BY <1>0, <1>a, <2>2
<1>1. CASE Untimed /\ ~Tick
  <2>1. Alone
    BY <1>1 DEF Untimed, Rest, mqtt_tcpclient_connect_cb, mqtt_tcpclient_sent_cb,
         mqtt_tcpclient_recon_cb, BrokerCloses, Reset, WifiLost, WifiBack, client,
         NoHandshake, TickAtRest
  <2> QED BY <1>1, <1>a, <2>1
<1>2. CASE Closed /\ ~Tick
  <2>1. Alone
    BY <1>0, <1>2 DEF Closed, Disconnected, TickAtRest
  <2> QED BY <1>2, <1>a, <2>1
<1>3. CASE Task /\ ~Tick
  <2>1. left' = left
    BY <1>0, <1>3 DEF Task, NoHandshake
  <2>2. reconnectTick' = reconnectTick /\ (connState = Req <=> connState' = Req)
    BY <1>3 DEF Task, MQTT_Task, mqtt_send_keepalive, NoHandshake
  <2> QED BY <1>3, <1>a, <2>1, <2>2
<1>4. CASE Data /\ ~Tick
  <2>1. Alone
    BY <1>0, <1>4 DEF Data, mqtt_tcpclient_recv
  <2> QED BY <1>4, <1>a, <2>1
<1>5. ASSUME NEW accepted \in BOOLEAN, Connack(accepted) PROVE FALSE
  BY <1>5 DEF Connack, RecvConnack, NoHandshake
<1>6. CASE TimedTry
  BY <1>6 DEF TimedTry, Due, NoHandshake
<1>7. CASE TimedSecond
  <2>1. /\ CountSecond /\ left["second"] = 1 /\ left["second"]' = Second + 1
    BY <1>0, <1>7 DEF TimedSecond, Due, Armed
  <2>2. CASE connState = Req
    <3>1. ~ReconnectDue
      BY <2>1, <2>2 DEF CountSecond, NoHandshake
    <3>2. connState' = Req /\ reconnectTick' = reconnectTick + 1
      BY <2>1, <2>2, <3>1 DEF CountSecond
    <3>3. reconnectTick < ReconnectTimeout
      BY <1>0, <3>1 DEF ReconnectDue
    <3>4. ToReconnect' = ToReconnect
      BY <1>0, <2>1, <2>2, <3>2, <3>3, OneSecondMore DEF ToReconnect
    <3> QED BY <1>0, <2>1, <3>4
  <2>3. CASE connState # Req
    <3>1. connState' # Req
      BY <2>1, <2>3 DEF CountSecond
    <3> QED BY <1>0, <2>1, <2>3, <3>1 DEF ToReconnect
  <2> QED BY <2>2, <2>3
<1>8. CASE timer_mesure_handler /\ ~Tick
  <2>1. Alone
    BY <1>0, <1>8 DEF timer_mesure_handler
  <2> QED BY <1>8, <1>a, <2>1
<1>9. CASE Disconnects
  <2>1. left["second"]' = 0
    BY <1>0, <1>9 DEF Disconnects, DisconnectMQTT
  <2> QED BY <2>1
<1>10. CASE go_sleep
  BY <1>0, <1>10 DEF go_sleep
<1>11. CASE Tick
  <2>1. /\ left["second"] > 1 /\ left["second"]' = left["second"] - 1
        /\ UNCHANGED <<connState, reconnectTick>>
    BY <1>0, <1>11, TickSteps
  <2>2. ToReconnect' = ToReconnect - 1
    <3>1. ToReconnect - left["second"] \in Nat
      BY <1>0, ToReconnectType
    <3>2. CASE connState = Req
      <4> DEFINE m == (ReconnectTimeout - reconnectTick) * Second
      <4>1. ToReconnect = m + left["second"] /\ ToReconnect' = m + (left["second"] - 1)
        BY <2>1, <3>2 DEF ToReconnect
      <4>2. m \in Int
        BY <1>0
      <4> HIDE DEF m
      <4> QED BY <1>0, <4>1, <4>2
    <3>3. CASE connState # Req
      BY <1>0, <2>1, <3>3 DEF ToReconnect
    <3> QED BY <3>2, <3>3
  <2> QED BY <1>0, <1>11, <2>1, <2>2
<1>12. CASE (Key \/ TopicEnd) /\ ~Tick
  <2>1. Alone
    BY <1>0, <1>12 DEF Key, TopicEnd, vars, client
  <2> QED BY <1>12, <1>a, <2>1
<1>13. CASE UNCHANGED sleepVars /\ ~Tick
  <2>1. Alone
    BY <1>13 DEF sleepVars, device, vars, client
  <2> QED BY <1>13, <1>a, <2>1
<1> QED BY <1>1, <1>2, <1>3, <1>4, <1>5, <1>6, <1>7, <1>8, <1>9, <1>10, <1>11, <1>12,
           <1>13 DEF SleepNext

\* A last session stays the last one while nobody types.
LEMMA StepLastSession ==
  ASSUME SleepInv, TickAtRest, retired, Wait > 0, LastSession, [SleepNext]_sleepVars,
         Quiet \/ Tick
  PROVE  LastSession'
<1>0. /\ Wait \in Nat /\ left["second"] \in Nat /\ ToReconnect \in Nat /\ Second \in Nat
      /\ ReconnectTimeout \in Nat /\ NoHandshake
      /\ left["second"] > 0 => Wait < ToReconnect
  BY WakeTypes, WakePeriods, Constants, ToReconnectType DEF LastSession
<1>1. ASSUME connState = "TCP_RECONNECT_REQ", reconnectTick = ReconnectTimeout,
             left["second"] = 1
      PROVE  FALSE
  <2>1. (ReconnectTimeout - ReconnectTimeout) * Second = 0
    BY <1>0
  <2>2. ToReconnect = 1
    BY <1>1, <2>1 DEF ToReconnect
  <2> QED BY <1>0, <1>1, <2>2
<1>2. NoHandshake'
  BY <1>0, <1>1, StepNoHandshake
<1>3. ASSUME left["second"]' > 0 PROVE Wait' < ToReconnect'
  <2>1. left["second"] > 0 /\ ToReconnect' >= IF Tick THEN ToReconnect - 1 ELSE ToReconnect
    BY <1>0, <1>2, <1>3, StepToReconnect
  <2>2. Wait' = IF Tick THEN Wait - 1 ELSE Wait
    <3>1. CASE Tick
      BY <1>0, <3>1, TickSteps
    <3>2. CASE ~Tick
      BY <3>2 DEF Quiet
    <3> QED BY <3>1, <3>2
  <2>3. ToReconnect' \in Int
    BY NextWaitsAreNumbers
  <2> QED BY <1>0, <2>1, <2>2, <2>3
<1> QED BY <1>2, <1>3 DEF LastSession

\* What is over stays over, whatever happens.
LEMMA StepDead ==
  ASSUME SleepInv, TickAtRest, retired, Dead, [SleepNext]_sleepVars, (Quiet /\ OpensNone) \/ Tick
  PROVE  Dead'
<1>1. NoHandshake /\ ~InSession /\ left["second"] = 0
  BY DEF Dead
<1>2. NoHandshake'
  BY <1>1, StepNoHandshake
<1>3. left["second"]' = 0
  <2>1. left["second"]' \in Nat
    BY NextWaitsAreNumbers
  <2>2. ~(left["second"]' > 0)
    BY <1>1, <1>2, StepToReconnect
  <2> QED BY <2>1, <2>2
<1>4. ~InSession'
  BY <1>1, TickSteps DEF OpensNone, InSession
<1> QED BY <1>2, <1>3, <1>4 DEF Dead

\* Unless the client waits to reconnect, the delay is still ahead.
LEMMA DelayAhead ==
  ASSUME SleepInv, PeriodsOrdered, connState # "TCP_RECONNECT_REQ", left["second"] > 0
  PROVE  /\ \A n \in Nat : n <= Console => n + 1 < ToReconnect
         /\ \A n \in {Idle, TopicIdle} : n + 1 < ToReconnect
<1>1. ToReconnect = ReconnectTimeout * Second + left["second"]
  BY DEF ToReconnect
<1> QED BY <1>1, WakeTypes, WakePeriods, ToReconnectType DEF PeriodsOrdered

\* Nothing happens to the timers: what is over stays over.
LEMMA QuietCredit ==
  ASSUME SleepInv, WakeInv, CreditInv, [SleepNext]_sleepVars, Quiet, OpensNone
  PROVE  CreditInv'
<1>1. Credit' = Credit /\ Short' = Short
  BY DEF Quiet, Credit, Short, ToSleep
<1> SUFFICES ASSUME timeouts > 0, ~asleep
             PROVE  /\ Credit = 0 => Fresh' \/ (Dead' /\ Short)
                    /\ Credit = 1 => LastSession' \/ (~InSession' /\ (Short \/ ~topic'))
  BY <1>1 DEF CreditInv, Quiet
<1>2. TickAtRest /\ retired /\ Wait > 0
  BY DEF WakeInv
<1>3. LastSession => LastSession'
  BY <1>2, StepLastSession
<1>4. Dead => Dead'
  BY <1>2, StepDead
<1>5. Fresh => Fresh'
  BY <1>3 DEF Fresh, Quiet
<1>6. ~InSession => ~InSession'
  BY DEF OpensNone
<1> QED BY <1>3, <1>4, <1>5, <1>6 DEF CreditInv, Quiet

\* A session that opens is the last one: its time is short of the delay.
LEMMA OpensCredit ==
  ASSUME SleepInv, PeriodsOrdered, WakeInv, CreditInv, [SleepNext]_sleepVars, Opens
  PROVE  CreditInv'
<1>1. /\ Wait' = IdleTime + 1 /\ Limit' = Limit /\ left["second"]' = left["second"]
      /\ left["try"]' = 0
  BY OpenSteps
<1>2. Credit' = Credit
  BY DEF Opens, Credit
<1>3. ~LastSession /\ ~Dead
  BY DEF Opens, LastSession, Dead, NoHandshake
<1>4. LastSession'
  <2>1. NoHandshake'
    BY <1>1 DEF Opens, NoHandshake
  <2>2. connState # "TCP_RECONNECT_REQ" /\ ToReconnect' = ToReconnect
    BY <1>1 DEF Opens, ToReconnect
  <2>3. left["second"] > 0 => IdleTime + 1 < ToReconnect
    BY <2>2, DelayAhead, WakePeriods
  <2> QED BY <1>1, <2>1, <2>2, <2>3 DEF LastSession
<1>5. ASSUME timeouts > 0, ~asleep, Fresh PROVE Fresh'
  <2>1. ~topic /\ Limit + Grace >= Timeout + Wait
    BY <1>3, <1>5 DEF Fresh
  <2>2. Wait' = Idle + 1
    BY <1>1, <2>1 DEF IdleTime
  <2>3. Limit' + Grace + Idle + 1 >= Timeout + Wait'
    BY <1>1, <2>1, <2>2, WakeTypes, WakePeriods
  <2> QED BY <1>4, <2>1, <2>3 DEF Opens, Fresh
<1> QED BY <1>2, <1>3, <1>4, <1>5 DEF CreditInv, Opens

\* So is one that goes on.
LEMMA LastsCredit ==
  ASSUME SleepInv, PeriodsOrdered, WakeInv, CreditInv, [SleepNext]_sleepVars, Lasts
  PROVE  CreditInv'
<1>1. Credit' = Credit /\ InSession
  BY DEF Lasts, Credit
<1>2. ~Fresh /\ ~Dead
  BY <1>1 DEF Lasts, Fresh, Dead
<1>3. Wait' = Idle + 1 /\ left["second"]' = left["second"] /\ left["try"]' = left["try"]
  BY OnlyWait, WakePeriods DEF Lasts
<1>4. ASSUME LastSession PROVE LastSession'
  <2>1. NoHandshake'
    BY <1>3, <1>4 DEF Lasts, LastSession, NoHandshake, net
  <2>2. connState # "TCP_RECONNECT_REQ" /\ ToReconnect' = ToReconnect
    BY <1>1, <1>3 DEF Lasts, InSession, ToReconnect
  <2>3. left["second"] > 0 => Idle + 1 < ToReconnect
    BY <2>2, DelayAhead
  <2> QED BY <1>3, <2>1, <2>2, <2>3 DEF LastSession
<1> QED BY <1>1, <1>2, <1>4 DEF CreditInv, Lasts

\* Somebody types: the time out may expire once more.
LEMMA TypesCredit ==
  ASSUME SleepInv, PeriodsOrdered, NeverCutsSession, WakeInv, CreditInv,
         [SleepNext]_sleepVars, Types
  PROVE  CreditInv'
<1>1. PICK n \in {Console, TopicIdle} : left' = [left EXCEPT !["disconnect"] = Armed(n)]
  BY DEF Types
<1>2. n \in Nat /\ n <= Console
  BY WakePeriods DEF PeriodsOrdered
<1>3. /\ Wait' = n + 1 /\ Limit' = Limit
      /\ left["second"]' = left["second"] /\ left["try"]' = left["try"]
  BY <1>1, <1>2, OnlyWait
<1>4. /\ disconnectFn' = "DisconnectMQTT" /\ Credit' = Credit + 1
      /\ UNCHANGED <<connState, reconnectTick, net, timeouts, asleep>>
  BY WakeTypes DEF Types, Credit
<1>5. /\ NoHandshake' = NoHandshake /\ ToReconnect' = ToReconnect
      /\ InSession' = InSession
  BY <1>3, <1>4 DEF NoHandshake, ToReconnect, InSession, net
<1>6. ASSUME timeouts > 0, ~asleep, Credit = 0
      PROVE  LastSession' \/ (~InSession' /\ Short')
  <2>1. Wait > 0
    BY <1>6 DEF WakeInv
  <2>2. CASE Fresh /\ disconnectFn = "go_sleep"
    <3>1. ~InSession
      BY <2>2 DEF NeverCutsSession
    <3>2. Limit + Grace >= Timeout + Wait
      BY <2>2 DEF Fresh
    <3>3. Wait' + Grace < Limit
      BY <1>2, <1>3, <2>1, <3>2, WakeTypes, WakePeriods DEF PeriodsOrdered
    <3> QED BY <1>3, <1>4, <1>5, <3>1, <3>3 DEF Short, ToSleep
  <2>3. CASE Fresh /\ disconnectFn # "go_sleep"
    <3>1. LastSession /\ Limit + Grace + Idle + 1 >= Timeout + Wait
      BY <2>3 DEF Fresh
    <3>2. CASE InSession
      <4>1. left["second"] > 0 => n + 1 < ToReconnect
        BY <1>2, <3>2, DelayAhead DEF InSession
      <4> QED BY <1>3, <1>5, <3>1, <4>1 DEF LastSession
    <3>3. CASE ~InSession
      <4>1. Wait' + Grace < Limit
        BY <1>2, <1>3, <2>1, <3>1, WakeTypes, WakePeriods DEF PeriodsOrdered
      <4> QED BY <1>3, <1>4, <1>5, <3>3, <4>1 DEF Short, ToSleep
    <3> QED BY <3>2, <3>3
  <2>4. CASE Dead
    BY <1>3, <1>5, <2>4 DEF Dead, LastSession
  <2> QED BY <1>6, <2>2, <2>3, <2>4 DEF CreditInv
<1>7. Credit \in Nat
  BY WakeTypes DEF CreditInv, Credit
<1>8. Credit' >= 1 /\ (Credit' = 1 => Credit = 0)
  BY <1>4, <1>7
<1> QED BY <1>4, <1>6, <1>7, <1>8 DEF CreditInv

\* DisconnectMQTT is the end of the last session, or of the time to have one.
LEMMA DisconnectsCredit ==
  ASSUME SleepInv, PeriodsOrdered, WakeInv, CreditInv, [SleepNext]_sleepVars, Disconnects
  PROVE  CreditInv'
<1>1. /\ disconnectFn' = "go_sleep" /\ Wait' = Grace + 1
      /\ left["second"]' = 0 /\ left["try"]' = left["try"]
      /\ ~InSession' /\ connState' = "TCP_DISCONNECTING" /\ ~asleep
      /\ UNCHANGED <<net, topic, asleep, keys>>
      /\ \/ /\ Wait = 1 /\ disconnectFn = "DisconnectMQTT"
            /\ Limit' = Limit /\ timeouts' = timeouts
         \/ Limit = 1 /\ Limit' = Timeout + 1 /\ timeouts' = timeouts + 1
  BY DisconnectSteps
<1>2. NoHandshake => Dead' /\ LastSession'
  BY <1>1 DEF NoHandshake, Dead, LastSession, net
<1>3. LastSession \/ Dead => NoHandshake
  BY DEF LastSession, Dead
<1>4. Short' <=> Grace + 1 < Limit'
  BY <1>1 DEF Short, ToSleep
<1> USE WakeTypes, WakePeriods
<1>5. CASE timeouts' = timeouts /\ Limit' = Limit /\ Wait = 1
           /\ disconnectFn = "DisconnectMQTT"
  <2>1. Credit' = Credit
    BY <1>1, <1>5 DEF Credit
  <2>2. Short => Short'
    BY <1>4, <1>5 DEF Short, ToSleep
  <2>3. ASSUME Fresh PROVE Dead' /\ Short'
    <3>1. LastSession /\ Limit + Grace + Idle + 1 >= Timeout + 1
      BY <1>5, <2>3 DEF Fresh
    <3>2. Grace + 1 < Limit
      BY <3>1 DEF PeriodsOrdered
    <3> QED BY <1>2, <1>3, <1>4, <1>5, <3>1, <3>2
  <2> QED BY <1>1, <1>2, <1>3, <1>5, <2>1, <2>2, <2>3 DEF CreditInv
<1>6. CASE Limit = 1 /\ Limit' = Timeout + 1 /\ timeouts' = timeouts + 1
  <2>1. Credit' = Credit - 1
    BY <1>1, <1>6 DEF Credit
  <2>2. Short'
    BY <1>4, <1>6 DEF PeriodsOrdered
  <2>3. ~topic => Fresh'
    BY <1>1, <1>6 DEF Fresh
  <2>4. CASE timeouts = 0
    <3>1. Credit = 1 + keys /\ (keys = 0 => ~topic)
      BY <2>4 DEF Credit, WakeInv
    <3> QED BY <1>1, <2>1, <2>2, <2>3, <3>1 DEF CreditInv
  <2>5. CASE timeouts > 0
    <3>1. Wait > 0
      BY <1>1, <2>5 DEF WakeInv
    <3>2. ~Short
      BY <1>6, <3>1 DEF Short, ToSleep
    <3>3. ~Fresh
      BY <1>6, <3>1 DEF Fresh, PeriodsOrdered
    <3>4. Credit # 0
      BY <1>1, <2>5, <3>2, <3>3 DEF CreditInv
    <3>5. Credit = 1 => NoHandshake \/ ~topic
      BY <1>1, <1>3, <2>5, <3>2 DEF CreditInv
    <3> QED BY <1>1, <1>2, <2>1, <2>2, <2>3, <3>4, <3>5 DEF CreditInv, Credit
  <2> QED BY <2>4, <2>5
<1> QED BY <1>1, <1>5, <1>6

\* Time brings all the ends nearer alike.
LEMMA TickCredit ==
  ASSUME SleepInv, WakeInv, CreditInv, [SleepNext]_sleepVars, Tick
  PROVE  CreditInv'
<1>1. /\ ~asleep
      /\ UNCHANGED <<connState, topic, keys, timeouts, disconnectFn, asleep>>
      /\ Wait # 1 /\ Wait' = IF Wait > 1 THEN Wait - 1 ELSE 0
      /\ Limit # 1 /\ Limit' = IF Limit > 1 THEN Limit - 1 ELSE 0
  BY TickSteps
<1>2. Credit' = Credit
  BY <1>1 DEF Credit
<1>3. CASE timeouts = 0
  BY <1>1, <1>2, <1>3 DEF CreditInv
<1>4. CASE timeouts > 0
  <2>1. TickAtRest /\ retired /\ Wait > 0 /\ Limit > 0
    BY <1>1, <1>4 DEF WakeInv
  <2>2. Wait' = Wait - 1 /\ Limit' = Limit - 1
    BY <1>1, <2>1, WakeTypes
  <2>3. LastSession => LastSession'
    BY <2>1, StepLastSession
  <2>4. Dead => Dead'
    BY <2>1, StepDead
  <2>5. Short => Short'
    BY <1>1, <2>2, WakeTypes, WakePeriods DEF Short, ToSleep
  <2>6. Fresh => Fresh'
    BY <1>1, <2>2, <2>3, WakeTypes, WakePeriods DEF Fresh
  <2>7. InSession' = InSession
    BY <1>1 DEF InSession
  <2> QED BY <1>1, <1>2, <1>4, <2>3, <2>4, <2>5, <2>6, <2>7 DEF CreditInv
<1> QED BY <1>3, <1>4, WakeTypes

LEMMA NextCreditInv ==
  ASSUME SleepInv, PeriodsOrdered, NeverCutsSession, WakeInv, CreditInv,
         [SleepNext]_sleepVars
  PROVE  CreditInv'
<1>1. CASE go_sleep
  BY <1>1, SleepSteps DEF CreditInv, Credit
<1> QED BY <1>1, StepKinds, QuietCredit, OpensCredit, LastsCredit, TypesCredit,
           DisconnectsCredit, TickCredit

LEMMA BootWake == Boot => WakeInv /\ CreditInv
<1> SUFFICES ASSUME Boot PROVE WakeInv /\ CreditInv
  OBVIOUS
<1>1. /\ timeouts = 0 /\ keys = 0 /\ ~topic /\ ~retired
      /\ tcp = "idle" /\ connState = "WIFI_INIT" /\ reconnectTick = 0
  BY DEF Boot, Init
<1>2. Limit = Timeout + 1
  BY DEF Boot, Limit, Timers, Armed
<1> QED BY <1>1, <1>2, WakePeriods DEF WakeInv, TickAtRest, CreditInv, Credit

LEMMA WakeAlways ==
  ASSUME PeriodsOrdered
  PROVE  SleepSpec => [](WakeInv /\ CreditInv)
<1>1. SleepInv /\ NeverCutsSession /\ WakeInv /\ CreditInv /\ [SleepNext]_sleepVars
        => WakeInv' /\ CreditInv'
  BY NextWakeInv, NextCreditInv
<1>2. SleepSpec => []SleepInv
  BY BootInv, NextInv, PTL DEF SleepSpec
<1> QED BY <1>1, <1>2, BootWake, NeverCuts, PTL DEF SleepSpec

\* user_main.c, timer_time_out_connection: whatever the network does and whatever is
\* typed, the first expiry ends the wake, unless somebody typed, and each further
\* one needs another key: a session that opens during the grace time is ended by its
\* own timer, before mqtt_timer could ask for a new connection.  The periods only
\* have to be in the order that they have in the sources.
THEOREM AwakeIsBounded ==
  ASSUME PeriodsOrdered
  PROVE  SleepSpec => []AwakeBounded
<1>1. SleepInv /\ CreditInv => AwakeBounded
  BY WakeTypes DEF CreditInv, Credit, AwakeBounded
<1>2. SleepSpec => []SleepInv
  BY BootInv, NextInv, PTL DEF SleepSpec
<1> QED BY <1>1, <1>2, WakeAlways, PTL

\* Ticks since the device started.
Awake == timeouts * Timeout + (Timeout + 1 - Limit)

LEMMA Times ==
  ASSUME NEW n \in Nat, NEW m \in Nat
  PROVE  /\ n * m \in Nat /\ (n + 1) * m = n * m + m
         /\ \A k \in Nat : k <= n => k * m <= n * m
<1>1. n * m \in Nat /\ (n + 1) * m = n * m + m
  OBVIOUS
<1>2. ASSUME NEW k \in Nat, k <= n PROVE k * m <= n * m
  <2>1. PICK d \in Nat : n = k + d
    <3>1. n - k \in Nat /\ n = k + (n - k)
      BY <1>2
    <3> QED BY <3>1
  <2>2. (k + d) * m = k * m + d * m /\ d * m \in Nat /\ k * m \in Nat
    OBVIOUS
  <2> QED BY <2>1, <2>2
<1> QED BY <1>1, <1>2

LEMMA LimitStays ==
  ASSUME SleepInv, Opens \/ Lasts \/ Types \/ Quiet
  PROVE  Limit' = Limit /\ timeouts' = timeouts
<1>1. CASE Opens
  BY <1>1, OpenSteps DEF Opens
<1>2. CASE Lasts
  BY <1>2, OnlyWait, WakePeriods DEF Lasts
<1>3. CASE Types
  <2>1. PICK n \in {Console, TopicIdle} : left' = [left EXCEPT !["disconnect"] = Armed(n)]
    BY <1>3 DEF Types
  <2>2. n \in Nat
    BY WakePeriods
  <2> QED BY <1>3, <2>1, <2>2, OnlyWait DEF Types
<1>4. CASE Quiet
  BY <1>4 DEF Quiet
<1> QED BY <1>1, <1>2, <1>3, <1>4

\* While the device is awake, Awake counts the ticks, and nothing else: the time out is
\* armed in user_init and at its own expiry, and nowhere is it stopped or delayed.
THEOREM AwakeIsTime ==
  ASSUME PeriodsOrdered
  PROVE  SleepSpec => [][~asleep' => Awake' = IF Tick THEN Awake + 1 ELSE Awake]_sleepVars
<1>1. ASSUME SleepInv, WakeInv, CreditInv, [SleepNext]_sleepVars, ~asleep'
      PROVE  Awake' = IF Tick THEN Awake + 1 ELSE Awake
  <2> USE WakeTypes, WakePeriods
  <2>0. timeouts * Timeout \in Nat /\ (timeouts + 1) * Timeout = timeouts * Timeout + Timeout
    BY <1>1, Times
  <2>1. CASE Tick
    <3>1. Limit > 1 /\ Limit' = Limit - 1 /\ timeouts' = timeouts
      BY <1>1, <2>1, TickSteps DEF WakeInv
    <3> QED BY <1>1, <2>0, <2>1, <3>1 DEF Awake
  <2>2. CASE ~Tick /\ Limit' = Limit /\ timeouts' = timeouts
    BY <1>1, <2>2 DEF Awake
  <2>3. CASE ~Tick /\ Disconnects /\ Limit = 1
    <3>1. \/ Limit' = Limit /\ timeouts' = timeouts
          \/ Limit' = Timeout + 1 /\ timeouts' = timeouts + 1
      BY <1>1, <2>3, DisconnectSteps
    <3>2. CASE Limit' = Timeout + 1 /\ timeouts' = timeouts + 1
      BY <1>1, <2>0, <2>3, <3>2 DEF Awake
    <3> QED BY <2>2, <2>3, <3>1, <3>2
  <2>4. ~go_sleep
    BY <1>1, SleepSteps
  <2> QED BY <1>1, <2>1, <2>2, <2>3, <2>4, StepKinds, LimitStays, DisconnectSteps
<1>2. SleepSpec => []SleepInv
  BY BootInv, NextInv, PTL DEF SleepSpec
<1>3. SleepSpec => [](WakeInv /\ CreditInv)
  BY WakeAlways
<1> QED BY <1>1, <1>2, <1>3, PTL DEF SleepSpec

\* user_main.c, TIMOUT_CONNECTION: a wake nobody interferes with lasts no longer than
\* two time outs, 80 s, whatever the network does, and each key adds one at most.
THEOREM WakesAreShort ==
  ASSUME PeriodsOrdered
  PROVE  SleepSpec => [](~asleep => Awake <= (2 + keys) * Timeout)
<1>1. SleepInv /\ WakeInv /\ CreditInv => (~asleep => Awake <= (2 + keys) * Timeout)
  <2> SUFFICES ASSUME SleepInv, WakeInv, CreditInv, ~asleep
               PROVE  Awake <= (2 + keys) * Timeout
    OBVIOUS
  <2>1. /\ timeouts \in Nat /\ keys \in Nat /\ Timeout \in Nat /\ Limit \in Nat
        /\ timeouts <= 1 + keys /\ Limit >= 1
    BY WakeTypes, WakePeriods DEF CreditInv, Credit, WakeInv
  <2>2. 1 + keys \in Nat /\ (1 + keys) + 1 = 2 + keys
    BY <2>1
  <2>3. timeouts * Timeout <= (1 + keys) * Timeout
    BY <2>1, <2>2, Times
  <2>4. (2 + keys) * Timeout = (1 + keys) * Timeout + Timeout
    BY <2>1, <2>2, Times
  <2>5. timeouts * Timeout \in Nat /\ (1 + keys) * Timeout \in Nat
    BY <2>1, <2>2, Times
  <2> QED BY <2>1, <2>3, <2>4, <2>5 DEF Awake
<1>2. SleepSpec => []SleepInv
  BY BootInv, NextInv, PTL DEF SleepSpec
<1>3. SleepSpec => [](WakeInv /\ CreditInv)
  BY WakeAlways
<1> QED BY <1>1, <1>2, <1>3, PTL

-----------------------------------------------------------------------------
(* What a wake publishes.                                                  *)

\* 100 ms are less than 200, 800 and 3000: the measure is taken before the time
\* of any session can be over.
MeasureFirst == Measure < Idle /\ Measure < TopicIdle /\ Measure < Console

Calm == quick /\ faults = 0 /\ timeouts = 0 /\ keys <= 1

\* Nothing was lost, and sendTimeout tells whether a packet is under way.
Delivering == /\ ~lost
              /\ tcp \in {"connecting", "open"} => wifi
              /\ tcp = "open" => (inflight = "none" <=> sendTimeout = 0)

\* The measure comes before the end of the session, or of the grace time.
Measuring == /\ left["mesure"] <= Measure + 1
             /\ Wait > 0 => left["mesure"] < Wait
             /\ disconnectFn = "go_sleep" => left["mesure"] = 0

\* The only session of the wake is still to come.
Before ==
  /\ tcp \in {"idle", "connecting", "open"}
  /\ connState \in {"WIFI_INIT", "TCP_CONNECTING", "MQTT_CONNECT_SENDING",
                    "TCP_DISCONNECTING"}
  /\ tcp = "open" => connState = "MQTT_CONNECT_SENDING" /\ session = "sent"
  /\ inflight \in {"none", "connect"}

\* It goes on: when its time is over, the queue is empty.
During ==
  /\ tcp = "open" /\ left["try"] = 0
  /\ connState = "MQTT_KEEPALIVE_SEND" => posted /\ inflight = "none"
  /\ connState = "MQTT_DATA" /\ queue > 0 /\ inflight = "none" => posted
  /\ Wait > 0 /\ disconnectFn = "DisconnectMQTT"
  /\ Wait = 1 => queue = 0

\* It was ended by timer_DisconnectMQTT, and there is no other.
After ==
  /\ queue = 0 /\ inflight = "none" /\ session # "sent" /\ retired
  /\ connState \in {"TCP_DISCONNECTING", "TCP_DISCONNECTED"}
  /\ tcp \in {"idle", "open", "closing"}
  /\ connState = "TCP_DISCONNECTED" => tcp = "idle"
  /\ left["try"] = 0 /\ left["second"] = 0 /\ left["mesure"] = 0

Phases == /\ ~connected => Before
          /\ InSession => During /\ connected
          /\ connected /\ ~InSession => After

MeasureInv == /\ asleep => disconnectFn = "go_sleep"
              /\ Calm => Delivering /\ Measuring /\ Phases

\* The steps that leave the timers of a session alone.
LEMMA MeasuringStays ==
  ASSUME Measuring, UNCHANGED <<Wait, left["mesure"], disconnectFn>>
  PROVE  Measuring'
BY DEF Measuring, Wait

LEMMA MeasureTypes ==
  ASSUME SleepInv
  PROVE  /\ left["mesure"] \in Nat /\ left["try"] \in Nat /\ left["second"] \in Nat
         /\ Wait \in Nat /\ left \in [Timers -> Nat] /\ DOMAIN left = Timers
         /\ {"try", "second", "mesure", "disconnect", "timeout"} = Timers
         /\ sendTimeout \in Nat /\ SendTimeout \in Nat \ {0} /\ queue \in Nat
         /\ faults \in Nat /\ keys \in Nat /\ timeouts \in Nat
<1>1. left \in [Timers -> Nat]
      /\ {"try", "second", "mesure", "disconnect", "timeout"} = Timers
      /\ keys \in Nat /\ timeouts \in Nat
  BY WakeTypes
<1>2. SendTimeout \in Nat \ {0} /\ QueueMax \in Nat /\ MaxFaults \in Nat
  BY ClientAssumption
<1>3. sendTimeout \in Nat /\ queue \in Nat /\ faults \in Nat
  BY <1>2, SleepTypeParts DEF SleepInv, TypeOK, Counters
<1> QED BY <1>1, <1>2, <1>3 DEF Wait

\* A quick network never makes a timer wait for what it has to say.
LEMMA Answered ==
  ASSUME SleepInv, Calm, Delivering, Phases, ~(quick /\ Answering)
  PROVE  /\ tcp # "connecting" /\ (tcp = "open" => session # "sent" /\ inflight = "none")
         /\ ~connected => tcp = "idle"
BY DEF Calm, Delivering, Phases, Before, Answering

-----------------------------------------------------------------------------
(* The steps, while the network is quick and there are no faults.          *)

MeasureStep == Delivering' /\ Measuring' /\ Phases'

LEMMA CalmUntimed ==
  ASSUME SleepInv, Calm, Calm', Delivering, Measuring, Phases, Untimed
  PROVE  MeasureStep
<1>1. /\ UNCHANGED <<left, disconnectFn, retired>>
  BY DEF Untimed, Rest
<1>2. Measuring'
  BY <1>1, MeasuringStays DEF Wait
<1> USE DEF MeasureStep, InSession
<1>3. CASE mqtt_tcpclient_connect_cb
  <2>1. ~connected /\ ~connected' /\ ~InSession'
    BY <1>3 DEF mqtt_tcpclient_connect_cb, Phases, During, After, user
  <2>2. /\ tcp' = "open" /\ inflight' = "connect" /\ session' = "sent" /\ wifi'
        /\ connState' = "MQTT_CONNECT_SENDING" /\ sendTimeout' = SendTimeout /\ ~lost'
    BY <1>3 DEF mqtt_tcpclient_connect_cb, Delivering, env
  <2> QED BY <1>2, <2>1, <2>2, MeasureTypes DEF Delivering, Phases, Before
<1>4. CASE mqtt_tcpclient_sent_cb
  <2>1. /\ tcp = "open" /\ wifi /\ inflight # "none" /\ inflight' = "none"
        /\ sendTimeout' = 0 /\ posted'
        /\ UNCHANGED <<connState, queue, connected, tcp, session, wifi, lost>>
    BY <1>4 DEF mqtt_tcpclient_sent_cb, system_os_post, user, env
  <2>2. Delivering'
    BY <2>1 DEF Delivering
  <2>3. Phases'
    BY <1>1, <2>1 DEF Phases, Before, During, After, Wait
  <2> QED BY <1>2, <2>2, <2>3
<1>5. CASE mqtt_tcpclient_recon_cb
  BY <1>5 DEF mqtt_tcpclient_recon_cb, Phases, Before, During, After
<1>6. CASE BrokerCloses \/ Reset \/ WifiLost
  <2>1. faults' = faults + 1
    BY <1>6 DEF BrokerCloses, Reset, WifiLost, Fault
  <2> QED BY <2>1, MeasureTypes DEF Calm
<1>7. CASE WifiBack
  <2>1. wifi' /\ UNCHANGED <<client, user, net, lost>>
    BY <1>7 DEF WifiBack
  <2>2. Delivering'
    BY <2>1 DEF Delivering, client, net
  <2>3. Phases'
    BY <1>1, <2>1 DEF Phases, Before, During, After, Wait, client, net, user
  <2> QED BY <1>2, <2>2, <2>3
<1> QED BY <1>3, <1>4, <1>5, <1>6, <1>7 DEF Untimed

LEMMA CalmClosed ==
  ASSUME SleepInv, Calm, Delivering, Measuring, Phases, Closed
  PROVE  MeasureStep
<1> USE DEF InSession
<1>1. tcp = "closing" /\ Drop("idle")
  BY DEF Closed, Disconnected
<1>2. connected /\ ~InSession /\ After
  BY <1>1 DEF Phases, Before, During
<1>3. /\ connState' = "TCP_DISCONNECTED"
      /\ UNCHANGED <<connected, left, disconnectFn, retired, queue, sendTimeout, wifi>>
  BY <1>1, <1>2 DEF Closed, Disconnected, After, Rest, user, env
<1>4. tcp' = "idle" /\ inflight' = "none" /\ session' = "no" /\ ~lost'
  BY <1>1, <1>2 DEF Drop, After, Delivering
<1>5. Measuring'
  BY <1>3, MeasuringStays DEF Wait
<1> QED BY <1>2, <1>3, <1>4, <1>5 DEF MeasureStep, Delivering, Phases, After

LEMMA CalmTask ==
  ASSUME SleepInv, Calm, Delivering, Measuring, Phases, Task
  PROVE  MeasureStep
<1> USE DEF InSession
<1>1. connState \notin {"TCP_RECONNECT", "TCP_RECONNECT_DISCONNECTING"}
  BY DEF Phases, Before, After
<1>2. left' = left /\ MQTT_Task /\ posted /\ UNCHANGED <<disconnectFn, retired, user, env>>
  BY <1>1, MeasureTypes DEF Task, Rest, MQTT_Task
<1>3. Measuring'
  BY <1>2, MeasuringStays DEF Wait
<1>4. CASE connState = "TCP_DISCONNECTING"
  <2>1. /\ tcp' = IF tcp = "open" THEN "closing" ELSE tcp
        /\ UNCHANGED <<connState, sendTimeout, queue, inflight, session, lost>>
    BY <1>2, <1>4 DEF MQTT_Task, espconn_disconnect
  <2>2. Delivering'
    BY <1>2, <2>1 DEF Delivering, env
  <2>3. Phases'
    BY <1>2, <1>4, <2>1 DEF Phases, Before, After, user
  <2> QED BY <1>3, <2>2, <2>3 DEF MeasureStep
<1>5. CASE connState = "TCP_DISCONNECTED"
  <2>1. After /\ connected
    BY <1>5 DEF Phases, Before
  <2>2. Drop("idle") /\ UNCHANGED <<connState, sendTimeout, queue>>
    BY <1>2, <1>5 DEF MQTT_Task
  <2>3. tcp' = "idle" /\ inflight' = "none" /\ session' = "no" /\ ~lost'
    BY <2>1, <2>2 DEF Drop, After, Delivering
  <2> QED BY <1>2, <1>3, <1>5, <2>1, <2>2, <2>3
          DEF MeasureStep, Delivering, Phases, After, user
<1>6. CASE connState = "MQTT_KEEPALIVE_SEND"
  <2>1. During /\ connected
    BY <1>6 DEF Phases
  <2>2. espconn_send = {TRUE}
    BY <1>6, <2>1 DEF During, espconn_send
  <2>3. mqtt_send_keepalive /\ UNCHANGED <<queue, tcp, session, lost>>
    BY <1>2, <1>6 DEF MQTT_Task
  <2>4. /\ connState' = "MQTT_DATA" /\ inflight' = "ping" /\ sendTimeout' = SendTimeout
    BY <2>2, <2>3 DEF mqtt_send_keepalive, Sends
  <2> QED BY <1>2, <1>3, <2>1, <2>3, <2>4, MeasureTypes
          DEF MeasureStep, Delivering, Phases, During, user, env, Wait
<1>7. CASE connState = "MQTT_DATA" /\ queue > 0 /\ sendTimeout = 0
  <2>1. During /\ connected
    BY <1>7 DEF Phases
  <2>2. inflight = "none" /\ espconn_send = {TRUE}
    BY <1>7, <2>1 DEF During, Delivering, espconn_send
  <2>3. SendOldest /\ UNCHANGED <<connState, tcp, session>>
    BY <1>2, <1>7 DEF MQTT_Task
  <2>4. /\ inflight' = "data" /\ sendTimeout' = SendTimeout /\ queue' = queue - 1
        /\ ~lost'
    BY <2>2, <2>3 DEF SendOldest, Sends, Delivering
  <2> QED BY <1>2, <1>3, <1>7, <2>1, <2>3, <2>4, MeasureTypes
          DEF MeasureStep, Delivering, Phases, During, user, env, Wait
<1>8. CASE \/ connState = "MQTT_DATA" /\ (queue = 0 \/ sendTimeout # 0)
           \/ connState \in {"WIFI_INIT", "TCP_CONNECTING", "MQTT_CONNECT_SENDING",
                             "TCP_RECONNECT_REQ"}
  <2>1. UNCHANGED <<connState, sendTimeout, queue, net, lost>>
    BY <1>2, <1>8 DEF MQTT_Task
  <2>2. Delivering'
    BY <1>2, <2>1 DEF Delivering, env, net
  <2>3. ASSUME InSession PROVE queue = 0 \/ inflight # "none"
    BY <1>8, <2>3 DEF Phases, During, Delivering
  <2>4. Phases'
    BY <1>2, <1>8, <2>1, <2>3 DEF Phases, Before, During, After, user, net, Wait
  <2> QED BY <1>3, <2>2, <2>4 DEF MeasureStep
<1>9. /\ queue \in Nat
      /\ connState \in {"WIFI_INIT", "TCP_CONNECTING", "MQTT_CONNECT_SENDING",
                    "MQTT_DATA", "MQTT_KEEPALIVE_SEND", "TCP_RECONNECT_REQ",
                    "TCP_RECONNECT", "TCP_RECONNECT_DISCONNECTING",
                    "TCP_DISCONNECTING", "TCP_DISCONNECTED"}
  BY MeasureTypes, SleepTypeParts DEF SleepInv, TypeOK, States
<1> QED BY <1>1, <1>4, <1>5, <1>6, <1>7, <1>8, <1>9

LEMMA CalmData ==
  ASSUME SleepInv, MeasureFirst, Calm, Delivering, Measuring, Phases, Data
  PROVE  MeasureStep
<1> USE DEF InSession
<1>1. /\ posted' /\ UNCHANGED <<queue, connState, sendTimeout, net, env, user, retired, lost>>
  BY DEF Data, mqtt_tcpclient_recv, system_os_post
<1>2. Delivering'
  BY <1>1 DEF Delivering, env, net
<1>3. CASE UNCHANGED <<left, disconnectFn>>
  <2>1. Measuring'
    BY <1>3, MeasuringStays DEF Wait
  <2>2. Phases'
    BY <1>1, <1>3 DEF Phases, Before, During, After, user, net, Wait
  <2> QED BY <1>2, <2>1, <2>2 DEF MeasureStep
<1>4. CASE /\ InSession /\ disconnectFn' = "DisconnectMQTT"
           /\ left' = [left EXCEPT !["disconnect"] = Armed(Idle)]
  <2>1. /\ Wait' = Idle + 1 /\ left["mesure"]' = left["mesure"]
        /\ left["try"]' = left["try"]
    BY <1>4, MeasureTypes, WakePeriods DEF Wait
  <2>2. Measuring'
    BY <1>4, <2>1, MeasureTypes, WakePeriods DEF Measuring, MeasureFirst
  <2>3. Phases'
    BY <1>1, <1>4, <2>1, WakePeriods DEF Phases, During, user, net
  <2> QED BY <1>2, <2>2, <2>3 DEF MeasureStep
<1> QED BY <1>3, <1>4 DEF Data

LEMMA CalmConnack ==
  ASSUME SleepInv, MeasureFirst, Calm, Calm', Delivering, Measuring, Phases,
         NEW accepted \in BOOLEAN, Connack(accepted)
  PROVE  MeasureStep
<1> USE DEF InSession
<1>1. RecvConnack(accepted) /\ session = "sent" /\ tcp = "open" /\ wifi
  BY DEF Connack, RecvConnack
<1>2. ~InSession /\ ~connected /\ Before
  BY <1>1 DEF Phases, After, SleepInv, DataMeansSession
<1>3. connState = "MQTT_CONNECT_SENDING"
  BY <1>1, <1>2 DEF Before
<1>4. ~ \E f \in {"refuse"} : Fault(f)
  BY MeasureTypes DEF Fault, Calm
<1>5. /\ connState' = "MQTT_DATA" /\ session' = "accepted" /\ connected' /\ posted'
      /\ UNCHANGED <<tcp, inflight, wifi, sendTimeout, lost>>
  BY <1>1, <1>3, <1>4 DEF RecvConnack, mqttConnectedCb, system_os_post
<1>6. connectedCB
  BY <1>5 DEF Connack
<1>7. /\ Wait' = IdleTime + 1 /\ left["mesure"]' = left["mesure"] /\ left["try"]' = 0
      /\ disconnectFn' = "DisconnectMQTT"
  BY <1>6, MeasureTypes, WakePeriods DEF connectedCB, Wait
<1>8. Delivering'
  BY <1>5 DEF Delivering
<1>9. Measuring'
  BY <1>7, MeasureTypes, WakePeriods DEF Measuring, MeasureFirst
<1>10. Phases'
  BY <1>1, <1>5, <1>7, WakePeriods DEF Phases, During
<1> QED BY <1>8, <1>9, <1>10 DEF MeasureStep

LEMMA CalmTry ==
  ASSUME SleepInv, Calm, Delivering, Measuring, Phases, TimedTry
  PROVE  MeasureStep
<1> USE DEF InSession
<1>1. left["try"] = 1 /\ ~(quick /\ Answering)
  BY DEF TimedTry, Due
<1>2. ~connected /\ Before /\ tcp = "idle"
  BY <1>1, Answered DEF Phases, During, After
<1>3. Drop(IF wifi THEN "connecting" ELSE "idle")
  BY DEF TimedTry, tryConnect, MQTT_Connect
<1>4. /\ tcp' = (IF wifi THEN "connecting" ELSE "idle") /\ inflight' = "none" /\ ~lost'
  BY <1>2, <1>3 DEF Drop, Before, Delivering
<1>5. /\ connState' = "TCP_CONNECTING" /\ UNCHANGED <<wifi, connected, sendTimeout>>
  BY DEF TimedTry, tryConnect, MQTT_Connect, user, env
<1>6. UNCHANGED <<Wait, left["mesure"], disconnectFn>>
  BY MeasureTypes DEF TimedTry, Rest, Wait
<1>7. Measuring'
  BY <1>6, MeasuringStays
<1> QED BY <1>2, <1>4, <1>5, <1>7 DEF MeasureStep, Delivering, Phases, Before

LEMMA CalmSecond ==
  ASSUME SleepInv, Calm, Delivering, Measuring, Phases, TimedSecond
  PROVE  MeasureStep
<1> USE DEF InSession
<1>1. left["second"] = 1 /\ ~(quick /\ Answering) /\ CountSecond
  BY DEF TimedSecond, Due
<1>2. UNCHANGED <<Wait, left["mesure"], left["try"], disconnectFn>>
  BY MeasureTypes DEF TimedSecond, Rest, Wait
<1>3. Measuring'
  BY <1>2, MeasuringStays
<1>4. ~(connected /\ ~InSession)
  BY <1>1 DEF Phases, After
<1>5. tcp = "open" => inflight = "none" /\ sendTimeout = 0
  BY <1>1, Answered DEF Delivering
<1>6. /\ UNCHANGED <<queue, connected, net, wifi, lost>>
      /\ sendTimeout = 0 => sendTimeout' = 0
  BY <1>1 DEF CountSecond, user, env
<1>7. Delivering'
  BY <1>5, <1>6 DEF Delivering, net
<1>8. CASE InSession
  <2>1. During /\ connected
    BY <1>8 DEF Phases
  <2>2. \/ UNCHANGED <<connState, posted>>
        \/ connState' = "MQTT_KEEPALIVE_SEND" /\ posted'
    BY <1>1, <1>8 DEF CountSecond, system_os_post
  <2>3. InSession' /\ During'
    BY <1>2, <1>5, <1>6, <1>8, <2>1, <2>2 DEF During, net, Wait
  <2> QED BY <1>3, <1>6, <1>7, <2>1, <2>3 DEF MeasureStep, Phases
<1>9. CASE ~InSession
  <2>1. Before /\ ~connected
    BY <1>4, <1>9 DEF Phases
  <2>2. connState' = connState
    BY <1>1, <1>9, <2>1 DEF CountSecond, Before
  <2> QED BY <1>3, <1>6, <1>7, <1>9, <2>1, <2>2 DEF MeasureStep, Phases, Before, net
<1> QED BY <1>8, <1>9

\* The measures are queued before the session can end.
LEMMA CalmMeasure ==
  ASSUME SleepInv, Calm, Delivering, Measuring, Phases, timer_mesure_handler
  PROVE  MeasureStep
<1> USE DEF InSession
<1>1. left["mesure"] = 1 /\ posted' /\ left' = [left EXCEPT !["mesure"] = 0]
  BY DEF timer_mesure_handler, Due, system_os_post
<1>2. /\ UNCHANGED <<connState, sendTimeout, net, env, user, lost, disconnectFn, retired>>
  BY DEF timer_mesure_handler, Rest
<1>3. left["mesure"]' = 0 /\ Wait' = Wait /\ left["try"]' = left["try"]
  BY <1>1, MeasureTypes DEF Wait
<1>4. ~(connected /\ ~InSession)
  BY <1>1 DEF Phases, After
<1>5. InSession => Wait > 1
  BY <1>1, MeasureTypes DEF Phases, During, Measuring
<1>6. Delivering'
  BY <1>2 DEF Delivering, env, net
<1>7. Measuring'
  BY <1>3, WakePeriods DEF Measuring
<1>8. Phases'
  BY <1>1, <1>2, <1>3, <1>4, <1>5, MeasureTypes DEF Phases, Before, During, user, net
<1> QED BY <1>6, <1>7, <1>8 DEF MeasureStep

\* DisconnectMQTT: its timer is the one of the session, not the time out.
LEMMA CalmDisconnects ==
  ASSUME SleepInv, Calm, Calm', Delivering, Measuring, Phases, Disconnects
  PROVE  MeasureStep
<1> USE DEF InSession
<1>1. MaxKeys + 2 >= 1 /\ AtMost(0 + 1, MaxKeys + 2) = 1
  BY WakeTypes DEF AtMost
<1>2. timeouts' # AtMost(timeouts + 1, MaxKeys + 2)
  BY <1>1 DEF Calm
<1>3. /\ Wait = 1 /\ ~(quick /\ Answering) /\ disconnectFn = "DisconnectMQTT"
      /\ DisconnectMQTT(left["timeout"])
  BY <1>2 DEF Disconnects, Due, Wait
<1>4. /\ connState' = "TCP_DISCONNECTING" /\ retired' /\ disconnectFn' = "go_sleep"
      /\ UNCHANGED <<sendTimeout, queue, net, env, lost, user>>
  BY <1>3 DEF DisconnectMQTT, MQTT_Disconnect
<1>5. /\ left["second"]' = 0 /\ left["mesure"]' = left["mesure"]
      /\ left["try"]' = left["try"]
  BY <1>3, MeasureTypes DEF DisconnectMQTT
<1>6. left["mesure"] = 0
  BY <1>3, MeasureTypes DEF Measuring
<1>7. /\ tcp # "connecting" /\ (tcp = "open" => session # "sent" /\ inflight = "none")
      /\ ~connected => tcp = "idle"
  BY <1>3, Answered
<1>8. Delivering'
  BY <1>4 DEF Delivering, env, net
<1>9. Measuring'
  <2>1. Wait' = Grace + 1
    BY <1>3, MeasureTypes DEF DisconnectMQTT, Wait, Armed
  <2> QED BY <1>5, <1>6, <2>1, WakePeriods DEF Measuring
<1>10. CASE InSession
  <2>1. During /\ connected
    BY <1>10 DEF Phases
  <2>2. After'
    BY <1>3, <1>4, <1>5, <1>6, <1>7, <2>1 DEF During, After, net
  <2> QED BY <1>4, <1>8, <1>9, <2>1, <2>2 DEF MeasureStep, Phases, user
<1>11. CASE ~InSession
  <2>1. connected => After'
    BY <1>4, <1>5, <1>6, <1>11 DEF Phases, After, net
  <2>2. ~connected => Before'
    BY <1>4, <1>7 DEF Phases, Before, net
  <2> QED BY <1>4, <1>8, <1>9, <2>1, <2>2 DEF MeasureStep, Phases, user
<1> QED BY <1>10, <1>11

LEMMA CalmSleep ==
  ASSUME SleepInv, NeverCutsSession, Calm, Delivering, Measuring, Phases, go_sleep
  PROVE  MeasureStep
<1>1. /\ ~InSession /\ ~InSession' /\ UNCHANGED <<vars, disconnectFn, retired>>
      /\ left' = [t \in Timers |-> 0]
  BY DEF go_sleep, NeverCutsSession, InSession, vars, client
<1>2. /\ left["mesure"]' = 0 /\ Wait' = 0 /\ left["try"]' = 0 /\ left["second"]' = 0
  BY <1>1, MeasureTypes DEF Wait
<1>3. Delivering'
  BY <1>1 DEF Delivering, vars, client, net, env
<1>4. Measuring'
  BY <1>2, WakePeriods DEF Measuring
<1>5. Phases'
  BY <1>1, <1>2 DEF Phases, Before, After, vars, client, net, user
<1> QED BY <1>3, <1>4, <1>5 DEF MeasureStep

\* The queue is empty when time passes in a session.
LEMMA CalmTick ==
  ASSUME SleepInv, Calm, Delivering, Measuring, Phases, Tick
  PROVE  MeasureStep
<1>1. /\ ~posted /\ ~(quick /\ Answering) /\ UNCHANGED <<vars, disconnectFn, retired>>
      /\ \A t \in Timers : left[t] # 1 /\ left[t]' = IF left[t] > 1 THEN left[t] - 1 ELSE 0
  BY TickSteps DEF Tick
<1>2. Delivering'
  BY <1>1 DEF Delivering, vars, client, net, env
<1>3. /\ Wait # 1 /\ Wait' = IF Wait > 1 THEN Wait - 1 ELSE 0
      /\ left["mesure"] # 1
      /\ left["mesure"]' = IF left["mesure"] > 1 THEN left["mesure"] - 1 ELSE 0
      /\ left["try"] = 0 => left["try"]' = 0
      /\ left["second"] = 0 => left["second"]' = 0
  BY <1>1, TickSteps, MeasureTypes
<1>4. Measuring'
  BY <1>1, <1>3, MeasureTypes, WakePeriods DEF Measuring
<1>5. UNCHANGED <<connState, tcp, session, inflight, queue, posted, connected>>
      /\ InSession' = InSession
  BY <1>1 DEF vars, client, net, user, InSession
<1>6. CASE InSession
  <2>1. During /\ connected /\ queue = 0
    <3>1. inflight = "none"
      BY <1>1, <1>6, Answered DEF Phases, During
    <3> QED BY <1>1, <1>6, <3>1, MeasureTypes DEF Phases, During, InSession
  <2>2. During'
    BY <1>1, <1>3, <1>5, <2>1, MeasureTypes DEF During
  <2> QED BY <1>2, <1>4, <1>5, <1>6, <2>1, <2>2 DEF MeasureStep, Phases
<1>7. CASE ~InSession
  <2>1. ~connected => Before'
    BY <1>5 DEF Phases, Before
  <2>2. connected => After'
    BY <1>1, <1>3, <1>5, <1>7 DEF Phases, After
  <2> QED BY <1>2, <1>4, <1>5, <1>7, <2>1, <2>2 DEF MeasureStep, Phases
<1> QED BY <1>6, <1>7

LEMMA CalmKey ==
  ASSUME SleepInv, MeasureFirst, Calm, Delivering, Measuring, Phases, Key
  PROVE  MeasureStep
<1>1. /\ UNCHANGED <<vars, retired>> /\ disconnectFn' = "DisconnectMQTT"
      /\ left' = [left EXCEPT !["disconnect"] = Armed(Console)]
  BY DEF Key
<1>2. /\ Wait' = Console + 1 /\ left["mesure"]' = left["mesure"]
      /\ left["try"]' = left["try"] /\ left["second"]' = left["second"]
  BY <1>1, MeasureTypes, WakePeriods DEF Wait
<1>3. Delivering'
  BY <1>1 DEF Delivering, vars, client, net, env
<1>4. Measuring'
  BY <1>1, <1>2, MeasureTypes, WakePeriods DEF Measuring, MeasureFirst
<1>5. Phases'
  BY <1>1, <1>2, WakePeriods
     DEF Phases, Before, During, After, InSession, vars, client, net, user
<1> QED BY <1>3, <1>4, <1>5 DEF MeasureStep

\* The network stays as quick as it is, and what happened has happened.
LEMMA StepCalm ==
  ASSUME SleepInv, [SleepNext]_sleepVars, Calm'
  PROVE  Calm
<1>1. /\ faults \in Nat /\ keys \in 0..MaxKeys /\ timeouts \in 0..MaxKeys + 2 /\ MaxKeys \in Nat
  BY MeasureTypes, WakeTypes
<1> USE DEF Calm
<1>2. CASE Untimed
  <2>1. faults' = faults \/ faults' = faults + 1
    BY <1>2 DEF Untimed, mqtt_tcpclient_connect_cb, mqtt_tcpclient_sent_cb,
         mqtt_tcpclient_recon_cb, BrokerCloses, Reset, WifiLost, WifiBack, Fault, env
  <2> QED BY <1>1, <1>2, <2>1 DEF Untimed, Rest
<1>3. CASE Closed \/ Task \/ TimedTry \/ TimedSecond \/ timer_mesure_handler
  <2>1. UNCHANGED <<quick, keys, timeouts>>
    BY <1>3 DEF Closed, Task, TimedTry, TimedSecond, timer_mesure_handler, Rest
  <2>2. faults' = faults
    BY <1>3 DEF Closed, Disconnected, Task, MQTT_Task, TimedTry, tryConnect, TimedSecond,
         CountSecond, timer_mesure_handler, env
  <2> QED BY <2>1, <2>2
<1>4. CASE Data
  BY <1>4 DEF Data, mqtt_tcpclient_recv, env
<1>5. ASSUME NEW accepted \in BOOLEAN, Connack(accepted) PROVE Calm
  <2>1. faults' = faults \/ faults' = faults + 1
    BY <1>5 DEF Connack, RecvConnack, Fault
  <2> QED BY <1>1, <1>5, <2>1 DEF Connack
<1>6. CASE Disconnects
  <2>1. UNCHANGED <<quick, keys, faults>>
    BY <1>6 DEF Disconnects, DisconnectMQTT, MQTT_Disconnect, env
  <2>2. timeouts' = timeouts \/ timeouts' = AtMost(timeouts + 1, MaxKeys + 2)
    BY <1>6 DEF Disconnects
  <2>3. timeouts' = 0 => timeouts = 0
    BY <1>1, <2>2 DEF AtMost
  <2> QED BY <2>1, <2>3
<1>7. CASE go_sleep \/ Tick
  BY <1>7 DEF go_sleep, Tick, vars, env
<1>8. CASE Key \/ TopicEnd
  <2>1. keys' = keys + 1 /\ UNCHANGED <<quick, timeouts, faults>>
    BY <1>8 DEF Key, TopicEnd, vars, env
  <2> QED BY <1>1, <2>1
<1>9. CASE UNCHANGED sleepVars
  BY <1>9 DEF sleepVars, vars, env
<1> QED BY <1>2, <1>3, <1>4, <1>5, <1>6, <1>7, <1>8, <1>9 DEF SleepNext

LEMMA CalmStep ==
  ASSUME SleepInv, NeverCutsSession, MeasureFirst, Calm, Calm', Delivering, Measuring,
         Phases, [SleepNext]_sleepVars
  PROVE  MeasureStep
<1>1. ~TopicEnd
  <2>1. TopicEnd => keys' = keys + 1 /\ 0 < keys
    BY Zenon DEF TopicEnd
  <2> QED BY <2>1, MeasureTypes DEF Calm
<1>2. CASE UNCHANGED sleepVars
  <2>1. UNCHANGED <<vars, left, disconnectFn, retired>>
    BY <1>2 DEF sleepVars, device
  <2>2. Delivering'
    BY <2>1 DEF Delivering, vars, client, net, env
  <2>3. Measuring'
    BY <2>1, MeasuringStays DEF Wait
  <2>4. Phases'
    BY <2>1 DEF Phases, Before, During, After, InSession, Wait, vars, client, net, user
  <2> QED BY <2>2, <2>3, <2>4 DEF MeasureStep
<1> QED BY <1>1, <1>2, CalmUntimed, CalmClosed, CalmTask, CalmData, CalmConnack, CalmTry,
           CalmSecond, CalmMeasure, CalmDisconnects, CalmSleep, CalmTick, CalmKey
        DEF SleepNext

\* Only go_sleep makes the device sleep.
LEMMA StepSleeps ==
  ASSUME [SleepNext]_sleepVars
  PROVE  go_sleep \/ asleep' = asleep
BY DEF SleepNext, Untimed, Closed, Task, Data, Connack, TimedTry, TimedSecond,
     timer_mesure_handler, Disconnects, DisconnectMQTT, Tick, Key, TopicEnd, Rest,
     sleepVars, device

LEMMA NextMeasureInv ==
  ASSUME SleepInv, NeverCutsSession, MeasureFirst, MeasureInv, [SleepNext]_sleepVars
  PROVE  MeasureInv'
<1>1. asleep' => disconnectFn' = "go_sleep"
  <2>1. CASE go_sleep
    BY <2>1 DEF go_sleep
  <2>2. CASE UNCHANGED <<asleep, disconnectFn>>
    BY <2>2 DEF MeasureInv
  <2>3. CASE ~asleep'
    BY <2>3
  <2>4. go_sleep \/ asleep' = asleep
    BY StepSleeps
  <2>5. asleep => UNCHANGED sleepVars
    BY DEF SleepNext
  <2> QED BY <2>1, <2>2, <2>3, <2>4, <2>5 DEF sleepVars, device
<1>2. Calm' => MeasureStep
  BY StepCalm, CalmStep DEF MeasureInv
<1> QED BY <1>1, <1>2 DEF MeasureInv, MeasureStep

LEMMA BootMeasure == Boot => MeasureInv
<1> SUFFICES ASSUME Boot PROVE MeasureInv
  OBVIOUS
<1>1. /\ ~asleep /\ ~lost /\ tcp = "idle" /\ connState = "WIFI_INIT" /\ inflight = "none"
      /\ ~connected /\ disconnectFn = "none"
  BY DEF Boot, Init
<1>2. left["mesure"] = Measure + 1 /\ Wait = 0
  BY DEF Boot, Wait, Timers, Armed
<1> QED BY <1>1, <1>2, WakePeriods
        DEF MeasureInv, Delivering, Measuring, Phases, Before, InSession

\* user_main.c, timer_mesure_handler and DisconnectMQTT: on a quick network without
\* faults nothing that was measured is dropped by MQTT_Disconnect or lost in the
\* deep sleep, because the measure comes before the end of any session and the task
\* sends all that is queued within the tick.
THEOREM MeasuresDoArrive ==
  ASSUME MeasureFirst
  PROVE  SleepSpec => []MeasuresArrive
<1>1. SleepInv /\ NeverCutsSession /\ MeasureInv /\ [SleepNext]_sleepVars => MeasureInv'
  BY NextMeasureInv
<1>2. SleepSpec => []SleepInv
  BY BootInv, NextInv, PTL DEF SleepSpec
<1>3. SleepSpec => []MeasureInv
  BY <1>1, <1>2, BootMeasure, NeverCuts, PTL DEF SleepSpec
<1>4. NeverCutsSession /\ MeasureInv => MeasuresArrive
  BY DEF NeverCutsSession, MeasureInv, Calm, Delivering, Phases, After, MeasuresArrive
<1> QED BY <1>3, <1>4, NeverCuts, PTL

-----------------------------------------------------------------------------
(* What the client promises, on a device that disconnects by itself.       *)

\* Steps of the device that are steps of the client, or none of it.
LEMMA ClientSteps ==
  ASSUME \/ Untimed \/ Task \/ Data \/ TimedTry \/ go_sleep \/ Tick \/ Key
         \/ \E accepted \in BOOLEAN : Connack(accepted)
         \/ UNCHANGED sleepVars
  PROVE  [Next]_vars
<1>1. CASE Untimed
  BY <1>1 DEF Untimed, Next, Callback
<1>2. CASE Task \/ Data \/ TimedTry
  BY <1>2 DEF Task, Data, TimedTry, Next
<1>3. CASE go_sleep \/ Tick \/ Key \/ UNCHANGED sleepVars
  BY <1>3 DEF go_sleep, Tick, Key, sleepVars
<1>4. ASSUME NEW accepted \in BOOLEAN, Connack(accepted) PROVE [Next]_vars
  BY <1>4 DEF Connack, Next
<1> QED BY <1>1, <1>2, <1>3, <1>4

\* mqtt_timer is a software timer like the others here: it also counts while an
\* event waits, or while espconn is about to report the end of a connection.
LEMMA CountKeepsIInv ==
  ASSUME IInv, CountSecond
  PROVE  IInv'
<1> USE Constants, PingAfterType
    DEF IInv, States, Counters, DataMeansSession, NoLostWakeup, SendFree,
        Disconnectable, TickBounded, InSession, AtMost, system_os_post
<1>1. CASE connState = "MQTT_DATA"
  BY <1>1 DEF CountSecond, KeepAliveDue, user, net, env
<1>2. CASE connState = "TCP_RECONNECT_REQ"
  BY <1>2 DEF CountSecond, ReconnectDue, user, net, env
<1>3. CASE connState \notin {"MQTT_DATA", "TCP_RECONNECT_REQ"}
  BY <1>3 DEF CountSecond, user, net, env
<1> QED BY <1>1, <1>2, <1>3

LEMMA SleepNextIInv ==
  ASSUME IInv, [SleepNext]_sleepVars
  PROVE  IInv'
<1> USE Constants, PingAfterType, PeriodsAreNumbers
    DEF IInv, States, Counters, DataMeansSession, NoLostWakeup, SendFree,
        Disconnectable, TickBounded, InSession, AtMost, system_os_post
<1>1. CASE Closed
  BY <1>1 DEF Closed, Disconnected, Drop, env
<1>2. CASE TimedSecond
  BY <1>2, CountKeepsIInv DEF TimedSecond
<1>3. CASE timer_mesure_handler
  BY <1>3 DEF timer_mesure_handler, user, net, env
<1>4. CASE Disconnects
  BY <1>4 DEF Disconnects, DisconnectMQTT, MQTT_Disconnect, user, net, env
<1>5. CASE TopicEnd
  BY <1>5 DEF TopicEnd, user, net, env
<1>6. CASE [Next]_vars
  BY <1>6, NextIInv
<1> QED BY <1>1, <1>2, <1>3, <1>4, <1>5, <1>6, ClientSteps DEF SleepNext

LEMMA SleepNextRetry ==
  ASSUME RetryAtRest, [SleepNext]_sleepVars
  PROVE  RetryAtRest'
<1> USE DEF RetryAtRest, InSession
<1>1. CASE Closed
  BY <1>1 DEF Closed, Disconnected
<1>2. CASE TimedSecond
  BY <1>2 DEF TimedSecond, CountSecond, user
<1>3. CASE timer_mesure_handler \/ TopicEnd
  BY <1>3 DEF timer_mesure_handler, TopicEnd, user
<1>4. CASE Disconnects
  BY <1>4 DEF Disconnects, DisconnectMQTT, MQTT_Disconnect
<1>5. CASE [Next]_vars
  BY <1>5, StepRetry
<1> QED BY <1>1, <1>2, <1>3, <1>4, <1>5, ClientSteps DEF SleepNext

\* user_main.c on top of mqtt.c: neither MQTT_Disconnect from a timer, nor the
\* replaced disconnectedCb, nor what a timer or the console publishes takes from
\* the client what it promises by itself: no data outside of a session, no lost
\* wakeup of MQTT_Task and no retry that aborts a session.
THEOREM DeviceKeepsClient ==
  SleepSpec => [](DataMeansSession /\ NoLostWakeup /\ RetryAtRest)
<1>1. Boot => IInv /\ RetryAtRest
  BY InitIInv DEF Boot, Init, RetryAtRest, InSession
<1>2. IInv => DataMeansSession /\ NoLostWakeup
  BY DEF IInv
<1> QED BY <1>1, <1>2, SleepNextIInv, SleepNextRetry, PTL DEF SleepSpec
=============================================================================
