----------------------------- MODULE SleepCycle -----------------------------
(***************************************************************************)
(* One wake of a device on battery (the METEO builds): it starts, connects *)
(* with the client of MqttClient, measures, publishes and goes back to     *)
(* deep sleep, from which it restarts with nothing of its memory.          *)
(*                                                                         *)
(* The timers of the SDK count ticks here, as what matters is which of     *)
(* them is due first; the network answers after any time, or, when it is   *)
(* quick, before the next tick.                                            *)
(***************************************************************************)
EXTENDS MqttClient

CONSTANTS
  \* Periods of the timers, in ticks
  Grace,             \* 20 ms from DisconnectMQTT to go_sleep
  TryConnect,        \* MQTT_TIME_TRY_CONNECT, 50 ms
  Measure,           \* 100 ms from the start to the measure
  Idle,              \* 200 ms from the session, or the last data, to the end
  TopicIdle,         \* the same 800 ms when a topic is subscribed to
  Second,            \* period of mqtt_timer
  Console,           \* 3000 ms from the last character of the console
  Timeout,           \* TIMOUT_CONNECTION, 40 s
  Measures,          \* packets that timer_mesure_handler publishes
  MaxKeys            \* bound: times somebody types at the console

ASSUME SleepAssumption ==
  {Grace, TryConnect, Measure, Idle, TopicIdle, Second, Console, Timeout,
   Measures} \subseteq Nat \ {0} /\ MaxKeys \in Nat

VARIABLES
  left,              \* per timer, 1 when it is due, 0 when it is not armed
  disconnectFn,      \* function of timer_DisconnectMQTT
  retired,           \* disconnectedCb is diconnectedCB
  topic,             \* topic[0] is not 0
  asleep,
  quick, keys,       \* the network is quick; times somebody typed
  heard,             \* a packet of the broker arrived in this tick
  timeouts           \* history: times timer_time_out_connection expired

device == <<left, disconnectFn, retired, topic, asleep>>
sleepVars == <<vars, device, quick, keys, heard, timeouts>>

Timers == {"try", "second", "mesure", "disconnect", "timeout"}

\* os_timer_arm: due after n ticks, from now.
Armed(n) == n + 1

\* The timer that is due runs, if the network has no answer to give first.
Due(t) == left[t] = 1 /\ ~asleep /\ ~(quick /\ Answering)

Rest == UNCHANGED <<disconnectFn, retired, topic, asleep, quick, keys, heard,
                    timeouts>>

-----------------------------------------------------------------------------
(* The client, with the timers that its callbacks arm.                     *)

\* Callbacks and faults that touch no timer.
Untimed == /\ \/ mqtt_tcpclient_connect_cb \/ mqtt_tcpclient_sent_cb
              \/ mqtt_tcpclient_recon_cb
              \/ BrokerCloses \/ Reset \/ WifiLost \/ WifiBack
           /\ UNCHANGED left /\ Rest

\* The end of the connection calls mqttDisconnectedCb, which arms
\* timer_try_connect, until DisconnectMQTT has put diconnectedCB in its place.
Closed ==
  /\ Disconnected
  /\ \/ /\ ~retired /\ mqttDisconnectedCb
        /\ left' = [left EXCEPT !["try"] = Armed(TryConnect)]
     \/ retired /\ UNCHANGED <<user, left>>
  /\ Rest

Task == /\ MQTT_Task
        /\ left' = [left EXCEPT !["second"] =
                      IF connState = "TCP_RECONNECT" THEN Armed(Second) ELSE @]
        /\ Rest

\* Faulty: the time for the last packets is all the session gets.
IdleTimeShort == Grace

\* How long a session lasts when nothing arrives.
IdleTime == IF topic THEN TopicIdle ELSE Idle

\* Faulty: the timer is armed with the function it has.
connectedCBKeepsFunction ==
  /\ left' = [left EXCEPT !["try"] = 0, !["disconnect"] = Armed(IdleTime)]
  /\ UNCHANGED disconnectFn

\* Faulty: timer_try_connect runs on.
connectedCBKeepsTrying ==
  /\ left' = [left EXCEPT !["disconnect"] = Armed(IdleTime)]
  /\ disconnectFn' = "DisconnectMQTT"

\* connectedCB: the time from the session to its end starts.
connectedCB ==
  /\ left' = [left EXCEPT !["try"] = 0, !["disconnect"] = Armed(IdleTime)]
  /\ disconnectFn' = "DisconnectMQTT"

Connack(accepted) ==
  /\ RecvConnack(accepted)
  /\ IF connState' = "MQTT_DATA" THEN connectedCB ELSE UNCHANGED <<left, disconnectFn>>
  /\ UNCHANGED <<retired, topic, asleep, quick, keys, heard, timeouts>>

\* The broker only sends to a device with a topic, and not without end
\* in one tick.  A PUBLISH calls mqttDataCb, which starts the idle time again;
\* another packet does not.
Data ==
  /\ topic /\ ~heard /\ heard' = TRUE
  /\ mqtt_tcpclient_recv /\ queue' = queue     \* subscribed at QoS 0
  /\ \/ UNCHANGED <<left, disconnectFn>>
     \/ /\ InSession
        /\ left' = [left EXCEPT !["disconnect"] = Armed(Idle)]
        /\ disconnectFn' = "DisconnectMQTT"
  /\ UNCHANGED <<retired, topic, asleep, quick, keys, timeouts>>

-----------------------------------------------------------------------------
(* The timers.                                                             *)

TimedTry == /\ Due("try") /\ tryConnect
            /\ left' = [left EXCEPT !["try"] = Armed(TryConnect),
                                    !["second"] = Armed(Second)]
            /\ Rest

TimedSecond == /\ Due("second") /\ CountSecond
               /\ left' = [left EXCEPT !["second"] = Armed(Second)]
               /\ Rest

\* timer_mesure_handler: the measures are published, connected or not.
timer_mesure_handler ==
  /\ Due("mesure")
  /\ queue' = AtMost(queue + Measures, QueueMax)
  /\ system_os_post
  /\ left' = [left EXCEPT !["mesure"] = 0]
  /\ UNCHANGED <<connState, sendTimeout, keepAliveTick, reconnectTick, mqttTimer,
                 pending, user, net, env, silent, lost>>
  /\ Rest

\* Faulty: the timer keeps the function it ran.
DisconnectMQTTAgain(timeout) ==
  /\ MQTT_Disconnect /\ UNCHANGED user
  /\ retired' = TRUE
  /\ disconnectFn' = "DisconnectMQTT"
  /\ left' = [left EXCEPT !["second"] = 0, !["disconnect"] = Armed(Grace),
                          !["timeout"] = timeout]
  /\ UNCHANGED <<topic, asleep, quick, keys, heard>>

\* Leaves the broker and gives the station a moment before go_sleep.
DisconnectMQTT(timeout) ==
  /\ MQTT_Disconnect /\ UNCHANGED user
  /\ retired' = TRUE
  /\ disconnectFn' = "go_sleep"
  /\ left' = [left EXCEPT !["second"] = 0, !["disconnect"] = Armed(Grace),
                          !["timeout"] = timeout]
  /\ UNCHANGED <<topic, asleep, quick, keys, heard>>

Disconnects ==
  \/ /\ Due("disconnect") /\ disconnectFn = "DisconnectMQTT"
     /\ DisconnectMQTT(left["timeout"]) /\ UNCHANGED timeouts
  \/ /\ Due("timeout")
     /\ DisconnectMQTT(Armed(Timeout)) /\ timeouts' = AtMost(timeouts + 1, MaxKeys + 2)

go_sleep ==
  /\ Due("disconnect") /\ disconnectFn = "go_sleep"
  /\ asleep' = TRUE
  /\ left' = [t \in Timers |-> 0]
  /\ UNCHANGED <<vars, disconnectFn, retired, topic, quick, keys, heard, timeouts>>

\* Time passes when nothing is due: tasks take less than a tick.
Tick ==
  /\ \A t \in Timers : left[t] # 1
  /\ ~asleep /\ ~posted /\ ~(quick /\ Answering)
  /\ left' = [t \in Timers |-> IF left[t] > 1 THEN left[t] - 1 ELSE 0]
  /\ heard' = FALSE
  /\ UNCHANGED <<vars, disconnectFn, retired, topic, asleep, quick, keys, timeouts>>

-----------------------------------------------------------------------------
(* The console.                                                            *)

\* rx_uart0 on some characters, those of a topic maybe: the device stays awake
\* for its user.
Key ==
  /\ keys < MaxKeys /\ ~asleep /\ keys' = keys + 1
  /\ topic' \in {topic, TRUE}
  /\ left' = [left EXCEPT !["disconnect"] = Armed(Console)]
  /\ disconnectFn' = "DisconnectMQTT"
  /\ UNCHANGED <<vars, retired, asleep, quick, heard, timeouts>>

\* rx_uart0 on the end of the line of a topic, which can be empty.
TopicEnd ==
  /\ 0 < keys /\ keys < MaxKeys /\ ~asleep /\ keys' = keys + 1
  /\ topic' \in {topic, FALSE}
  /\ queue' = AtMost(queue + 1, QueueMax)             \* MQTT_Subscribe
  /\ system_os_post
  /\ left' = [left EXCEPT !["disconnect"] = Armed(TopicIdle)]
  /\ disconnectFn' = "DisconnectMQTT"
  /\ UNCHANGED <<connState, sendTimeout, keepAliveTick, reconnectTick, mqttTimer,
                 pending, user, net, env, silent, lost, retired, asleep, quick,
                 heard, timeouts>>

-----------------------------------------------------------------------------
\* Faulty: nothing limits the time to connect.
BootUnlimited ==
  /\ Init
  /\ left = [t \in Timers |-> CASE t = "try" -> Armed(TryConnect)
                                [] t = "mesure" -> Armed(Measure)
                                [] OTHER -> 0]
  /\ disconnectFn = "none" /\ retired = FALSE /\ topic = FALSE /\ asleep = FALSE
  /\ quick \in BOOLEAN /\ keys = 0 /\ heard = FALSE /\ timeouts = 0

\* user_init, with a station name and enough battery.
Boot ==
  /\ Init
  /\ left = [t \in Timers |-> CASE t = "try" -> Armed(TryConnect)
                                [] t = "mesure" -> Armed(Measure)
                                [] t = "timeout" -> Armed(Timeout)
                                [] OTHER -> 0]
  /\ disconnectFn = "none" /\ retired = FALSE /\ topic = FALSE /\ asleep = FALSE
  /\ quick \in BOOLEAN /\ keys = 0 /\ heard = FALSE /\ timeouts = 0

SleepNext ==
  /\ ~asleep
  /\ \/ Untimed \/ Closed \/ Task \/ Data
     \/ \E accepted \in BOOLEAN : Connack(accepted)
     \/ TimedTry \/ TimedSecond \/ timer_mesure_handler \/ Disconnects
     \/ go_sleep \/ Tick \/ Key \/ TopicEnd

SleepSpec == Boot /\ [][SleepNext]_sleepVars

\* Time passes, and the tasks and timers of the SDK run.  Nothing is asked of
\* the network, unless it is quick.
FairSleepSpec ==
  /\ SleepSpec
  /\ WF_sleepVars(~asleep /\ quick /\ Untimed)
  /\ WF_sleepVars(~asleep /\ quick /\ Connack(TRUE))
  /\ WF_sleepVars(~asleep /\ Task) /\ WF_sleepVars(~asleep /\ Tick)
  /\ WF_sleepVars(TimedTry) /\ WF_sleepVars(TimedSecond)
  /\ WF_sleepVars(timer_mesure_handler) /\ WF_sleepVars(Disconnects)
  /\ WF_sleepVars(go_sleep)

-----------------------------------------------------------------------------
(* Properties.                                                             *)

\* A timer that go_sleep or DisconnectMQTT waits for.
Periods == {Grace, TryConnect, Measure, Idle, TopicIdle, Second, Console, Timeout}

\* The variables of the client keep their types on a device that disconnects
\* by itself, and a timer is armed exactly while the client believes it is.
SleepTypeOK ==
  /\ TypeOK
  /\ left \in [Timers -> {0} \cup UNION {1..Armed(n) : n \in Periods}]
  /\ disconnectFn \in {"none", "DisconnectMQTT", "go_sleep"}
  /\ retired \in BOOLEAN /\ topic \in BOOLEAN /\ asleep \in BOOLEAN
  /\ quick \in BOOLEAN /\ heard \in BOOLEAN
  /\ keys \in 0..MaxKeys /\ timeouts \in 0..MaxKeys + 2
  /\ ~asleep => (tryTimer <=> left["try"] > 0) /\ (mqttTimer <=> left["second"] > 0)

\* go_sleep never cuts a session: when timer_try_connect, or a connection that
\* was under way, opens one during the grace time, the end of that session is
\* waited for.
NeverCutsSession == disconnectFn = "go_sleep" => ~InSession

\* An expiry of timer_time_out_connection ends the wake, whatever the network
\* does: there is another only for each time somebody typed.
AwakeBounded == timeouts <= 1 + keys

\* On a quick network without faults, a wake that reached its session has sent
\* its measures when it ends, although DisconnectMQTT drops what is queued.  The
\* subscription to a topic that was typed may still wait, and the time out may
\* fall on the tick in which the session opens.
MeasuresArrive ==
  asleep /\ quick /\ connected /\ faults = 0 /\ timeouts = 0 /\ keys <= 1 =>
    queue = 0 /\ ~lost

\* Every wake ends: the battery is never drained by a network that does not
\* answer, or a broker that does not stop sending.
EveryWakeSleeps == <>asleep
=============================================================================
