# A verification project for domotic_esp

`domo/` is the firmware of a family of ESP8266 home automation devices: switches,
dimmers, a roller blind, power and weather sensors.  They talk to an MQTT broker
over the client in `domo/mqtt`, itself on top of espconn, the socket layer of the
SDK.  This directory holds TLA+ models of the parts of that firmware whose
correctness depends on the order of events, TLC configurations that check them on
small instances, and theorems checked by TLAPS.

## 1. The system

Everything runs on one core.  *Task level* code (callbacks of espconn, software
timers `os_timer`, `MQTT_Task`) runs to completion, one at a time, in the order
events arrive.  *Interrupts* (GPIO: zero crossing, turn sensor of the blind, touch
keys; FRC1: hardware timer; UART) may come between any two instructions of it.
There are no locks.

| Component | State | Operations | What makes it correct |
|---|---|---|---|
| Outgoing queue (`mqtt/ringbuf.c`, `proto.c`, `queue.c`) | ring of bytes, two pointers, count, saved pointers | put/get a byte, add/parse a frame, roll back | whole frames, first in first out, only the oldest are lost |
| MQTT client (`mqtt/mqtt.c`) | `connState`, three counters in seconds, pending packet, one `espconn` | connect, callbacks of espconn, one second timer, task, publish, subscribe | sends only into a session, keeps it alive, gets another when it is lost, drains its queue |
| Application glue (`user/user_mqtt.c`) | retry timer, `connected` | retry, connected and disconnected callbacks | exactly when there is no connection somebody is trying |
| Roller blind (`user_main.c`, STORE) | position, wanted position, two motor directions, triac, timeout | command, turn interrupt, timeout | the motor is always supervised and always stops |
| Hardware timer (`user/timer.c`) | table of callbacks | add, change, remove, interrupt | nothing that was added is lost |
| Triac dimmer (`user_main.c`, TRIACK) | power, `timer_triack_on`, triac, pin of the detector | command, zero crossing, phase callbacks | the triac is on from the right moment of each half wave, and off at the next crossing |
| PWM dimmer (`user_main.c`, PWM) | power and `on` of each channel, pins | command, two callbacks | steady levels are steady, others pulse, more power is more light |
| Sleep cycle (`user_main.c`, SLEEP) | five software timers | wake, connect, publish, disconnect, sleep | a wake sends what it measured, cuts no session, and always ends |
| Console and flash (`user_main.c`) | state of the line, configuration in memory and in flash | a character, save, restart | strings end in their arrays, a saved configuration is the one that is read |
| Codec (`mqtt/mqtt_msg.c`), receiving side (`mqtt.c`) | output buffer, message id, the segment in `in_buffer` | one function per packet, `mqtt_tcpclient_recv` | packets are found where they begin, delivered once and answered |
| Sensors (PCF8885, TLI4970, BME280) and drivers | registers | periodic reads | - |

How they interact: the application publishes into the queue (from task level and,
for the blind and the touch keys, *from interrupts*) and posts an event to
`MQTT_Task`; `MQTT_Task` moves one packet from the queue to espconn; espconn calls
back when it was acknowledged, when a packet arrived, when the connection began
or ended; a second timer counts keep alive and reconnection delays, and a 500 ms
timer of the application retries the connection.  A packet for `/actuators/...`
reaches `mqttDataCb`, which sets the power of the motor or dimmer that interrupts
then apply.

What is hard to test: the queue at its limit, with a rollback in the middle of a
packet; a connection that ends at any moment of the handshake, of a keep alive or
of a retry; an event queue with one place; the turn interrupt between the steps of
a command.  `PROJECT.json` lists these hazards at their lines.

## 2. Modules

| Module | Models | Notes |
|---|---|---|
| `MsgFifo` | - | what the outgoing queue promises: a bounded FIFO that drops its oldest messages |
| `MqttQueue` | `ringbuf.c`, `proto.c`, `queue.c`, the callers in `mqtt.c` | implements `MsgFifo`; theorems in `MqttQueue_proofs` |
| `RingBufIrq` | `ringbuf.c`, one access to memory at a time | the ring under an interrupt that publishes |
| `MqttClient` | `mqtt.c`, `user_mqtt.c`, with espconn, Wi-Fi and the broker as environment | the queue is a count; theorems in `Client_proofs` |
| `MqttMsg` | `mqtt_msg.c` | operators that build packets and take them apart |
| `PacketStream` | - | what the receiving side promises, without bytes |
| `MqttInbound` | `mqtt_tcpclient_recv`, `deliver_publish`, the publishing side | uses `MqttMsg`, implements `PacketStream`; theorems in `MqttInbound_proofs` |
| `SleepCycle` | the wake of a METEO build in `user_main.c` | composed with `MqttClient`; theorems in `Client_proofs` |
| `Console` | `rx_uart0`, `save_and_restart`, the load of `user_init` | theorems in `Console_proofs` |
| `Store` | the STORE build of `user_main.c` | theorems in `Store_proofs` |
| `HwTimer` | `timer.c` | operators on the table of callbacks; lemmas in `HwTimer_proofs` |
| `Dimmer` | the TRIACK build of `user_main.c`, without HALF_SIN | uses `HwTimer`; theorems in `Dimmer_proofs` |
| `Pwm` | the PWM build of `user_main.c`, without STORE | uses `HwTimer`; theorems in `Pwm_proofs` |

`MCMqttQueue`, `MCMqttClient`, `MCMqttInbound`, `MCSleepCycle`, `MCConsole`,
`MCStore`, `MCDimmer` and `MCPwm` hold the sets of values with which TLC checks the
module of that name; `RingBufIrq` needs none.

In every module an operator whose comment begins with "Faulty" is a plausible bug
of the definition that follows it; no specification uses it.  Putting it in the
place of that definition makes a property fail, which shows what the property
guards.  `PROJECT.json` pairs them, maps each definition to its lines, and lists
runs, findings, hazards and theorems.

### MqttQueue

`buf`, `p_r`, `p_w`, `fill_cnt` are the fields of `RINGBUF`, pointers counted from
`p_o`.  One action moves one byte (`RINGBUF_Put`, `RINGBUF_Get`), so that partly
written and partly read frames are states.  `pc` says where the running operation
is: `fit` the test of `MQTT_Publish`, `begin`/`body`/`esc` inside `PROTO_AddRb`,
`get` inside `PROTO_ParseRb`.  `caller` says which function goes on afterwards:
`MQTT_Publish` counts the room first and ignores what `QUEUE_Puts` returns;
`MQTT_Subscribe` (and `MQTT_UnSubscribe`, `MQTT_Ping`, the same loop) drops the
oldest packet each time it fails; `mqtt_tcpclient_recv` ignores a failure;
`MQTT_Task` takes a packet.  `PROTO_Init` leaves `isBegin` uninitialised: the model
keeps a third value, `unset`, and lets a test of it go either way.  Sending itself
is left to `MqttClient`.  Here operations run one at a time.

### RingBufIrq

`MqttQueue` takes `RINGBUF_Put` for one step, which is right for tasks.  But the blind
and the touch keys publish from their interrupts, in the middle of what a task does
with the ring.  Here a step is one access to `fill_cnt`, `p_w` or `p_r` (they are
`volatile`, and `fill_cnt++` reads and then writes); `pc`, `call`, `reg` and `at` are
the place, the function and the two registers of each of the two levels.  A task
rests until the interrupt has returned.  `stored` is the history: how many calls of
Put, less those of Get, have succeeded.

### MqttClient

One action for each callback and timer, since they run to completion.  `connState`
and the counters are those of the code; `posted` is the one place of the event
queue of `MQTT_Task`; `tryTimer` is `timer_try_connect`.  The environment:
`tcp` is the connection of `pCon` (`closing` and `failing` mean that espconn is
about to call `discon_cb` or `recon_cb`), `inflight` what espconn took and TCP
has not acknowledged, `session` what the broker thinks.  `espconn_send` refuses a
packet while another is unacknowledged; on a connection that TCP knows to be over
either answer is allowed.  `MQTT_Connect` aborts the old connection without a
callback; without an address `espconn_connect` fails at once and nothing follows.
Two history variables: `silent`, seconds since the client sent a packet of the
session, and `lost`, a packet left the queue and did not arrive.

The constants `Faults`, `Inbound` and `FastNetwork` choose the environment.  With
`FastNetwork`, the network answers before a timer expires; without it the 500 ms
retry may abort any handshake.  `Greeting` is the number of packets that
`mqttConnectedCb` queues: one, and a second if the build subscribes.
`MQTT_Disconnect`, `mqttDisconnectedCb` and `CountSecond` are operators of their own,
because `SleepCycle` composes them with timers.  The station is assumed to lose its address with
Wi-Fi, as it does under DHCP.

### MqttMsg, PacketStream and MqttInbound

A packet is a sequence of bytes with its real layout, lengths, identifiers and
digits of the remaining length; only the size of a byte, `2 * Base`, is a
parameter, so that a length of 4 already takes a second digit where the code has 128.
`pdata` is what the running `mqtt_tcpclient_recv` has not read of its segment.  The
code copies the rest into `in_buffer` and reads through fixed offsets, past the end
of a short packet too: `READPACKET(stale)` puts a byte of an earlier segment there.
One action is one round of `READPACKET`; between rounds nothing else of the client
runs, but the application may publish from `dataCb`.  The broker (`stage`, `owes`,
`subscribed`, `sent`) is the environment: it sends whole packets, a PUBLISH only
under a free identifier and after a subscription, and answers what it gets.

`PacketStream` states the same side without bytes: segments of packets, delivered
in order, each owed an answer that is forgotten if the queue has no place.  The
mapping reads the packets that are left of the segment from the length of `pdata`
and decodes the queue with the standard's own format (`Wire`), not with the code's.

### SleepCycle

Extends `MqttClient` with the timers of a battery device: `left` counts the ticks to the
expiry of `timer_try_connect`, `mqttTimer`, `timer_mesure`, `timer_DisconnectMQTT` and
`timer_time_out_connection`.  `disconnectFn` is the function of
`timer_DisconnectMQTT`, which changes from `DisconnectMQTT` to `go_sleep`; `retired`
says that `disconnectedCb` was replaced by `diconnectedCB`, so that the end of the
connection arms nothing.  The actions of the client are those of `MqttClient`, each
with what its callback does to the timers; the network either takes any time, or is
`quick` and answers before the next tick.  `Key` and `TopicEnd` are somebody at the
console, which keeps the device awake.

### Console

`state`, `pointeur`, `num_adresse` and `str_number` are those of `rx_uart0`, one action
for each kind of character; `mem` holds the arrays, with the addresses in one, as one that
is too long runs into the next.  `save_and_restart` is cut at each of its calls (erase, five
records, restart); `PowerLoss` comes between or within them, with any part of a
record written, and boots from what the flash then holds.  `user_init` loads and ends
the strings.  `typed`, `before` and `edited` (the last edit), `saved` (what was
last being saved) and `fresh` (nothing typed since the start) are history.  Keys that would
write past the array of addresses are left out: what lies behind it is up to the linker.

### Store

`consinge` and `niveau` are the wanted and the actual position in turns, `down`
and `up` whether `puissance_pwm[0]` and `[1]` are not 0, `triac` whether
`puissance_triac` is not 0.  Full and slow speed are one: no property tells them
apart.  `mqttDataCb` and `timeout_store` are cut at each access to what
`storeIRQ` shares; `storeIRQ` is one action, possible between any two of them.
An `os_timer` whose function was never set calls address 0 when it expires, which
the model takes for a restart (`Restart`).

### HwTimer, Dimmer and Pwm

`HwTimer` has one operator for each function of `timer.c`: it takes the table and
returns the new one.  What callbacks do to other variables is up to the module that
uses it.  The interrupt walks through the table while its callbacks change it, so
each slot is one action (`Tick` begins, `Slot` does slot `l`, 0 means that it has
returned).  The counters are integers and the interrupt decrements before it
compares with 0, as in the code.  The interrupts of the pins and of the timer have
one level and do not nest; commands make one access each to what they share and
come between interrupts.

`Dimmer` has a command (`Set`, `Toggle`), the interrupt of the detector, which may
come at any moment the pin is enabled, and the three callbacks.  `since` and
`applied`, ticks since the last `ZeroCross` and the power it read, are history.

`Pwm` has one copy of the variables for each channel; a command writes the channels
one after the other.  `age` counts ticks since the power of a channel was set.

## 3. Runs

| Run | Expect | Shows |
|---|---|---|
| `queue` | pass | types, agreement of pointers and count, whole frames, a reader that never loses step, refinement of `MsgFifo`, and that every call returns |
| `queue_irq` | violation | two levels in the ring: the count loses a byte (finding 1) |
| `client_safety` | pass | data only in a session; no lost wakeup; with a broker that sends nothing, the client is never silent for more than 1.5 keep alive periods; the retry timer never runs in a session |
| `client_live` | pass | a lost session is replaced; the queue never stops moving, also while the broker sends packets |
| `client_stuck` | violation | a reset and then no Wi-Fi: no retry any more (finding 2) |
| `inbound` | pass | the bytes implement `PacketStream`, the broker only gets answers it waits for, the callback returns |
| `sleep` | pass | no session is cut, the time out ends the wake, a quick network gets all measures, every wake ends |
| `console` | pass | strings end in their arrays, an edit changes nothing else, the flash never mixes two configurations, a restart finds the saved one |
| `store` | pass | the motor is supervised, in one direction, powered, and every move ends |
| `store_blocked` | violation | a blocked blind publishes a stale level (finding 3) |
| `dimmer_phase` | pass | the table agrees with `timer_triack_on`, counters run, the triac is on exactly when it should be, crossings are never far apart |
| `pwm_levels` | pass | counters run at every level, steady levels are steady, the others pulse, the duty increases with the level |

**Bounds.**  *Queue*: a ring of 6 bytes and packets of 0 to 5
bytes.  It wraps in the middle of an escape sequence, holds up to three frames,
and has packets that fit, that fit only without their escapes, and that never fit;
no property depends on the absolute size.  *Ring under an interrupt*: 2 bytes and two
calls of each level; one of each is enough.  *Client*: a keep alive of 4 s, timeouts
of 2 s, a queue of 2, up to 3 published packets and 2 faults.  Every counter passes
its limit, and two faults are enough for one to hit the recovery from the other.
*Inbound*: digits of two bits and a buffer of 16 bytes, so that there are packets of one
and of two digits, segments that fit and segments that are dropped; up to three
packets in a segment, which has a packet behind one that is not a PUBLISH and one in
front of it; two PUBLISHes of the broker under two identifiers and one of the application,
with the same identifiers; payloads that are empty, short, and too long for the application
to publish; a queue of 2, which the answers overflow.  *Sleep*: the periods are
different and in the order of the real ones (20, 50, 100, 200, 800, 1000, 3000 ms, 40 s), and
so are the sums that matter: a retry (2 s of the model, 5 s of the product) takes longer than the
console's time, and the time out longer than an idle time, the console's and two grace times.
One fault, two visits to the console, two measures in a queue of three.  *Console*: arrays of 2 to 4
characters, two addresses whose places are shorter than the password's, seven keys,
which fill and overflow each of them and reach a save after an edit, and two losses
of power, so that the second may hit a torn configuration.
*Blind*: 500 turns, five to a percent and one for the 0.2 % of `timeout_store`, two
commands out of three levels and eight turns or bounces: moves that finish, that
stop half way and that are reversed.  *Dimmer*: a tick of 400 us instead of 21 or
100, so that a half wave has 25 ticks and not 476; the longest and the shortest
delay, 22 and 2 ticks, are still different and inside a half wave, and the proofs
cover every tick up to 500 us.  Three slots, all of them used.  Commands at both
sides of each comparison.  *PWM*: the ratio of `PWM_SCALL` and
`PRECISION_TIMER` of the product, 5 to 21, on which rounding depends, with
both five times larger, so that the 10 ms of a steady level are 95 ticks;
`DutyMonotone` compares each level a channel has with all higher ones.  One channel;
the theorems cover two.

**Deadlock** is checked for the queue and the client, which always have a timer or a
call to make, and for the dimmers, whose hardware timer always
comes.  The others may rest: the blind without a command, a turn or a timer, the device
when it is asleep, the ring, the console and the receiving side when the calls, keys
and packets of their bounded environment are used up.

**Fairness.**  `MqttQueue!FairSpec`: a function that was called goes on, since no
task preempts another.  `MqttClient!FairSpec`: the SDK runs timers, callbacks and
posted tasks, the network answers, the broker accepts the connection, Wi-Fi comes
back; faults are finite.  `Store!FairSpec`: the running task goes on and an armed
timer expires; the interrupts are finite in number, as turns of a blind between
two ends are.  `Pwm!FairSpec`: the hardware timer interrupts (FRC1 reloads itself) and
its handler returns; nothing is assumed of commands.
`MqttInbound!FairInboundSpec`: the loop of a callback that runs goes on.
`SleepCycle!FairSleepSpec`: timers that are due run, as do posted tasks, and time passes;
the network owes nothing unless it is `quick`.  A comment at user_main.c:1502 doubts that
software timers work in light sleep: where they do not, nothing in the code ends a wake.

## 4. Proofs

TLAPS proves, for every value of the constants that meets the named assumptions:

* `MqttQueue_proofs`: `TypeOK`, `RingInv`, `WellFramed`, `ReaderFindsFrame`, for
  any ring of at least 2 bytes and any packets.  None is inductive alone: that a
  rollback restores a whole queue needs to know that the saved pointers delimit the
  frames that were there when the insertion began.  The inductive invariant adds
  where `last` points during an insertion and that the byte before it ends a frame
  (`PutsInv`), and what the parser has seen when it meets the next byte (`GetsInv`).
  `QueueIsFifo`: the queue implements `MsgFifo`.  The mapping decodes the ring, which
  is a recursive function of its bytes; the lemmas say what it gives for a ring with a
  frame behind it, with its first frame taken and with a partial one at its end.  A
  message joins the FIFO at the last byte of its frame, leaves it at the first byte
  that is read, and every other byte is a stutter; a rollback gives back the FIFO the
  insertion began with because the saved pointers are still those of its frames.
* `Client_proofs`, of `MqttClient`: `TypeOK`, `DataMeansSession`, `NoLostWakeup` for any
  timeouts, faults and number of packets, and `KeptAlive` for `Inbound = FALSE`
  and a keep alive of at least 4 s.  The inductive invariant relates the state to the
  connection, the event and the acknowledgement that must be outstanding, and for
  `KeptAlive` bounds `silent` by what the tick and the send timeout have counted.
  `RetryAtRest` is inductive by itself.
* `Client_proofs`, of `SleepCycle`: `SleepTypeOK`, `NeverCutsSession` for any periods,
  faults and keys, and that a device only falls asleep outside of a session.  A session can
  open in the grace time; the invariant is that whatever opens it has taken `timer_DisconnectMQTT` back.
  That `left` agrees with `tryTimer` and `mqttTimer` of the client is what makes the
  two modules one system.
  `AwakeBounded`, under `PeriodsOrdered`: the idle times (200 and 800 ms) are shorter than the
  console's (3 s), that is shorter than the delay of a retry (5 s), and all of it with two
  grace times is shorter than the time out (40 s).  `CreditInv` says what each number of
  expiries still to come (one, and one for each key) costs: when the last is spent, either the
  timer that ends the wake was set by that expiry (`Fresh`), or no session can come any
  more and the way to `go_sleep` is shorter than the time out (`Dead`, `Short`).  A session
  that opens in the grace time is the only thing that could prolong a wake; it is the last one
  (`LastSession`), because its idle time is over before `mqtt_timer` can count to a retry, and
  `DisconnectMQTT` then disarms `mqtt_timer`.
  From it, `WakesAreShort`: a wake lasts at most two time outs, and one more for each key.
  `AwakeIsTime` says that the `Awake` of that theorem counts the ticks.
  `MeasuresArrive`, under `MeasureFirst` (100 ms are less than 200, 800 and 3000), for any number
  of measures and any size of queue; what a full queue drops, when there are more measures than
  places, is not part of it.  `MeasureInv` follows the wake before, in and after its one
  session: the measure is due before whatever ends a session, no timer runs while a
  quick network has something to say, and time only passes in a session when the queue is empty.
  `DeviceKeepsClient`: the invariant of the client alone is kept by every step of the device,
  so that `DataMeansSession`, `NoLostWakeup` and `RetryAtRest` hold in the composition as well.
  TLC checked all these invariants on the instance of run `sleep` first.
* `Console_proofs`: `NeverMixed` and `StringsEnd` for arrays of any size from 2, any number
  of addresses, keys and losses of power.  `FlashInv` says that the flash is `saved` up
  to a cell of a record and erased behind it, and that while `save_and_restart` runs
  the configuration in memory is still the one it began to write; without it a second
  loss could leave something of both.  `LastCellInv` says that the last cell of
  an array is 0 but for a character that is being typed there: the strings end because
  `pointeur` stops and `user_init` ends what it reads, torn or not.
  `ConsoleTypeOK` with `stringToUint`, a recursive function over what was typed;
  `EditIsLocal`, whose invariant (`EditInv`) follows `typed` from key to key: the cells
  of the string are `typed` up to its limit, and every other cell is as before, but for
  the one that ends it; `RestartKeeps`, from `FlashInv` (what was written whole is
  `saved`) and `FreshInv` (memory is still what `user_init` made of it).
* `HwTimer_proofs`: what the operators on the table do: a change writes one place, an
  addition takes a free place, a longer time is no fewer ticks.
* `Store_proofs`: `TypeOK`, `Supervised`, `OneDirection`, `Powered` for any blind,
  any commands and any number of turns.  In the middle of a task the motor may run
  without its triac or timer; `MotorInv` states what holds at each step, such as
  that at the last step of a command a direction that is on is the one of `delta`,
  and `delta` is not 0 only if the timer was armed.
* `Dimmer_proofs`: `TypeOK`, `TableMatchesFlag`, `CountersRun`, `PhaseAngle`,
  `BoundedGap` for any table of at least 3 slots, any tick of 1 to 500 us and any
  levels.  Three slots are what the TRIACK build with TLI4970 registers; 500 us is the
  period of the samples, and shorter than the shortest delay.  The crossing and the
  samples stay in the slots they were given, and the phase can only be in one after them
  (`Layout`); hence where the phase is added is a place the interrupt has yet to reach
  in this tick.  `PhaseInv` relates its counter to `since` on either side of the walk,
  which gives the exact tick of `PhaseAngle`, and `GapInv` the counter of the crossing
  to `since` and to whether the pin is enabled: the detector can start the delay again
  only once, which gives `BoundedGap`.

* `Pwm_proofs`: `TypeOK`, `CountersRun` and `Steady` for one or two channels, any table that
  holds them, and every scale whose shortest pulse is a tick and longest wait is
  10 ms.  Each channel keeps the place `user_init` gave it (`Layout`), every wait is
  between one tick and the longest one, and a channel that does not yet obey its
  command has an `age` that with what is left on its counter is no more than the
  longest wait (`Due`), one more while the walk has yet to reach its place.
  `DutyMonotone` for every pair of levels, under 5 * `us` = 21 * `PWM_SCALL`, the ratio of
  `user_config.h`: inside a scale both times are monotone, and at the two changes of
  scale the rounded times are computed.  With another ratio rounding can make a
  higher power light less just there, so the assumption is needed.
* `MqttInbound_proofs`: `InboundTypeOK`, `StreamImplemented` (`MqttInbound` implements
  `PacketStream`) and `AnswersAreAwaited`, for every size of byte and buffer, any topic
  and payloads, any number of packets in a segment and any queue.  First the bytes:
  what a packet has at which place, that `mqtt_get_*` read it there in a buffer whatever lies
  behind it, that two packets with the same bytes are one (a header byte, then the
  lengths), and that `mqtt_msg_*` build such bytes.  The inductive invariant
  (`InboundInv`) says that `pdata` is always the bytes of the last packets of
  `segment`, that each fits in `in_buffer`, and that every message of the queue is the
  bytes of one packet; with it a round of the loop over bytes is a step of
  `PacketStream` over packets.  `AnswersAreAwaited` speaks of a queue and a broker that
  see each other's packets late.  Its invariant (`AnswersInv`) counts, for each
  identifier, the answers in the queue, those that the rest of the segment will cause
  and the PUBRELs the broker still owes: there is at most one in all, and it is
  of the stage of its PUBLISH.

Each follows the same argument: the initial states satisfy the invariant, one
lemma per group of actions shows that steps keep it, and the property follows.  The
type invariants of `Dimmer` and `Pwm` are proved and not part of a run.

Data that is read by recursion (frames in the ring, packets in a segment, digits of a
number) needs an induction that the provers cannot take from the library as it is
stated for an operator.  The lemmas take the least element of a set of
numbers instead: the set of places, or lengths, at which the statement fails.

Model-checked only is liveness (`CallsReturn`, `Reconnects`, `QueueDrains`, `RecvReturns`,
`EveryWakeSleeps`, `MotorStops`, `Pulses`), which is out of reach of this prover.  Of
`EveryWakeSleeps` the safety half is proved, `WakesAreShort`: what is left to TLC is that time
passes.  `CountIsAtomic` and `BlockedMeansInPosition` do not hold (findings 1 and 3).

## 5. Findings

1. `RINGBUF_Put` and `RINGBUF_Get` (ringbuf.c:37) change `fill_cnt` in two accesses, and
   interrupts publish: one change of two is lost, where the comment says "this should
   be atomic operation".
2. After `recon_cb` only the delay of `mqtt_timer` retries, once; if that attempt
   fails without a callback (no address), the client stays in `TCP_CONNECTING`
   (mqtt.c:942).
3. `timeout_store` (user_main.c:1212) publishes `niveau_100` in place of the level
   it has just computed; before the first turn that is -1.

Other weaknesses that no document contradicts are in the models as they are in the code:
`MQTT_Publish` returns TRUE for a packet that it did not queue, as it does not count the
escapes (mqtt.c:610); a received packet restarts the keep alive count, so that
`KeptAlive` is about a broker that sends nothing (mqtt.c:300); a packet leaves the queue
before it is known to be sent (mqtt.c:752); a packet behind one that is not a
PUBLISH, in one segment, is forgotten (mqtt.c:424); command `T` of a PWM dimmer only turns
off (user_main.c:1355); a blind turned by hand before its first command arms a timer
without a function (user_main.c:977); a session that opens in the very tick in which the 40 s
of a wake are over is cut with its measures still queued (user_main.c:1508), which is why
`MeasuresArrive` is about wakes without a time out.

## 6. Plan

Done: the queue, the ring under an interrupt, the client, the receiving side, the
sleep cycle, the console, the blind and both dimmers, each with the theorems above.
Left, in this order:

1. `RingBufIrq`: the most that `fill_cnt` can be wrong by, as a theorem.
2. The client with name resolution, and an abstract `Session` that it implements.
3. An abstract set of periodic callbacks that the table of `HwTimer` implements.
4. The SWITCH_ONLY build of the sleep cycle, whose `connectedCB` leaves
   `timer_DisconnectMQTT` alone (user_main.c:1181).

## 7. Not modelled

* In `domo/mqtt`: name resolution (with `mqtt_dns_found`, which uses `pCon` after
  `tryConnect` may have freed it; brokers are configured by address), TLS and several
  clients, none of which the devices use; the text of CONNECT, UNSUBSCRIBE
  and the bodies of pings, which no property is about; packets that TCP splits, of
  which the code says "Not Implement yet"; `MQTT_DeleteClient`, `PROTO_Parse` and `PROTO_Add`,
  which are never called; `utils.c`, pure functions of strings.
* An interrupt inside `QUEUE_Puts` or while `out_buffer` holds a packet: the saved pointers
  and the buffer are shared as well, but with the count already wrong (finding 1) there
  is nothing left to state.
* In `user_main.c`: the HALF_SIN builds, of which, after the first interrupt disables its
  own pin (line 811), one timer of 100 ms is left; the 45 ms software timer of DETECT_0V,
  which only reports; TRIACK_ON_OFF; the length of a sleep, a low battery and the
  SWITCH_ONLY build; touch keys and sensors beyond the fact that they publish; the
  arithmetic on samples of current.  `mqttIsConected` stays true during a
  reconnection (user_mqtt.c:41): `connected` is in the model, but only guards whether a
  sample is published.
* I2C, SPI, ADC and UART drivers, which are input and output of registers; `wifi.c`,
  which no build includes.
* `domo/esp_mqtt-master`, `esp_mqtt-master`, `examples`, `third_party`, the compiler's headers under
  `include/xcc` and the SDK, which are most of the repository's lines and not this
  program: only what espconn answers and when its callbacks come.

Payloads, topics and formatting are abstracted to members of small sets.
