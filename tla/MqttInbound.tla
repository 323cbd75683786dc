---------------------------- MODULE MqttInbound ------------------------------
(***************************************************************************)
(* mqtt_tcpclient_recv: what a session of the MQTT client does with what   *)
(* the broker sends, byte for byte.  One TCP segment can carry several     *)
(* packets.  The callback takes one packet per round of its loop; the      *)
(* answers wait with the packets of the application in the queue, which    *)
(* MqttQueue.tla models, until MQTT_Task sends them.                       *)
(*                                                                         *)
(* The broker is the environment: it follows the protocol, sends whole     *)
(* packets, and acknowledges what it gets.                                 *)
(***************************************************************************)
EXTENDS MqttMsg, SequencesExt, FiniteSets

CONSTANTS QueueMax,      \* bound: packets the queue can hold
          MaxSegment,    \* bound: packets in a segment
          MaxInbound,    \* bound: PUBLISHes the broker sends
          MaxPublish,    \* bound: PUBLISHes of the application
          Ids,           \* identifiers the broker uses
          Payloads, Topic

\* What mqttConnectedCb sends fits: MAX_TOPIC_LENGTH is far below MQTT_BUF_SIZE.
ASSUME InboundAssumption ==
  /\ {MaxSegment, MaxInbound, MaxPublish} \subseteq Nat /\ QueueMax \in Nat \ {0}
  /\ Ids \subseteq 1..MaxId
  /\ Payloads \subseteq Seq(Byte) /\ Topic \in Seq(Byte) /\ Topic # <<>>
  /\ MaxFixedHeader + Len(Topic) + 5 <= BufSize

VARIABLES
  \* the client
  inSession,     \* connState is MQTT_DATA, not MQTT_CONNECT_SENDING
  message_id,
  msgQueue,      \* packets to send, as bytes
  pdata,         \* what the callback that runs has not read
  delivered,     \* <<what>> dataCb was called with in this step, or <<>>
  published,
  \* the broker
  greeted, subscribed,
  stage,         \* of each identifier of the broker
  owes,          \* answers of the broker on their way
  sent,          \* PUBLISHes it sent
  segment        \* the packets of the segment in pdata

clientVars == <<inSession, message_id, msgQueue, pdata, delivered,
                published>>
broker == <<greeted, subscribed, stage, owes, sent, segment>>
inboundVars == <<clientVars, broker>>

-----------------------------------------------------------------------------
(* The packets, and their bytes according to the standard.                 *)

Packet(type, qos, id, topic, data) ==
  [type |-> type, qos |-> qos, id |-> id, topic |-> topic, data |-> data]
Plain(type, id) == Packet(type, IF type = PUBREL THEN 1 ELSE 0, id, <<>>, <<>>)

\* What mqttConnectedCb publishes.
MyId == <<1>>

\* No packet, nothing awaited.
None == 0

AllIds == Ids \cup 1..2 + MaxPublish
Packets ==
  {Packet(PUBLISH, 0, 0, Topic, d) : d \in Payloads}
  \cup {Packet(PUBLISH, q, i, Topic, d) : q \in {1, 2}, i \in AllIds,
                                           d \in Payloads \cup {MyId}}
  \cup {Plain(t, i) : t \in {PUBACK, PUBREC, PUBREL, PUBCOMP, SUBACK},
                      i \in AllIds}
  \cup {Packet(SUBSCRIBE, 1, i, Topic, <<>>) : i \in AllIds}
  \cup {Plain(CONNACK, 0)}

Body(p) ==
  CASE p.type = PUBLISH -> Word(Len(p.topic)) \o p.topic
                             \o (IF p.qos > 0 THEN Word(p.id) ELSE <<>>) \o p.data
    [] p.type = SUBSCRIBE -> Word(p.id) \o Word(Len(p.topic)) \o p.topic \o <<0>>
    [] p.type = SUBACK -> Word(p.id) \o <<0>>
    [] OTHER -> Word(p.id)

\* Remaining length: digits, the lowest first, all but the last marked.
Digits(n) == IF n < Base THEN <<n>> ELSE <<Base + (n % Base), n \div Base>>

Wire(p) == <<Header(p.type, p.qos)>> \o Digits(Len(Body(p))) \o Body(p)
WireAll(ps) == FlattenSeq([i \in DOMAIN ps |-> Wire(ps[i])])

Reading == [m \in {Wire(p) : p \in Packets} |-> CHOOSE p \in Packets : Wire(p) = m]
Read(m) == Reading[m]

-----------------------------------------------------------------------------
(* The client.                                                             *)

\* MQTT_Publish and MQTT_Subscribe make room, an answer does not.
Put(q, m) == Append(IF Len(q) >= QueueMax THEN Tail(q) ELSE q, m)
PutAnswer(q, m) == IF Len(q) >= QueueMax THEN q ELSE Append(q, m)

\* mqttConnectedCb, called by the CONNACK.
mqttConnectedCb ==
  LET subscribe == NextId(message_id)
      announce  == NextId(subscribe)
  IN  /\ message_id' = announce
      /\ msgQueue' = Put(Put(msgQueue, mqtt_msg_subscribe(Topic, 0, subscribe)),
                         mqtt_msg_publish(Topic, MyId, 1, announce))

\* Faulty: every answer is the one to QoS 1.
AnswerTypeQos1(type, qos) ==
  CASE type = PUBLISH /\ qos > 0 -> PUBACK
    [] type = PUBREC -> PUBREL
    [] type = PUBREL -> PUBCOMP
    [] OTHER -> None

\* What a packet is answered with, and whether it is at all.
AnswerType(type, qos) ==
  CASE type = PUBLISH /\ qos = 1 -> PUBACK
    [] type = PUBLISH /\ qos = 2 -> PUBREC
    [] type = PUBREC -> PUBREL
    [] type = PUBREL -> PUBCOMP
    [] OTHER -> None

\* deliver_publish: the payload and the topic as dataCb gets them.
deliver_publish(buffer, length) ==
  LET topic == mqtt_get_publish_topic(buffer, length)
      data  == mqtt_get_publish_data(buffer, length)
  IN  [topic |-> SubSeq(buffer, topic.at + 1, topic.at + topic.length),
       data |-> SubSeq(buffer, data.at + 1, data.at + data.length)]

\* Faulty: the rest of the segment is looked at after any packet.
ReadsOnAlways(type, total, len) == total < len

\* Whether another packet is looked for behind this one.
ReadsOn(type, total, len) == type = PUBLISH /\ total < len

\* Faulty: the packet is read again.
BehindAgain(bytes, total) == bytes

\* What is behind a packet in its segment.
Behind(bytes, total) == SubSeq(bytes, total + 1, Len(bytes))

\* The callback begins.
mqtt_tcpclient_recv(ps) ==
  /\ pdata = <<>>
  /\ pdata' = IF Len(WireAll(ps)) < BufSize THEN WireAll(ps) ELSE <<>>
  /\ segment' = IF pdata' = <<>> THEN <<>> ELSE ps
  /\ delivered' = <<>>
  /\ UNCHANGED <<inSession, message_id, msgQueue, published>>

\* A round of its loop.  in_buffer holds what older segments left behind the
\* bytes of this one.
READPACKET(stale) ==
  /\ pdata # <<>>
  /\ LET len    == Len(pdata)
         buffer == pdata \o [i \in 1..BufSize - len |-> stale]
         type   == mqtt_get_type(buffer)
         qos    == mqtt_get_qos(buffer)
         id     == mqtt_get_id(buffer, BufSize)
         total  == mqtt_get_total_length(buffer, len)
         answer == AnswerType(type, qos)
     IN  \/ /\ ~inSession
            /\ IF type = CONNACK /\ buffer[4] = 0
               THEN inSession' = TRUE /\ mqttConnectedCb
               ELSE UNCHANGED <<inSession, message_id, msgQueue>>
            /\ pdata' = <<>>
            /\ delivered' = <<>>
         \/ /\ inSession
            /\ message_id' = IF answer # None /\ id = 0 THEN NextId(message_id)
                                                          ELSE message_id
            /\ msgQueue' = IF answer = None THEN msgQueue
                 ELSE PutAnswer(msgQueue,
                        mqtt_msg_answer(answer, IF id = 0 THEN message_id' ELSE id))
            /\ delivered' = IF type = PUBLISH THEN <<deliver_publish(buffer, len)>>
                                                ELSE <<>>
            /\ pdata' = IF ReadsOn(type, total, len)
                        THEN Behind(pdata, total) ELSE <<>>
            /\ UNCHANGED inSession
  /\ segment' = IF pdata' = <<>> THEN <<>> ELSE segment
  /\ UNCHANGED <<published, greeted, subscribed, stage, owes, sent>>

\* MQTT_Publish by the application, its dataCb included.
MQTT_Publish(data, qos) ==
  /\ published < MaxPublish /\ published' = published + 1
  /\ LET id == IF qos > 0 THEN NextId(message_id) ELSE message_id
         m  == mqtt_msg_publish(Topic, data, qos, id)
     IN  /\ message_id' = id
         /\ msgQueue' = IF m = fail_message THEN msgQueue ELSE Put(msgQueue, m)
  /\ delivered' = <<>>
  /\ UNCHANGED <<inSession, pdata, broker>>

-----------------------------------------------------------------------------
(* The broker.                                                             *)

\* It gets a packet.
Gets(p) ==
  /\ owes' = CASE p.type = SUBSCRIBE -> owes \cup {Plain(SUBACK, p.id)}
               [] p.type = PUBLISH /\ p.qos = 1 -> owes \cup {Plain(PUBACK, p.id)}
               [] p.type = PUBLISH /\ p.qos = 2 -> owes \cup {Plain(PUBREC, p.id)}
               [] p.type = PUBREL -> owes \cup {Plain(PUBCOMP, p.id)}
               [] p.type = PUBREC -> owes \cup {Plain(PUBREL, p.id)}
               [] OTHER -> owes
  /\ subscribed' = (subscribed \/ p.type = SUBSCRIBE)
  /\ stage' = CASE p.type \in {PUBACK, PUBCOMP} -> [stage EXCEPT ![p.id] = None]
                [] p.type = PUBREC -> [stage EXCEPT ![p.id] = PUBCOMP]
                [] OTHER -> stage

\* MQTT_Task sends the oldest packet.
MQTT_Task ==
  /\ inSession /\ pdata = <<>> /\ msgQueue # <<>>
  /\ msgQueue' = Tail(msgQueue)
  /\ Gets(Read(Head(msgQueue)))
  /\ delivered' = <<>>
  /\ UNCHANGED <<inSession, message_id, pdata, published, greeted, sent, segment>>

\* What it may put in a segment.
Publishes == {p \in Packets : /\ p.type = PUBLISH /\ p.data \in Payloads
                              /\ \/ p.qos = 0
                                 \/ p.id \in Ids /\ stage[p.id] = None}
Sendable == owes \cup IF subscribed /\ sent < MaxInbound THEN Publishes ELSE {}

PublishesIn(ps) == {i \in DOMAIN ps : ps[i].type = PUBLISH}

\* The answer to a PUBLISH.
Awaited(qos) == CASE qos = 0 -> None [] qos = 1 -> PUBACK [] qos = 2 -> PUBREC

\* It sends a segment.
BrokerSends ==
  \/ /\ ~greeted /\ greeted' = TRUE
     /\ mqtt_tcpclient_recv(<<Plain(CONNACK, 0)>>)
     /\ UNCHANGED <<subscribed, stage, owes, sent>>
  \/ /\ greeted /\ pdata = <<>>
     /\ LET some == Sendable
        IN  \E n \in 1..MaxSegment : \E ps \in [1..n -> some] :
              /\ \A i, j \in 1..n : i < j /\ ps[i].id # 0 =>
                   <<ps[i].type, ps[i].id>> # <<ps[j].type, ps[j].id>>
              /\ sent' = sent + Cardinality(PublishesIn(ps)) /\ sent' <= MaxInbound
              /\ mqtt_tcpclient_recv(ps)
              /\ owes' = owes \ Range(ps)
              /\ stage' = [id \in Ids |->
                   IF \E i \in PublishesIn(ps) : ps[i].id = id
                   THEN Awaited(ps[CHOOSE i \in PublishesIn(ps) : ps[i].id = id].qos)
                   ELSE stage[id]]
     /\ UNCHANGED <<greeted, subscribed>>

-----------------------------------------------------------------------------
InboundInit ==
  /\ inSession = FALSE /\ message_id = 0 /\ msgQueue = <<>> /\ pdata = <<>>
  /\ delivered = <<>> /\ published = 0
  /\ greeted = FALSE /\ subscribed = FALSE /\ stage = [i \in Ids |-> None]
  /\ owes = {} /\ sent = 0 /\ segment = <<>>

InboundNext == \/ \E stale \in {0, 2 * Base - 1} : READPACKET(stale)
               \/ MQTT_Task \/ BrokerSends
               \/ \E d \in Payloads, q \in 0..2 : MQTT_Publish(d, q)

InboundSpec == InboundInit /\ [][InboundNext]_inboundVars
FairInboundSpec == InboundSpec /\ WF_inboundVars(READPACKET(0))

-----------------------------------------------------------------------------
(* Properties.                                                             *)

\* The variables keep their types, and every packet that waits is one that the
\* standard knows: fini_message and the identifiers never spoil a message.
InboundTypeOK ==
  /\ inSession \in BOOLEAN /\ greeted \in BOOLEAN /\ subscribed \in BOOLEAN
  /\ message_id \in 0..MaxId /\ sent \in 0..MaxInbound /\ published \in 0..MaxPublish
  /\ Len(pdata) < BufSize
  /\ Len(msgQueue) <= QueueMax
  /\ \A i \in DOMAIN msgQueue : msgQueue[i] \in {Wire(p) : p \in Packets}
  /\ stage \in [Ids -> {None, PUBACK, PUBREC, PUBCOMP}]
  /\ owes \subseteq Packets

\* The packets of the segment that are not read: those whose bytes are left.
Rest == LET n == CHOOSE n \in 0..Len(segment) :
                   Len(WireAll(SubSeq(segment, n + 1, Len(segment)))) = Len(pdata)
        IN  SubSeq(segment, n + 1, Len(segment))

AnswerTo(p) == IF AnswerType(p.type, p.qos) = None THEN <<>>
               ELSE <<Plain(AnswerType(p.type, p.qos), p.id)>>

Stream == INSTANCE PacketStream WITH
            up <- inSession, rest <- Rest, Answer <- AnswerTo,
            queue <- [i \in DOMAIN msgQueue |-> Read(msgQueue[i])]

\* The loop over the bytes of a segment does what PacketStream says of its
\* packets: every PUBLISH in front is delivered once, whole and in its order,
\* and answered with its own identifier.
ImplementsStream == Stream!Spec

\* The broker is only answered what it waits for: each PUBACK, PUBREC and
\* PUBCOMP that waits is for a PUBLISH of its QoS that has none yet.
AnswersAreAwaited ==
  \A i \in DOMAIN msgQueue :
    LET p == Read(msgQueue[i])
    IN  p.type \in {PUBACK, PUBREC, PUBCOMP} =>
          /\ stage[p.id] = p.type
          /\ \A j \in DOMAIN msgQueue : j # i => msgQueue[j] # msgQueue[i]

\* The callback returns, whatever lengths the segment holds.
RecvReturns == []<>(pdata = <<>>)
=============================================================================
