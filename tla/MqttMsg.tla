------------------------------ MODULE MqttMsg -------------------------------
(***************************************************************************)
(* The packets of MQTT as mqtt_msg.c builds and takes them apart.  A       *)
(* packet is a sequence: its first byte, with its type and its QoS, the    *)
(* digits of its remaining length, and its body, whose bytes are below     *)
(* 2 * Base.  Base is 128 in the code, as a byte of the remaining length   *)
(* carries seven bits, and less in a small instance.  CONNECT, whose text  *)
(* no property is about, and the pings, which have no body, are left out.  *)
(***************************************************************************)
EXTENDS Integers, Sequences, FiniteSetsExt

CONSTANTS Base,      \* values of a digit of the remaining length
          BufSize    \* MQTT_BUF_SIZE

\* fini_message writes one or two digits, and no message is longer; an answer has
\* one digit.
ASSUME MsgAssumption == /\ Base \in Nat \ 0..2 /\ BufSize \in Nat \ {0}
                        /\ BufSize <= Base * Base

\* mqtt_message_type.
CONNACK == 2
PUBLISH == 3
PUBACK == 4
PUBREC == 5
PUBREL == 6
PUBCOMP == 7
SUBSCRIBE == 8
SUBACK == 9
UNSUBACK == 11

\* The first byte.  The flags DUP and RETAIN are left out.
Header(type, qos) == 4 * type + qos
mqtt_get_type(buffer) == buffer[1] \div 4
mqtt_get_qos(buffer) == buffer[1] % 4

Byte == 0..2 * Base - 1
MaxFixedHeader == 3
MaxId == 4 * Base * Base - 1

\* The two bytes of a length or of an identifier, and back.
Word(w) == <<w \div (2 * Base), w % (2 * Base)>>
Pair(buffer, i) == buffer[i + 1] * 2 * Base + buffer[i + 2]

\* fail_message: a message of no bytes.
fail_message == <<>>

-----------------------------------------------------------------------------
(* Building.                                                               *)

\* Faulty: the second digit is not carried.
fini_messageOneDigit(type, qos, body) ==
  <<Header(type, qos), Len(body) % Base>> \o body

fini_message(type, qos, body) ==
  <<Header(type, qos)>>
  \o (IF Len(body) > Base - 1 THEN <<Base + (Len(body) % Base), Len(body) \div Base>>
                              ELSE <<Len(body)>>)
  \o body

Built(type, qos, body) ==
  IF MaxFixedHeader + Len(body) > BufSize THEN fail_message
                                          ELSE fini_message(type, qos, body)

\* The next identifier of append_message_id: never 0.
NextId(message_id) == IF message_id = MaxId THEN 1 ELSE message_id + 1

mqtt_msg_publish(topic, data, qos, id) ==
  IF topic = <<>> THEN fail_message
  ELSE Built(PUBLISH, qos, Word(Len(topic)) \o topic
                             \o (IF qos > 0 THEN Word(id) ELSE <<>>) \o data)

mqtt_msg_subscribe(topic, qos, id) ==
  IF topic = <<>> THEN fail_message
  ELSE Built(SUBSCRIBE, 1, Word(id) \o Word(Len(topic)) \o topic \o <<qos>>)

\* mqtt_msg_puback, pubrec, pubrel and pubcomp.
mqtt_msg_answer(type, id) ==
  fini_message(type, IF type = PUBREL THEN 1 ELSE 0, Word(id))

-----------------------------------------------------------------------------
(* Taking apart.  The offsets are those of C, the first byte is at 0.      *)

\* Where the loop over the digits of the remaining length stops.
EndOfLength(buffer, length) ==
  LET last == {i \in 1..length - 1 : buffer[i + 1] < Base}
  IN  IF last # {} THEN Min(last) + 1 ELSE IF length > 1 THEN length ELSE 1

mqtt_get_total_length(buffer, length) ==
  LET end == EndOfLength(buffer, length)
      digits[i \in 1..end] ==
        IF i = end THEN 0 ELSE (buffer[i + 1] % Base) + Base * digits[i + 1]
  IN  end + digits[1]

\* Offset and length of a part of a packet, or none.
Null == [at |-> 0, length |-> 0]

mqtt_get_publish_topic(buffer, length) ==
  LET i == EndOfLength(buffer, length)
  IN  IF i + 2 >= length \/ i + 2 + Pair(buffer, i) > length
      THEN [Null EXCEPT !.length = length]
      ELSE [at |-> i + 2, length |-> Pair(buffer, i)]

\* Faulty: the payload is what is left of the segment.
mqtt_get_publish_dataOfRest(buffer, blength) ==
  LET i      == EndOfLength(buffer, blength)
      topic  == i + 2 + Pair(buffer, i)
      start  == IF mqtt_get_qos(buffer) > 0 THEN topic + 2 ELSE topic
  IN  [at |-> start, length |-> blength - start]

\* The payload ends with its packet or, if less arrived, with what arrived.
mqtt_get_publish_data(buffer, blength) ==
  LET totlen == mqtt_get_total_length(buffer, blength)
      i      == EndOfLength(buffer, blength)
      topic  == i + 2 + Pair(buffer, i)
      start  == IF mqtt_get_qos(buffer) > 0 THEN topic + 2 ELSE topic
  IN  IF \/ i + 2 >= blength \/ topic >= blength
         \/ mqtt_get_qos(buffer) > 0 /\ start >= blength
         \/ totlen < start
      THEN Null
      ELSE [at |-> start,
            length |-> (IF totlen <= blength THEN totlen ELSE blength) - start]

\* Of what starts at the beginning of the buffer, 0 when there is none.
mqtt_get_id(buffer, length) ==
  LET i     == EndOfLength(buffer, length)
      topic == i + 2 + Pair(buffer, i)
  IN  CASE length < 1 -> 0
        [] mqtt_get_type(buffer) = PUBLISH ->
             IF \/ i + 2 >= length \/ topic >= length
                \/ mqtt_get_qos(buffer) = 0 \/ topic + 2 >= length
             THEN 0 ELSE Pair(buffer, topic)
        [] mqtt_get_type(buffer) \in {PUBACK, PUBREC, PUBREL, PUBCOMP,
                               SUBACK, UNSUBACK, SUBSCRIBE} ->
             IF length >= 4 /\ buffer[2] < Base THEN Pair(buffer, 2) ELSE 0
        [] OTHER -> 0
=============================================================================
