------------------------- MODULE MqttInbound_proofs --------------------------
(***************************************************************************)
(* What mqtt_tcpclient_recv does with the bytes of a segment is what       *)
(* PacketStream says of its packets, for any lengths, any number of        *)
(* packets and any size of the queue.                                      *)
(*                                                                         *)
(* The first parts are about bytes only: where Word, the digits of the     *)
(* length, the topic, the payload and the identifier are in the bytes of a *)
(* packet; that mqtt_get_* find them in a buffer that begins with these    *)
(* bytes; that different packets have different bytes; that what           *)
(* mqtt_msg_* builds are such bytes.  FlattenSeq is defined by recursion   *)
(* over a segment: its equations and least elements of sets of numbers     *)
(* stand for the induction.  Then come the inductive invariant, the steps  *)
(* of the refinement, and the answers the broker awaits.                   *)
(***************************************************************************)
EXTENDS MqttInbound, TLAPS, SequenceTheorems, WellFoundedInduction, FiniteSetTheorems

-----------------------------------------------------------------------------
(* Numbers and sequences.                                                  *)

\* The constants are numbers: the values of a digit, the places of the buffer, the
\* identifiers.
LEMMA Numbers ==
  /\ Base \in Nat /\ Base > 2 /\ BufSize \in Nat /\ BufSize <= Base * Base
  /\ MaxId \in Nat /\ MaxId >= 35 /\ 2 * Base \in Nat
<1>1. Base \in Nat /\ Base > 2 /\ BufSize \in Nat /\ BufSize <= Base * Base
  BY MsgAssumption
<1>2. Base * Base >= 3 * 3 /\ Base * Base \in Nat
  BY <1>1
<1> QED BY <1>1, <1>2 DEF MaxId

\* Division and remainder: what Word and the digits of a length are made of.
LEMMA DivMod ==
  ASSUME NEW w \in Nat, NEW m \in Nat, m > 0
  PROVE  /\ w \div m \in Nat /\ w % m \in Nat /\ w % m < m
         /\ (w \div m) * m + (w % m) = w
         /\ w < m * m => w \div m < m
<1>1. w \div m \in Nat
  OBVIOUS
<1>2. w % m \in Nat
  OBVIOUS
<1>3. w % m < m
  OBVIOUS
<1>4. (w \div m) * m + (w % m) = w
  OBVIOUS
<1>5. w < m * m => w \div m < m
  <2> DEFINE q == w \div m
  <2> SUFFICES ASSUME w < m * m, ~(q < m) PROVE FALSE
    OBVIOUS
  <2>1. q \in Nat /\ q * m <= w
    BY <1>1, <1>2, <1>4
  <2> HIDE DEF q
  <2>2. \A a, b, c \in Nat : a <= b => a * c \in Nat /\ b * c \in Nat /\ a * c <= b * c
    OBVIOUS
  <2>3. m * m <= q * m /\ q * m \in Nat /\ m * m \in Nat
    BY <2>1, <2>2
  <2> QED BY <2>1, <2>3
<1> QED BY <1>1, <1>2, <1>3, <1>4, <1>5

\* Pair reads what Word wrote.
LEMMA WordPair ==
  ASSUME NEW w \in Nat
  PROVE  /\ Word(w) \in Seq(Nat) /\ Len(Word(w)) = 2
         /\ Word(w)[1] \in Nat /\ Word(w)[2] \in Nat
         /\ Word(w)[1] * 2 * Base + Word(w)[2] = w
<1>1. 2 * Base \in Nat /\ 2 * Base > 0 /\ Base \in Nat
  BY Numbers
<1>2. w \div (2 * Base) \in Nat /\ w % (2 * Base) \in Nat
      /\ (w \div (2 * Base)) * (2 * Base) + (w % (2 * Base)) = w
  BY <1>1, DivMod
<1> DEFINE x == w \div (2 * Base)
           y == w % (2 * Base)
<1>3. Word(w) = <<x, y>>
  BY DEF Word
<1> HIDE DEF x, y
<1>4. x \in Nat /\ y \in Nat /\ x * (2 * Base) + y = w
  BY <1>2 DEF x, y
<1>5. x * 2 * Base = x * (2 * Base)
  <2>1. \A a, b \in Nat : a * 2 * b = a * (2 * b)
    OBVIOUS
  <2> QED BY <1>1, <1>4, <2>1
<1> QED BY <1>3, <1>4, <1>5

\* A sequence behind another.
LEMMA Behind1 ==
  ASSUME NEW S, NEW x \in Seq(S), NEW y \in Seq(S)
  PROVE  /\ x \o y \in Seq(S) /\ Len(x \o y) = Len(x) + Len(y)
         /\ \A i \in 1..Len(x) : (x \o y)[i] = x[i]
         /\ \A i \in 1..Len(y) : (x \o y)[Len(x) + i] = y[i]
<1>1. Len(x) \in Nat /\ Len(y) \in Nat
  OBVIOUS
<1>2. x \o y \in Seq(S) /\ Len(x \o y) = Len(x) + Len(y)
      /\ \A i \in 1..Len(x) + Len(y) : (x \o y)[i] = IF i <= Len(x) THEN x[i] ELSE y[i - Len(x)]
  BY ConcatProperties
<1>3. ASSUME NEW i \in 1..Len(x) PROVE (x \o y)[i] = x[i]
  BY <1>1, <1>2
<1>4. ASSUME NEW i \in 1..Len(y) PROVE (x \o y)[Len(x) + i] = y[i]
  <2>1. Len(x) + i \in 1..Len(x) + Len(y) /\ ~(Len(x) + i <= Len(x)) /\ (Len(x) + i) - Len(x) = i
    BY <1>1
  <2> QED BY <1>2, <2>1
<1> QED BY <1>2, <1>3, <1>4

Types == {CONNACK, PUBLISH, PUBACK, PUBREC, PUBREL, PUBCOMP, SUBSCRIBE, SUBACK}

\* The types of packets differ: mqtt_message_type.
LEMMA TypeNumbers ==
  /\ CONNACK = 2 /\ PUBLISH = 3 /\ PUBACK = 4 /\ PUBREC = 5 /\ PUBREL = 6 /\ PUBCOMP = 7
  /\ SUBSCRIBE = 8 /\ SUBACK = 9 /\ UNSUBACK = 11 /\ None = 0
BY DEF CONNACK, PUBLISH, PUBACK, PUBREC, PUBREL, PUBCOMP, SUBSCRIBE, SUBACK, UNSUBACK, None

\* The topic and the payloads are sequences of numbers, and what mqttConnectedCb
\* publishes fits; no identifier is 0.
LEMMA Lengths ==
  /\ Topic \in Seq(Nat) /\ Len(Topic) \in Nat \ {0} /\ Topic # <<>>
  /\ MaxFixedHeader = 3 /\ Len(Topic) + 8 <= BufSize
  /\ \A d \in Payloads : d \in Seq(Nat)
  /\ MyId \in Seq(Nat) /\ Len(MyId) = 1
  /\ AllIds \subseteq Nat /\ Ids \subseteq AllIds /\ 0 \notin AllIds
<1>1. Byte \subseteq Nat
  BY Numbers DEF Byte
<1>2. Topic \in Seq(Byte) /\ Topic # <<>> /\ Payloads \subseteq Seq(Byte)
  BY InboundAssumption
<1>0. \A s \in Seq(Byte) : s \in Seq(Nat)
  BY <1>1, SeqMonotonic
<1>3. Topic \in Seq(Nat)
  BY <1>0, <1>2
<1>4. Len(Topic) \in Nat \ {0}
  BY <1>2
<1>5. ASSUME NEW d \in Payloads PROVE d \in Seq(Nat)
  BY <1>0, <1>2
<1>6. MyId \in Seq(Nat) /\ Len(MyId) = 1
  BY DEF MyId
<1>7. MaxFixedHeader = 3 /\ Len(Topic) + 8 <= BufSize
  BY <1>4, Numbers, InboundAssumption DEF MaxFixedHeader
<1>8. AllIds \subseteq Nat /\ Ids \subseteq AllIds /\ 0 \notin AllIds
  <2>1. Ids \subseteq 1..MaxId /\ MaxId \in Nat /\ MaxPublish \in Nat
    BY Numbers, InboundAssumption
  <2> QED BY <2>1 DEF AllIds
<1> QED BY <1>2, <1>3, <1>4, <1>5, <1>6, <1>7, <1>8

\* The packets, by their parts.
PacketOK(p) ==
  /\ p = Packet(p.type, p.qos, p.id, p.topic, p.data)
  /\ p.type \in Types /\ p.qos \in 0..2 /\ p.id \in Nat
  /\ p.topic \in Seq(Nat) /\ p.data \in Seq(Nat)
  /\ p.type = PUBLISH => /\ p.topic = Topic /\ (p.qos = 0 => p.id = 0)
                         /\ (p.qos # 0 => p.id \in AllIds)
  /\ p.type = SUBSCRIBE => p = Packet(SUBSCRIBE, 1, p.id, Topic, <<>>) /\ p.id \in AllIds
  /\ p.type \notin {PUBLISH, SUBSCRIBE} => p = Plain(p.type, p.id)
  /\ p.type \notin {PUBLISH, SUBSCRIBE, CONNACK} => p.id \in AllIds
  /\ p.type = CONNACK => p.id = 0

\* Every packet has its parts.
LEMMA PacketParts == \A p \in Packets : PacketOK(p)
<1> SUFFICES ASSUME NEW p \in Packets PROVE PacketOK(p)
  OBVIOUS
<1> USE Lengths, TypeNumbers
<1>1. CASE p \in {Packet(PUBLISH, 0, 0, Topic, d) : d \in Payloads}
  <2>1. PICK d \in Payloads : p = Packet(PUBLISH, 0, 0, Topic, d)
    BY <1>1
  <2>2. d \in Seq(Nat)
    OBVIOUS
  <2> QED BY <2>1, <2>2 DEF PacketOK, Packet, Types
<1>2. CASE p \in {Packet(PUBLISH, q, i, Topic, d) : q \in {1, 2}, i \in AllIds,
                                           d \in Payloads \cup {MyId}}
  <2>1. PICK q \in {1, 2}, i \in AllIds, d \in Payloads \cup {MyId} :
          p = Packet(PUBLISH, q, i, Topic, d)
    BY <1>2
  <2>2. d \in Seq(Nat) /\ i \in Nat
    OBVIOUS
  <2> QED BY <2>1, <2>2 DEF PacketOK, Packet, Types
<1>3. CASE p \in {Plain(t, i) : t \in {PUBACK, PUBREC, PUBREL, PUBCOMP, SUBACK}, i \in AllIds}
  <2>1. PICK t \in {PUBACK, PUBREC, PUBREL, PUBCOMP, SUBACK}, i \in AllIds : p = Plain(t, i)
    BY <1>3
  <2>2. i \in Nat /\ <<>> \in Seq(Nat)
    OBVIOUS
  <2>3. p.type = t /\ p.id = i /\ p.qos \in 0..2 /\ p.topic = <<>> /\ p.data = <<>>
        /\ p = Packet(t, p.qos, i, <<>>, <<>>)
    BY <2>1 DEF Packet, Plain
  <2> QED BY <2>1, <2>2, <2>3 DEF PacketOK, Types
<1>4. CASE p \in {Packet(SUBSCRIBE, 1, i, Topic, <<>>) : i \in AllIds}
  <2>1. PICK i \in AllIds : p = Packet(SUBSCRIBE, 1, i, Topic, <<>>)
    BY <1>4
  <2>2. i \in Nat /\ <<>> \in Seq(Nat)
    OBVIOUS
  <2> QED BY <2>1, <2>2 DEF PacketOK, Packet, Types
<1>5. CASE p = Plain(CONNACK, 0)
  <2>1. <<>> \in Seq(Nat)
    OBVIOUS
  <2> QED BY <1>5, <2>1 DEF PacketOK, Packet, Types, Plain
<1> QED BY <1>1, <1>2, <1>3, <1>4, <1>5 DEF Packets

\* Which are the packets.
LEMMA PacketsThere ==
  /\ \A d \in Payloads : Packet(PUBLISH, 0, 0, Topic, d) \in Packets
  /\ \A q \in {1, 2}, i \in AllIds, d \in Payloads \cup {MyId} :
       Packet(PUBLISH, q, i, Topic, d) \in Packets
  /\ \A t \in {PUBACK, PUBREC, PUBREL, PUBCOMP, SUBACK}, i \in AllIds : Plain(t, i) \in Packets
  /\ \A i \in AllIds : Packet(SUBSCRIBE, 1, i, Topic, <<>>) \in Packets
  /\ Plain(CONNACK, 0) \in Packets
BY DEF Packets

-----------------------------------------------------------------------------
(* The bytes of a packet.                                                  *)

\* What a PUBLISH has before its payload, as far as its identifier.
IdOf(p) == IF p.qos > 0 THEN Word(p.id) ELSE <<>>

\* z is x with y behind it.
Joined(z, x, y) == /\ z \in Seq(Nat) /\ Len(z) = Len(x) + Len(y)
                   /\ \A i \in 1..Len(x) : z[i] = x[i]
                   /\ \A i \in 1..Len(y) : z[Len(x) + i] = y[i]

\* That is what \o makes.
LEMMA ConcatJoins == \A x, y \in Seq(Nat) : Joined(x \o y, x, y)
<1> SUFFICES ASSUME NEW x \in Seq(Nat), NEW y \in Seq(Nat) PROVE Joined(x \o y, x, y)
  OBVIOUS
<1>1. x \o y \in Seq(Nat) /\ Len(x \o y) = Len(x) + Len(y)
  BY Behind1
<1>2. \A i \in 1..Len(y) : (x \o y)[Len(x) + i] = y[i]
  BY Behind1
<1>3. \A i \in 1..Len(x) : (x \o y)[i] = x[i]
  BY Behind1
<1> QED BY <1>1, <1>2, <1>3 DEF Joined

\* Three sequences, one behind the other, behind two cells.
FourParts(z, w, t, k, d) ==
  /\ z \in Seq(Nat)
  /\ Len(z) = 2 + Len(t) + Len(k) + Len(d)
  /\ z[1] = w[1] /\ z[2] = w[2]
  /\ \A i \in 1..Len(t) : z[2 + i] = t[i]
  /\ \A i \in 1..Len(k) : z[2 + Len(t) + i] = k[i]
  /\ \A i \in 1..Len(d) : z[2 + Len(t) + Len(k) + i] = d[i]

\* Four sequences are joined from the left.
LEMMA JoinFour ==
  ASSUME NEW w \in Seq(Nat), NEW t \in Seq(Nat), NEW k \in Seq(Nat), NEW d \in Seq(Nat),
         NEW x, NEW y, NEW z, Len(w) = 2,
         Joined(x, w, t), Joined(y, x, k), Joined(z, y, d)
  PROVE  FourParts(z, w, t, k, d)
<1>1. /\ x \in Seq(Nat) /\ Len(x) = Len(w) + Len(t)
      /\ \A i \in 1..Len(w) : x[i] = w[i]
      /\ \A i \in 1..Len(t) : x[Len(w) + i] = t[i]
  BY DEF Joined
<1>2. /\ y \in Seq(Nat) /\ Len(y) = Len(x) + Len(k)
      /\ \A i \in 1..Len(x) : y[i] = x[i]
      /\ \A i \in 1..Len(k) : y[Len(x) + i] = k[i]
  BY DEF Joined
<1>4. /\ z \in Seq(Nat) /\ Len(z) = Len(y) + Len(d)
      /\ \A i \in 1..Len(y) : z[i] = y[i]
      /\ \A i \in 1..Len(d) : z[Len(y) + i] = d[i]
  BY DEF Joined
<1>5. Len(t) \in Nat /\ Len(d) \in Nat /\ Len(k) \in Nat
  OBVIOUS
<1>6. Len(x) = 2 + Len(t) /\ Len(y) = 2 + Len(t) + Len(k)
      /\ Len(z) = 2 + Len(t) + Len(k) + Len(d)
  BY <1>1, <1>2, <1>4
<1>7. z[1] = w[1] /\ z[2] = w[2]
  <2>1. /\ 1 \in 1..Len(w) /\ 1 \in 1..Len(x) /\ 1 \in 1..Len(y)
        /\ 2 \in 1..Len(w) /\ 2 \in 1..Len(x) /\ 2 \in 1..Len(y)
    BY <1>5, <1>6
  <2> QED BY <1>1, <1>2, <1>4, <2>1
<1>8. ASSUME NEW i \in 1..Len(t) PROVE z[2 + i] = t[i]
  <2>1. 2 + i \in 1..Len(x) /\ 2 + i \in 1..Len(y)
    BY <1>5, <1>6
  <2>2. z[2 + i] = y[2 + i]
    BY <1>4, <2>1
  <2>3. y[2 + i] = x[2 + i]
    BY <1>2, <2>1
  <2>4. x[2 + i] = t[i]
    BY <1>1
  <2> QED BY <2>2, <2>3, <2>4, Zenon
<1>9. ASSUME NEW i \in 1..Len(k) PROVE z[2 + Len(t) + i] = k[i]
  <2>1. 2 + Len(t) + i \in 1..Len(y)
    BY <1>5, <1>6
  <2> QED BY <1>2, <1>4, <1>6, <2>1
<1>10. ASSUME NEW i \in 1..Len(d) PROVE z[2 + Len(t) + Len(k) + i] = d[i]
  BY <1>4, <1>6
<1> QED BY <1>4, <1>6, <1>7, <1>8, <1>9, <1>10 DEF FourParts

\* That is what \o makes of four.
LEMMA ConcatFour ==
  \A w, t, k, d \in Seq(Nat) : Len(w) = 2 => FourParts(w \o t \o k \o d, w, t, k, d)
<1> SUFFICES ASSUME NEW w \in Seq(Nat), NEW t \in Seq(Nat), NEW k \in Seq(Nat),
                    NEW d \in Seq(Nat), Len(w) = 2
             PROVE  FourParts(w \o t \o k \o d, w, t, k, d)
  OBVIOUS
<1>1. Joined(w \o t, w, t)
  BY ConcatJoins
<1>2. w \o t \in Seq(Nat)
  OBVIOUS
<1>3. Joined(w \o t \o k, w \o t, k)
  BY <1>2, ConcatJoins
<1>4. w \o t \o k \in Seq(Nat)
  BY <1>2
<1>5. Joined(w \o t \o k \o d, w \o t \o k, d)
  BY <1>4, ConcatJoins
<1> QED BY <1>1, <1>3, <1>5, JoinFour

\* The body of a PUBLISH: the topic behind its length, the identifier, the payload.
LEMMA PublishBody ==
  ASSUME NEW p, PacketOK(p), p.type = PUBLISH
  PROVE  /\ Body(p) \in Seq(Nat)
         /\ Len(Body(p)) = 2 + Len(p.topic) + (IF p.qos > 0 THEN 2 ELSE 0) + Len(p.data)
         /\ Body(p)[1] * 2 * Base + Body(p)[2] = Len(p.topic)
         /\ \A i \in 1..Len(p.topic) : Body(p)[2 + i] = p.topic[i]
         /\ p.qos > 0 => Body(p)[2 + Len(p.topic) + 1] * 2 * Base
                           + Body(p)[2 + Len(p.topic) + 2] = p.id
         /\ \A i \in 1..Len(p.data) :
              Body(p)[2 + Len(p.topic) + (IF p.qos > 0 THEN 2 ELSE 0) + i] = p.data[i]
<1>1. Body(p) = Word(Len(p.topic)) \o p.topic \o IdOf(p) \o p.data
  <2>1. Body(p) = Word(Len(p.topic)) \o p.topic
                    \o (IF p.qos > 0 THEN Word(p.id) ELSE <<>>) \o p.data
    <3> DEFINE A == Word(Len(p.topic)) \o p.topic
                      \o (IF p.qos > 0 THEN Word(p.id) ELSE <<>>) \o p.data
               B == Word(p.id) \o Word(Len(p.topic)) \o p.topic \o <<0>>
               C == Word(p.id) \o <<0>>
               D == Word(p.id)
    <3>1. Body(p) = CASE p.type = PUBLISH -> A [] p.type = SUBSCRIBE -> B
                      [] p.type = SUBACK -> C [] OTHER -> D
      BY DEF Body
    <3>2. p.type = PUBLISH /\ p.type # SUBSCRIBE /\ p.type # SUBACK
      BY TypeNumbers
    <3> HIDE DEF A, B, C, D
    <3> QED BY <3>1, <3>2 DEF A
  <2> QED BY <2>1 DEF IdOf
<1>2. /\ p.topic \in Seq(Nat) /\ p.data \in Seq(Nat) /\ p.id \in Nat /\ p.qos \in Nat
      /\ Len(p.topic) \in Nat
  <2>1. p.topic \in Seq(Nat) /\ p.data \in Seq(Nat) /\ p.id \in Nat /\ p.qos \in Nat
    BY DEF PacketOK
  <2> QED BY <2>1
<1>3. /\ Word(Len(p.topic)) \in Seq(Nat) /\ Len(Word(Len(p.topic))) = 2
      /\ Word(Len(p.topic))[1] * 2 * Base + Word(Len(p.topic))[2] = Len(p.topic)
  BY <1>2, WordPair
<1>4. CASE p.qos > 0
  <2>1. IdOf(p) = Word(p.id)
    BY <1>4 DEF IdOf
  <2>2. /\ Word(p.id) \in Seq(Nat) /\ Len(Word(p.id)) = 2
        /\ Word(p.id)[1] * 2 * Base + Word(p.id)[2] = p.id
    BY <1>2, WordPair
  <2>3. /\ Body(p) \in Seq(Nat)
        /\ Len(Body(p)) = 2 + Len(p.topic) + Len(IdOf(p)) + Len(p.data)
        /\ Body(p)[1] = Word(Len(p.topic))[1] /\ Body(p)[2] = Word(Len(p.topic))[2]
        /\ \A i \in 1..Len(p.topic) : Body(p)[2 + i] = p.topic[i]
        /\ \A i \in 1..Len(IdOf(p)) : Body(p)[2 + Len(p.topic) + i] = IdOf(p)[i]
        /\ \A i \in 1..Len(p.data) : Body(p)[2 + Len(p.topic) + Len(IdOf(p)) + i] = p.data[i]
    <3>1. FourParts(Body(p), Word(Len(p.topic)), p.topic, IdOf(p), p.data)
      BY <1>1, <1>2, <1>3, <2>1, <2>2, ConcatFour
    <3> QED BY <3>1 DEF FourParts
  <2>4. Body(p)[2 + Len(p.topic) + 1] = Word(p.id)[1]
        /\ Body(p)[2 + Len(p.topic) + 2] = Word(p.id)[2]
    <3>1. 1 \in 1..Len(IdOf(p)) /\ 2 \in 1..Len(IdOf(p))
      BY <2>1, <2>2
    <3> QED BY <2>1, <2>3, <3>1
  <2>5. Len(IdOf(p)) = 2
    BY <2>1, <2>2
  <2>6. Body(p)[1] * 2 * Base + Body(p)[2] = Len(p.topic)
    BY <1>3, <2>3
  <2>7. Body(p)[2 + Len(p.topic) + 1] * 2 * Base + Body(p)[2 + Len(p.topic) + 2] = p.id
    BY <2>2, <2>4
  <2>8. (IF p.qos > 0 THEN 2 ELSE 0) = 2
    BY <1>4
  <2> QED BY <1>4, <2>3, <2>5, <2>6, <2>7, <2>8
<1>5. CASE ~(p.qos > 0)
  <2>1. IdOf(p) = <<>> /\ <<>> \in Seq(Nat) /\ Len(<<>>) = 0
    BY <1>5 DEF IdOf
  <2>3. /\ Body(p) \in Seq(Nat)
        /\ Len(Body(p)) = 2 + Len(p.topic) + Len(IdOf(p)) + Len(p.data)
        /\ Body(p)[1] = Word(Len(p.topic))[1] /\ Body(p)[2] = Word(Len(p.topic))[2]
        /\ \A i \in 1..Len(p.topic) : Body(p)[2 + i] = p.topic[i]
        /\ \A i \in 1..Len(p.data) : Body(p)[2 + Len(p.topic) + Len(IdOf(p)) + i] = p.data[i]
    <3>1. IdOf(p) \in Seq(Nat)
      BY <2>1
    <3>2. FourParts(Body(p), Word(Len(p.topic)), p.topic, IdOf(p), p.data)
      BY <1>1, <1>2, <1>3, <3>1, ConcatFour
    <3> QED BY <3>2 DEF FourParts
  <2>5. Len(IdOf(p)) = 0
    BY <2>1
  <2>6. Body(p)[1] * 2 * Base + Body(p)[2] = Len(p.topic)
    BY <1>3, <2>3
  <2>8. (IF p.qos > 0 THEN 2 ELSE 0) = 0
    BY <1>5
  <2> QED BY <1>5, <2>3, <2>5, <2>6, <2>8
<1> QED BY <1>4, <1>5

\* The others but SUBSCRIBE, which the client does not get.
LEMMA PlainBody ==
  ASSUME NEW p, PacketOK(p), p.type \notin {PUBLISH, SUBSCRIBE}
  PROVE  /\ Body(p) \in Seq(Nat) /\ Len(Body(p)) = IF p.type = SUBACK THEN 3 ELSE 2
         /\ Body(p)[1] * 2 * Base + Body(p)[2] = p.id
         /\ p.type # SUBACK => Body(p) = Word(p.id)
<1>1. Word(p.id) \in Seq(Nat) /\ Len(Word(p.id)) = 2
      /\ Word(p.id)[1] * 2 * Base + Word(p.id)[2] = p.id
  BY WordPair DEF PacketOK
<1>2. CASE p.type = SUBACK
  <2> DEFINE w == Word(p.id)
             z == w \o <<0>>
  <2>1. Body(p) = z
    BY <1>2, TypeNumbers DEF Body
  <2>2. <<0>> \in Seq(Nat) /\ Len(<<0>>) = 1
    OBVIOUS
  <2> HIDE DEF w
  <2>3. z \in Seq(Nat) /\ Len(z) = Len(w) + 1 /\ \A i \in 1..Len(w) : z[i] = w[i]
    <3>1. w \in Seq(Nat)
      BY <1>1, Zenon DEF w
    <3>2. Joined(z, w, <<0>>)
      BY <2>2, <3>1, ConcatJoins, Zenon
    <3> HIDE DEF z
    <3> QED BY <2>2, <3>2 DEF Joined
  <2> HIDE DEF z
  <2>4. z[1] = w[1] /\ z[2] = w[2] /\ Len(z) = 3
    BY <1>1, <2>3 DEF w
  <2> QED BY <1>1, <1>2, <2>1, <2>3, <2>4 DEF w
<1>3. CASE p.type # SUBACK
  <2>1. Body(p) = Word(p.id)
    BY <1>3 DEF Body
  <2> QED BY <1>1, <1>3, <2>1
<1> QED BY <1>2, <1>3

\* The body of a SUBSCRIBE begins with its identifier.
LEMMA SubscribeBody ==
  ASSUME NEW p, PacketOK(p), p.type = SUBSCRIBE
  PROVE  /\ Body(p) \in Seq(Nat)
         /\ Len(Body(p)) = 5 + Len(Topic)
         /\ Body(p)[1] * 2 * Base + Body(p)[2] = p.id
<1> DEFINE w == Word(p.id)
           v == Word(Len(Topic))
           x == w \o v
           y == x \o Topic
           z == y \o <<0>>
<1>1. Body(p) = z
  <2>1. p.topic = Topic
    BY DEF PacketOK, Packet
  <2> QED BY <2>1, TypeNumbers DEF Body
<1>2. p.id \in Nat /\ Topic \in Seq(Nat) /\ Len(Topic) \in Nat /\ <<0>> \in Seq(Nat)
  BY Lengths DEF PacketOK
<1>3. /\ w \in Seq(Nat) /\ Len(w) = 2 /\ w[1] * 2 * Base + w[2] = p.id
      /\ v \in Seq(Nat) /\ Len(v) = 2
  BY <1>2, WordPair
<1> HIDE DEF w, v, x, y, z
<1>4. x \in Seq(Nat) /\ Len(x) = 4 /\ x[1] = w[1] /\ x[2] = w[2]
  <2>1. x \in Seq(Nat) /\ Len(x) = Len(w) + Len(v) /\ \A i \in 1..Len(w) : x[i] = w[i]
    <3>1. Joined(x, w, v)
      BY <1>3, ConcatJoins, Zenon DEF x
    <3> QED BY <3>1 DEF Joined
  <2> QED BY <1>3, <2>1
<1>5. y \in Seq(Nat) /\ Len(y) = 4 + Len(Topic) /\ y[1] = x[1] /\ y[2] = x[2]
  <2>1. y \in Seq(Nat) /\ Len(y) = Len(x) + Len(Topic) /\ \A i \in 1..Len(x) : y[i] = x[i]
    <3>1. Joined(y, x, Topic)
      BY <1>2, <1>4, ConcatJoins, Zenon DEF y
    <3> QED BY <3>1 DEF Joined
  <2> QED BY <1>4, <2>1
<1>6. z \in Seq(Nat) /\ Len(z) = 5 + Len(Topic) /\ z[1] = y[1] /\ z[2] = y[2]
  <2>1. z \in Seq(Nat) /\ Len(z) = Len(y) + 1 /\ \A i \in 1..Len(y) : z[i] = y[i]
    BY <1>2, <1>5, Behind1 DEF z
  <2> QED BY <1>2, <1>5, <2>1
<1> QED BY <1>1, <1>3, <1>4, <1>5, <1>6

\* Every body has the two bytes of a length or of an identifier.
LEMMA AnyBody ==
  ASSUME NEW p, PacketOK(p)
  PROVE  /\ Body(p) \in Seq(Nat) /\ Len(Body(p)) \in Nat /\ Len(Body(p)) >= 2
         /\ p.type \in Nat /\ p.qos \in 0..2
<1>1. Body(p) \in Seq(Nat) /\ Len(Body(p)) >= 2
  <2>1. CASE p.type = PUBLISH
    <3>1. p.topic \in Seq(Nat) /\ p.data \in Seq(Nat)
      BY DEF PacketOK
    <3>2. Len(p.topic) \in Nat /\ Len(p.data) \in Nat
      BY <3>1
    <3>3. Body(p) \in Seq(Nat)
          /\ Len(Body(p)) = 2 + Len(p.topic) + (IF p.qos > 0 THEN 2 ELSE 0) + Len(p.data)
      BY <2>1, PublishBody
    <3>4. (IF p.qos > 0 THEN 2 ELSE 0) \in {0, 2}
      OBVIOUS
    <3> DEFINE h == IF p.qos > 0 THEN 2 ELSE 0
    <3> HIDE DEF h
    <3>5. h \in Nat /\ Len(Body(p)) = 2 + Len(p.topic) + h + Len(p.data)
      BY <3>3, <3>4 DEF h
    <3>6. \A a, c, l \in Nat : 2 + a + l + c >= 2
      OBVIOUS
    <3>7. Len(Body(p)) >= 2
      BY <3>2, <3>5, <3>6
    <3> QED BY <3>3, <3>7
  <2>2. CASE p.type = SUBSCRIBE
    BY <2>2, SubscribeBody, Lengths
  <2>3. CASE p.type \notin {PUBLISH, SUBSCRIBE}
    BY <2>3, PlainBody
  <2> QED BY <2>1, <2>2, <2>3
<1>2. p.type \in Nat /\ p.qos \in 0..2
  BY TypeNumbers DEF PacketOK, Types
<1> QED BY <1>1, <1>2

\* Where the remaining length of a packet ends.
EndOf(p) == IF Len(Body(p)) < Base THEN 2 ELSE 3

\* What the cells of a packet hold.
Cells(m, p) ==
  /\ m[1] = 4 * p.type + p.qos
  /\ Len(Body(p)) < Base => m[2] = Len(Body(p))
  /\ ~(Len(Body(p)) < Base) => /\ m[2] = Base + (Len(Body(p)) % Base)
                               /\ m[3] = Len(Body(p)) \div Base
  /\ \A i \in 1..Len(Body(p)) : m[EndOf(p) + i] = Body(p)[i]

\* The bytes of a packet: its header, the digits of its length, its body.
LEMMA WireCells ==
  ASSUME NEW p, PacketOK(p)
  PROVE  /\ Wire(p) \in Seq(Nat) /\ Len(Wire(p)) = EndOf(p) + Len(Body(p))
         /\ Cells(Wire(p), p)
<1> DEFINE b == Body(p)
           n == Len(b)
           g == Digits(n)
           h == <<Header(p.type, p.qos)>>
<1>1. b \in Seq(Nat) /\ n \in Nat /\ n >= 2 /\ p.type \in Nat /\ p.qos \in Nat
  BY AnyBody
<1>2. Base \in Nat /\ Base > 0
  BY Numbers
<1>3. n % Base \in Nat /\ n \div Base \in Nat
  BY <1>1, <1>2, DivMod
<1>4. h \in Seq(Nat) /\ Len(h) = 1 /\ h[1] = 4 * p.type + p.qos
  BY <1>1 DEF Header
<1>5. g \in Seq(Nat) /\ 1 + Len(g) = EndOf(p)
      /\ (n < Base => Len(g) = 1 /\ g[1] = n)
      /\ (~(n < Base) => Len(g) = 2 /\ g[1] = Base + (n % Base) /\ g[2] = n \div Base)
  <2>1. CASE n < Base
    <3>1. g = <<n>>
      BY <2>1 DEF Digits
    <3> HIDE DEF g, n
    <3>2. EndOf(p) = 2
      BY <2>1 DEF EndOf, n
    <3> QED BY <1>1, <2>1, <3>1, <3>2
  <2>2. CASE ~(n < Base)
    <3> DEFINE u == Base + (n % Base)
               v == n \div Base
    <3>1. g = <<u, v>>
      BY <2>2 DEF Digits
    <3>2. u \in Nat /\ v \in Nat
      BY <1>2, <1>3
    <3> HIDE DEF g, n, u, v
    <3>3. EndOf(p) = 3
      BY <2>2 DEF EndOf, n
    <3>4. g \in Seq(Nat) /\ Len(g) = 2 /\ g[1] = u /\ g[2] = v
      BY <3>1, <3>2
    <3> QED BY <2>2, <3>3, <3>4 DEF u, v
  <2> QED BY <2>1, <2>2
<1>6. Wire(p) = h \o g \o b
  BY DEF Wire
<1> HIDE DEF b, n, g, h
<1>7. Joined(h \o g, h, g) /\ h \o g \in Seq(Nat)
  <2>1. Joined(h \o g, h, g)
    BY <1>4, <1>5, ConcatJoins
  <2> QED BY <2>1 DEF Joined
<1>8. Joined(Wire(p), h \o g, b)
  BY <1>1, <1>6, <1>7, ConcatJoins
<1> DEFINE x == h \o g
           m == Wire(p)
<1> HIDE DEF x, m
<1>9. /\ Len(x) = 1 + Len(g) /\ x[1] = h[1]
      /\ \A i \in 1..Len(g) : x[1 + i] = g[i]
  BY <1>4, <1>7 DEF Joined, x
<1>10. /\ m \in Seq(Nat) /\ Len(m) = Len(x) + Len(b)
       /\ \A i \in 1..Len(x) : m[i] = x[i]
       /\ \A i \in 1..Len(b) : m[Len(x) + i] = b[i]
  BY <1>8 DEF Joined, x, m
<1>11. m \in Seq(Nat) /\ Len(m) = EndOf(p) + n /\ EndOf(p) \in Nat
       /\ \A i \in 1..n : m[EndOf(p) + i] = b[i]
  <2>1. EndOf(p) = 2 \/ EndOf(p) = 3
    BY DEF EndOf
  <2>2. Len(x) = EndOf(p)
    BY <1>5, <1>9, <2>1
  <2> QED BY <1>10, <2>1, <2>2 DEF n
<1>12. m[1] = 4 * p.type + p.qos
  <2>1. 1 \in 1..Len(x)
    BY <1>5, <1>9 DEF EndOf
  <2> QED BY <1>4, <1>9, <1>10, <2>1
<1>13. n < Base => m[2] = n
  <2> SUFFICES ASSUME n < Base PROVE m[2] = n
    OBVIOUS
  <2>1. Len(g) = 1 /\ g[1] = n
    BY <1>5
  <2>2. 1 \in 1..Len(g) /\ 2 \in 1..Len(x) /\ 1 + 1 = 2
    BY <1>9, <2>1
  <2> QED BY <1>9, <1>10, <2>1, <2>2
<1>14. ~(n < Base) => m[2] = Base + (n % Base) /\ m[3] = n \div Base
  <2> SUFFICES ASSUME ~(n < Base) PROVE m[2] = Base + (n % Base) /\ m[3] = n \div Base
    OBVIOUS
  <2> DEFINE u == Base + (n % Base)
             v == n \div Base
  <2>1. Len(g) = 2 /\ g[1] = u /\ g[2] = v
    BY <1>5
  <2> HIDE DEF u, v
  <2>2. 1 \in 1..Len(g) /\ 2 \in 1..Len(g) /\ 2 \in 1..Len(x) /\ 3 \in 1..Len(x)
        /\ 1 + 1 = 2 /\ 1 + 2 = 3
    BY <1>9, <2>1
  <2>3. m[2] = u /\ m[3] = v
    BY <1>9, <1>10, <2>1, <2>2
  <2> QED BY <2>3 DEF u, v
<1> QED BY <1>11, <1>12, <1>13, <1>14 DEF Cells, m, n, b

-----------------------------------------------------------------------------
(* What is found in a buffer.                                              *)

\* A buffer begins with a packet.
Begins(buffer, p) == /\ PacketOK(p) /\ Len(Wire(p)) <= BufSize
                     /\ \A i \in 1..Len(Wire(p)) : buffer[i] = Wire(p)[i]

\* A buffer that begins with a packet holds its bytes in the same places, and a
\* remaining length of two digits.
LEMMA BufferCells ==
  ASSUME NEW p, NEW buffer, Begins(buffer, p)
  PROVE  Cells(buffer, p) /\ Len(Body(p)) < Base * Base
<1>1. PacketOK(p) /\ \A i \in 1..Len(Wire(p)) : buffer[i] = Wire(p)[i]
  BY DEF Begins
<1>2. Len(Wire(p)) = EndOf(p) + Len(Body(p)) /\ Cells(Wire(p), p)
  BY <1>1, WireCells
<1>3. Len(Body(p)) \in Nat /\ Len(Body(p)) >= 2 /\ EndOf(p) \in {2, 3}
  BY <1>1, AnyBody DEF EndOf
<1>4. \A i \in 1..Len(Body(p)) : EndOf(p) + i \in 1..Len(Wire(p))
  BY <1>2, <1>3
<1>5. 1 \in 1..Len(Wire(p)) /\ 2 \in 1..Len(Wire(p)) /\ 3 \in 1..Len(Wire(p))
  BY <1>2, <1>3
<1>6. Cells(buffer, p)
  BY <1>1, <1>2, <1>4, <1>5, Zenon DEF Cells
<1>7. Len(Wire(p)) <= Base * Base
  <2>1. Len(Wire(p)) <= BufSize /\ Len(Wire(p)) \in Nat
    BY <1>2, <1>3 DEF Begins
  <2> QED BY <2>1, Numbers
<1> QED BY <1>2, <1>3, <1>6, <1>7, Numbers

\* The first byte.
LEMMA HeaderFound ==
  ASSUME NEW p, NEW buffer, Begins(buffer, p)
  PROVE  mqtt_get_type(buffer) = p.type /\ mqtt_get_qos(buffer) = p.qos
<1>1. buffer[1] = 4 * p.type + p.qos
  BY BufferCells DEF Cells
<1>2. p.type \in Nat /\ p.qos \in 0..2
  BY AnyBody DEF Begins
<1>3. \A t \in Nat, q \in 0..2 : (4 * t + q) \div 4 = t
  OBVIOUS
<1>4. \A t \in Nat, q \in 0..2 : (4 * t + q) % 4 = q
  OBVIOUS
<1> QED BY <1>1, <1>2, <1>3, <1>4 DEF mqtt_get_type, mqtt_get_qos

\* The digits of the remaining length end where those of the packet end.
LEMMA EndFound ==
  ASSUME NEW p, NEW buffer, NEW length \in Nat, Begins(buffer, p), length >= Len(Wire(p))
  PROVE  EndOfLength(buffer, length) = EndOf(p)
<1> DEFINE n == Len(Body(p))
           last == {i \in 1..length - 1 : buffer[i + 1] < Base}
           c == CHOOSE x \in last : \A y \in last : x <= y
<1>1. n \in Nat /\ n >= 2 /\ n < Base * Base /\ Cells(buffer, p) /\ Base \in Nat /\ Base > 0
  BY BufferCells, AnyBody, Numbers DEF Begins
<1>2. length >= EndOf(p) + n
  BY WireCells DEF Begins
<1> HIDE DEF n, c
<1>3. last # {} /\ c + 1 = EndOf(p)
  <2>1. CASE n < Base
    <3>1. buffer[1 + 1] = n /\ EndOf(p) = 2
      BY <1>1, <2>1 DEF Cells, EndOf, n
    <3>2. 1 \in last
      BY <1>1, <1>2, <2>1, <3>1
    <3>3. \A y \in last : 1 <= y
      OBVIOUS
    <3>4. \A x \in last : (\A y \in last : x <= y) => x = 1
      BY <3>2, <3>3
    <3> HIDE DEF last
    <3>5. c = 1
      BY <3>2, <3>3, <3>4 DEF c
    <3> QED BY <3>1, <3>2, <3>5
  <2>2. CASE ~(n < Base)
    <3> DEFINE u == n % Base
               v == n \div Base
    <3>0. buffer[2] = Base + u /\ buffer[3] = v /\ EndOf(p) = 3
      BY <1>1, <2>2 DEF Cells, EndOf, n
    <3>1. u \in Nat /\ v \in Nat /\ v < Base
      BY <1>1, DivMod
    <3> HIDE DEF u, v
    <3>2. 2 \in last /\ 1 \notin last
      <4>1. ~(buffer[1 + 1] < Base)
        BY <1>1, <3>0, <3>1
      <4>2. buffer[2 + 1] < Base
        BY <3>0, <3>1
      <4>3. 2 \in 1..length - 1
        BY <1>1, <1>2, <3>0
      <4> QED BY <4>1, <4>2, <4>3
    <3>3. \A y \in last : 2 <= y
      BY <3>2
    <3>4. \A x \in last : (\A y \in last : x <= y) => x = 2
      BY <3>2, <3>3
    <3> HIDE DEF last
    <3>5. c = 2
      BY <3>2, <3>3, <3>4 DEF c
    <3> QED BY <3>0, <3>2, <3>5
  <2> QED BY <2>1, <2>2
<1>4. EndOfLength(buffer, length) = Min(last) + 1
  <2>1. EndOfLength(buffer, length) =
          IF last # {} THEN Min(last) + 1 ELSE IF length > 1 THEN length ELSE 1
    BY DEF EndOfLength
  <2> QED BY <1>3, <2>1
<1>5. Min(last) = c
  BY DEF Min, c
<1> QED BY <1>3, <1>4, <1>5

\* mqtt_get_total_length finds where the packet ends, whatever is behind it.
LEMMA TotalFound ==
  ASSUME NEW p, NEW buffer, NEW length \in Nat, Begins(buffer, p), length >= Len(Wire(p))
  PROVE  mqtt_get_total_length(buffer, length) = Len(Wire(p))
<1> DEFINE n == Len(Body(p))
           end == EndOf(p)
           Digit(i) == buffer[i + 1] % Base
           digits[i \in 1..end] ==
             IF i = end THEN 0 ELSE (buffer[i + 1] % Base) + Base * digits[i + 1]
<1>1. n \in Nat /\ n >= 2 /\ n < Base * Base /\ Cells(buffer, p) /\ Base \in Nat /\ Base > 0
  BY BufferCells, AnyBody, Numbers DEF Begins
<1>2. Len(Wire(p)) = end + n
  BY WireCells DEF Begins
<1>3. mqtt_get_total_length(buffer, length) = end + digits[1]
  <2> DEFINE Total(e) == LET d[i \in 1..e] ==
                               IF i = e THEN 0 ELSE (buffer[i + 1] % Base) + Base * d[i + 1]
                         IN  e + d[1]
  <2>1. mqtt_get_total_length(buffer, length) = Total(EndOfLength(buffer, length))
    BY DEF mqtt_get_total_length
  <2>2. EndOfLength(buffer, length) = end
    BY EndFound
  <2>3. Total(end) = end + digits[1]
    OBVIOUS
  <2> HIDE DEF Total
  <2> QED BY <2>1, <2>2, <2>3
<1> DEFINE f == digits
           Good(g) == g = [i \in 1..end |-> IF i = end THEN 0
                             ELSE (buffer[i + 1] % Base) + Base * g[i + 1]]
<1>4. f = CHOOSE g : Good(g)
  OBVIOUS
<1> HIDE DEF f, n
<1>5. f[1] = n
  <2>1. CASE n < Base
    <3>1. buffer[2] = n /\ end = 2
      BY <1>1, <2>1 DEF Cells, EndOf, n
    <3>2. n % Base = n
      BY <1>1, <2>1
    <3> DEFINE w == [i \in 1..2 |-> IF i = 2 THEN 0 ELSE n]
    <3>3. w[1] = n /\ w[2] = 0
      OBVIOUS
    <3>4. Good(w)
      <4>1. w = [i \in 1..2 |-> IF i = 2 THEN 0 ELSE (buffer[i + 1] % Base) + Base * w[i + 1]]
        <5> SUFFICES ASSUME NEW i \in 1..2
                     PROVE  (IF i = 2 THEN 0 ELSE n)
                            = IF i = 2 THEN 0 ELSE (buffer[i + 1] % Base) + Base * w[i + 1]
          OBVIOUS
        <5>1. CASE i = 1
          <6>1. (buffer[i + 1] % Base) + Base * w[i + 1] = n + Base * 0
            BY <3>1, <3>2, <3>3, <5>1
          <6>2. n + Base * 0 = n
            BY <1>1
          <6> QED BY <5>1, <6>1, <6>2
        <5> QED BY <5>1
      <4> QED BY <3>1, <4>1
    <3>5. ASSUME NEW g, Good(g) PROVE g[1] = n
      <4>1. g = [i \in 1..2 |-> IF i = 2 THEN 0 ELSE (buffer[i + 1] % Base) + Base * g[i + 1]]
        BY <3>1, <3>5
      <4>2. g[2] = 0
        BY <4>1
      <4>3. g[1] = (buffer[1 + 1] % Base) + Base * g[1 + 1]
        BY <4>1
      <4>4. n + Base * 0 = n
        BY <1>1
      <4> QED BY <3>1, <3>2, <4>2, <4>3, <4>4
    <3> HIDE DEF Good
    <3> QED BY <1>4, <3>4, <3>5
  <2>2. CASE ~(n < Base)
    <3> DEFINE u == n % Base
               v == n \div Base
    <3>0. buffer[2] = Base + u /\ buffer[3] = v /\ end = 3
      BY <1>1, <2>2 DEF Cells, EndOf, n
    <3>1. u \in Nat /\ u < Base /\ v \in Nat /\ v < Base /\ v * Base + u = n
      BY <1>1, DivMod
    <3>2. v % Base = v
      <4> HIDE DEF v
      <4> QED BY <1>1, <3>1
    <3> HIDE DEF u, v
    <3>3. (Base + u) % Base = u
      BY <1>1, <3>1
    <3>4. u + Base * v = n /\ v + Base * 0 = v
      BY <1>1, <3>1
    <3> DEFINE w == [i \in 1..3 |-> IF i = 3 THEN 0 ELSE IF i = 2 THEN v ELSE n]
    <3>5. w[1] = n /\ w[2] = v /\ w[3] = 0
      OBVIOUS
    <3>6. Good(w)
      <4>1. w = [i \in 1..3 |-> IF i = 3 THEN 0 ELSE (buffer[i + 1] % Base) + Base * w[i + 1]]
        <5> SUFFICES ASSUME NEW i \in 1..3
                     PROVE  (IF i = 3 THEN 0 ELSE IF i = 2 THEN v ELSE n)
                            = IF i = 3 THEN 0 ELSE (buffer[i + 1] % Base) + Base * w[i + 1]
          OBVIOUS
        <5>1. CASE i = 1
          <6>1. (buffer[i + 1] % Base) + Base * w[i + 1] = u + Base * v
            BY <3>0, <3>3, <3>5, <5>1
          <6> QED BY <3>4, <5>1, <6>1
        <5>2. CASE i = 2
          <6>1. (buffer[i + 1] % Base) + Base * w[i + 1] = v + Base * 0
            BY <3>0, <3>2, <3>5, <5>2
          <6> QED BY <3>4, <5>2, <6>1
        <5> QED BY <5>1, <5>2
      <4> QED BY <3>0, <4>1
    <3>7. ASSUME NEW g, Good(g) PROVE g[1] = n
      <4>1. g = [i \in 1..3 |-> IF i = 3 THEN 0 ELSE (buffer[i + 1] % Base) + Base * g[i + 1]]
        BY <3>0, <3>7
      <4>2. g[3] = 0
        BY <4>1
      <4>3. g[2] = (buffer[2 + 1] % Base) + Base * g[2 + 1]
        BY <4>1
      <4>4. g[2] = v
        BY <3>0, <3>2, <3>4, <4>2, <4>3
      <4>5. g[1] = (buffer[1 + 1] % Base) + Base * g[1 + 1]
        BY <4>1
      <4> QED BY <3>0, <3>3, <3>4, <4>4, <4>5
    <3> HIDE DEF Good
    <3> QED BY <1>4, <3>6, <3>7
  <2> QED BY <2>1, <2>2
<1> QED BY <1>2, <1>3, <1>5 DEF f, n

\* A part of a buffer that holds a sequence.
LEMMA PartIs ==
  ASSUME NEW buffer, NEW at \in Nat, NEW s \in Seq(Nat),
         \A i \in 1..Len(s) : buffer[at + i] = s[i]
  PROVE  SubSeq(buffer, at + 1, at + Len(s)) = s
<1> DEFINE c == SubSeq(buffer, at + 1, at + Len(s))
<1>1. Len(s) \in Nat /\ \A i \in 1..Len(s) : s[i] \in Nat
  OBVIOUS
<1>2. \A j \in at + 1..at + Len(s) : buffer[j] \in Nat
  <2> SUFFICES ASSUME NEW j \in at + 1..at + Len(s) PROVE buffer[j] \in Nat
    OBVIOUS
  <2>1. j - at \in 1..Len(s) /\ at + (j - at) = j
    BY <1>1
  <2> QED BY <1>1, <2>1
<1>3. /\ c \in Seq(Nat)
      /\ Len(c) = IF at + 1 <= at + Len(s) THEN at + Len(s) - (at + 1) + 1 ELSE 0
      /\ \A i \in 1..at + Len(s) - (at + 1) + 1 : c[i] = buffer[at + 1 + i - 1]
  BY <1>1, <1>2, SubSeqProperties
<1> HIDE DEF c
<1>4. Len(c) = Len(s)
  BY <1>1, <1>3
<1>5. ASSUME NEW i \in 1..Len(c) PROVE c[i] = s[i]
  <2>1. i \in 1..at + Len(s) - (at + 1) + 1 /\ at + 1 + i - 1 = at + i /\ i \in 1..Len(s)
    BY <1>1, <1>4
  <2> QED BY <1>3, <2>1
<1> QED BY <1>3, <1>4, <1>5, SeqEqual DEF c

\* Where the parts of a PUBLISH are.
LEMMA PublishCells ==
  ASSUME NEW p, NEW buffer, Begins(buffer, p), p.type = PUBLISH
  PROVE  LET e == EndOf(p)
             t == Len(p.topic)
             h == IF p.qos > 0 THEN 2 ELSE 0
         IN  /\ e \in {2, 3} /\ t \in Nat \ {0} /\ Len(p.data) \in Nat
             /\ Len(Wire(p)) = e + 2 + t + h + Len(p.data)
             /\ Pair(buffer, e) = t
             /\ \A i \in 1..t : buffer[e + 2 + i] = p.topic[i]
             /\ p.qos > 0 => Pair(buffer, e + 2 + t) = p.id
             /\ \A i \in 1..Len(p.data) : buffer[e + 2 + t + h + i] = p.data[i]
<1> DEFINE e == EndOf(p)
           t == Len(p.topic)
           d == Len(p.data)
           h == IF p.qos > 0 THEN 2 ELSE 0
           b == Body(p)
           n == Len(b)
<1>0. PacketOK(p)
  BY DEF Begins
<1>1. e \in {2, 3} /\ t \in Nat \ {0} /\ d \in Nat /\ h \in {0, 2}
  BY <1>0, Lengths DEF EndOf, PacketOK
<1>2. Len(Wire(p)) = e + n
  BY <1>0, WireCells
<1>3. \A i \in 1..n : buffer[e + i] = b[i]
  BY BufferCells DEF Cells
<1>4. /\ n = 2 + t + h + d
      /\ b[1] * 2 * Base + b[2] = t
      /\ \A i \in 1..t : b[2 + i] = p.topic[i]
      /\ p.qos > 0 => b[2 + t + 1] * 2 * Base + b[2 + t + 2] = p.id
      /\ \A i \in 1..d : b[2 + t + h + i] = p.data[i]
  BY <1>0, PublishBody
<1>h. p.qos > 0 => h = 2
  OBVIOUS
<1> HIDE DEF e, t, d, h, b, n
<1>5. Pair(buffer, e) = t
  <2>1. 1 \in 1..n /\ 2 \in 1..n
    BY <1>1, <1>4
  <2>2. buffer[e + 1] = b[1] /\ buffer[e + 2] = b[2]
    BY <1>3, <2>1
  <2> QED BY <1>4, <2>2 DEF Pair
<1>6. ASSUME NEW i \in 1..t PROVE buffer[e + 2 + i] = p.topic[i]
  <2>1. 2 + i \in 1..n /\ e + (2 + i) = e + 2 + i
    BY <1>1, <1>4
  <2> QED BY <1>3, <1>4, <2>1
<1>7. ASSUME p.qos > 0 PROVE Pair(buffer, e + 2 + t) = p.id
  <2>1. 2 + t + 1 \in 1..n /\ 2 + t + 2 \in 1..n
        /\ e + (2 + t + 1) = e + 2 + t + 1 /\ e + (2 + t + 2) = e + 2 + t + 2
    BY <1>1, <1>4, <1>7, <1>h
  <2>2. buffer[e + 2 + t + 1] = b[2 + t + 1] /\ buffer[e + 2 + t + 2] = b[2 + t + 2]
    BY <1>3, <2>1
  <2> QED BY <1>4, <1>7, <2>2 DEF Pair
<1>8. ASSUME NEW i \in 1..d PROVE buffer[e + 2 + t + h + i] = p.data[i]
  <2>1. 2 + t + h + i \in 1..n /\ e + (2 + t + h + i) = e + 2 + t + h + i
    BY <1>1, <1>4
  <2> QED BY <1>3, <1>4, <2>1
<1>9. Len(Wire(p)) = e + 2 + t + h + d
  BY <1>1, <1>2, <1>4
<1> QED BY <1>1, <1>5, <1>6, <1>7, <1>8, <1>9 DEF e, t, d, h

\* What dataCb gets is what was published.
LEMMA DeliverFound ==
  ASSUME NEW p, NEW buffer, NEW length \in Nat, Begins(buffer, p), length >= Len(Wire(p)),
         p.type = PUBLISH
  PROVE  deliver_publish(buffer, length) = [topic |-> p.topic, data |-> p.data]
<1> DEFINE e == EndOf(p)
           t == Len(p.topic)
           d == Len(p.data)
           h == IF p.qos > 0 THEN 2 ELSE 0
           topic == mqtt_get_publish_topic(buffer, length)
           data == mqtt_get_publish_data(buffer, length)
<1>0. p.topic \in Seq(Nat) /\ p.data \in Seq(Nat)
  BY DEF Begins, PacketOK
<1> HIDE DEF topic, data
<1>1. /\ e \in {2, 3} /\ t \in Nat \ {0} /\ d \in Nat
      /\ Len(Wire(p)) = e + 2 + t + h + d
      /\ Pair(buffer, e) = t
      /\ \A i \in 1..t : buffer[e + 2 + i] = p.topic[i]
      /\ \A i \in 1..d : buffer[e + 2 + t + h + i] = p.data[i]
  BY PublishCells, ZenonT(60)
<1>2. EndOfLength(buffer, length) = e /\ mqtt_get_total_length(buffer, length) = Len(Wire(p))
      /\ mqtt_get_qos(buffer) = p.qos
  BY EndFound, TotalFound, HeaderFound
<1>h. h \in {0, 2} /\ (p.qos > 0 => h = 2) /\ (~(p.qos > 0) => h = 0)
  OBVIOUS
<1> HIDE DEF e, t, d, h
<1>3. topic = [at |-> e + 2, length |-> t]
  <2>1. ~(e + 2 >= length) /\ ~(e + 2 + t > length)
    BY <1>1, <1>h
  <2> QED BY <1>1, <1>2, <2>1 DEF mqtt_get_publish_topic, topic
<1>4. data = [at |-> e + 2 + t + h, length |-> d] \/ (d = 0 /\ data = Null)
  <2> DEFINE start == IF p.qos > 0 THEN e + 2 + t + 2 ELSE e + 2 + t
             total == Len(Wire(p))
  <2>1. start = e + 2 + t + h
    BY <1>1, <1>h
  <2>2. data = IF \/ e + 2 >= length \/ e + 2 + t >= length
                  \/ p.qos > 0 /\ start >= length
                  \/ total < start
               THEN Null
               ELSE [at |-> start,
                     length |-> (IF total <= length THEN total ELSE length) - start]
    BY <1>1, <1>2 DEF mqtt_get_publish_data, data
  <2>3. total = start + d /\ start \in Nat /\ total <= length
    <3>1. start = e + 2 + t + h /\ total = e + 2 + t + h + d /\ total <= length
      BY <1>1, <2>1, Zenon
    <3>2. e \in Nat /\ t \in Nat /\ h \in Nat /\ d \in Nat
      BY <1>1, <1>h
    <3> HIDE DEF start, total
    <3> QED BY <3>1, <3>2
  <2> HIDE DEF start, total
  <2>4. CASE \/ e + 2 >= length \/ e + 2 + t >= length
             \/ p.qos > 0 /\ start >= length
             \/ total < start
    <3>1. data = Null
      BY <2>2, <2>4
    <3>2. d = 0
      BY <1>1, <1>h, <2>1, <2>3, <2>4
    <3> QED BY <3>1, <3>2
  <2>5. CASE ~(\/ e + 2 >= length \/ e + 2 + t >= length
               \/ p.qos > 0 /\ start >= length
               \/ total < start)
    <3>1. data = [at |-> start, length |-> (IF total <= length THEN total ELSE length) - start]
      BY <2>2, <2>5
    <3> DEFINE X == IF total <= length THEN total ELSE length
    <3>2. X = start + d
      BY <2>3
    <3> HIDE DEF X
    <3>3. X - start = d
      BY <1>1, <2>3, <3>2
    <3>4. data = [at |-> start, length |-> X - start]
      BY <3>1 DEF X
    <3>5. data = [at |-> start, length |-> d]
      BY <3>3, <3>4, Zenon
    <3>6. data = [at |-> e + 2 + t + h, length |-> d]
      BY <2>1, <3>5, Zenon
    <3> QED BY <3>6
  <2> QED BY <2>4, <2>5
<1>5. SubSeq(buffer, topic.at + 1, topic.at + topic.length) = p.topic
  <2>1. topic.at = e + 2 /\ topic.length = t /\ e + 2 \in Nat
    BY <1>1, <1>3
  <2>2. SubSeq(buffer, e + 2 + 1, e + 2 + t) = p.topic
    <3>1. \A i \in 1..Len(p.topic) : buffer[(e + 2) + i] = p.topic[i]
      BY <1>1 DEF t
    <3>2. SubSeq(buffer, (e + 2) + 1, (e + 2) + Len(p.topic)) = p.topic
      BY <1>0, <2>1, <3>1, PartIs, Zenon
    <3> QED BY <3>2 DEF t
  <2> QED BY <2>1, <2>2
<1>6. SubSeq(buffer, data.at + 1, data.at + data.length) = p.data
  <2>1. CASE data = [at |-> e + 2 + t + h, length |-> d]
    <3>1. data.at = e + 2 + t + h /\ data.length = d /\ e + 2 + t + h \in Nat
      BY <1>1, <1>h, <2>1
    <3>2. SubSeq(buffer, e + 2 + t + h + 1, e + 2 + t + h + d) = p.data
      <4>1. \A i \in 1..Len(p.data) : buffer[(e + 2 + t + h) + i] = p.data[i]
        BY <1>1 DEF d
      <4>2. SubSeq(buffer, (e + 2 + t + h) + 1, (e + 2 + t + h) + Len(p.data)) = p.data
        BY <1>0, <3>1, <4>1, PartIs, Zenon
      <4> QED BY <4>2 DEF d
    <3> QED BY <3>1, <3>2
  <2>2. CASE d = 0 /\ data = Null
    <3>1. data.at = 0 /\ data.length = 0
      BY <2>2 DEF Null
    <3>2. p.data = <<>>
      BY <1>0, <2>2 DEF d
    <3>3. SubSeq(buffer, 0 + 1, 0 + 0) = <<>>
      BY SubSeqEmpty
    <3> QED BY <3>1, <3>2, <3>3
  <2> QED BY <1>4, <2>1, <2>2
<1> QED BY <1>5, <1>6 DEF deliver_publish, topic, data

\* The identifier of a packet that is answered.
LEMMA IdFound ==
  ASSUME NEW p, NEW buffer, Begins(buffer, p), Len(Wire(p)) < BufSize,
         p.type \in {PUBREC, PUBREL} \/ (p.type = PUBLISH /\ p.qos > 0)
  PROVE  mqtt_get_id(buffer, BufSize) = p.id
<1>1. mqtt_get_type(buffer) = p.type /\ mqtt_get_qos(buffer) = p.qos
  BY HeaderFound
<1>2. EndOfLength(buffer, BufSize) = EndOf(p) /\ BufSize \in Nat
  <2>1. BufSize \in Nat /\ Len(Wire(p)) \in Nat /\ BufSize >= Len(Wire(p))
    BY Numbers, WireCells, AnyBody DEF Begins, EndOf
  <2> QED BY <2>1, EndFound
<1>3. CASE p.type = PUBLISH /\ p.qos > 0
  <2> DEFINE e == EndOf(p)
             t == Len(p.topic)
             d == Len(p.data)
  <2>1. /\ e \in {2, 3} /\ t \in Nat \ {0} /\ d \in Nat
        /\ Len(Wire(p)) = e + 2 + t + 2 + d
        /\ Pair(buffer, e) = t
        /\ Pair(buffer, e + 2 + t) = p.id
    BY <1>3, PublishCells
  <2> HIDE DEF e, t, d
  <2>2. ~(BufSize < 1) /\ ~(e + 2 >= BufSize) /\ ~(e + 2 + t >= BufSize)
        /\ ~(e + 2 + t + 2 >= BufSize) /\ p.qos # 0
    BY <1>2, <1>3, <2>1
  <2>3. EndOfLength(buffer, BufSize) = e
    BY <1>2 DEF e
  <2> DEFINE A == IF \/ e + 2 >= BufSize \/ e + 2 + t >= BufSize
                    \/ p.qos = 0 \/ e + 2 + t + 2 >= BufSize
                  THEN 0 ELSE Pair(buffer, e + 2 + t)
             B == IF BufSize >= 4 /\ buffer[2] < Base THEN Pair(buffer, 2) ELSE 0
  <2>4. mqtt_get_id(buffer, BufSize) =
          CASE BufSize < 1 -> 0
            [] p.type = PUBLISH -> A
            [] p.type \in {PUBACK, PUBREC, PUBREL, PUBCOMP, SUBACK, UNSUBACK, SUBSCRIBE} -> B
            [] OTHER -> 0
    BY <1>1, <2>1, <2>3 DEF mqtt_get_id
  <2>5. A = p.id
    BY <2>1, <2>2
  <2>6. p.type = PUBLISH
        /\ p.type \notin {PUBACK, PUBREC, PUBREL, PUBCOMP, SUBACK, UNSUBACK, SUBSCRIBE}
    BY <1>3, TypeNumbers
  <2> HIDE DEF A, B
  <2> QED BY <2>2, <2>4, <2>5, <2>6
<1>4. CASE p.type \in {PUBREC, PUBREL}
  <2>0. PacketOK(p) /\ p.type \notin {PUBLISH, SUBSCRIBE, SUBACK}
    BY <1>4, TypeNumbers DEF Begins
  <2>1. /\ Len(Body(p)) = 2
        /\ Body(p)[1] * 2 * Base + Body(p)[2] = p.id
    BY <2>0, PlainBody
  <2>2. Base \in Nat /\ Base > 2
    BY Numbers
  <2>3. EndOf(p) = 2 /\ Cells(buffer, p)
    BY <2>1, <2>2, BufferCells DEF EndOf
  <2>4. buffer[2] = 2 /\ buffer[2 + 1] = Body(p)[1] /\ buffer[2 + 2] = Body(p)[2]
    BY <2>1, <2>2, <2>3 DEF Cells
  <2>5. BufSize >= 4 /\ ~(BufSize < 1)
    <3>1. Len(Wire(p)) = EndOf(p) + Len(Body(p))
      BY <2>0, WireCells
    <3>2. BufSize \in Nat /\ 4 < BufSize
      BY <2>1, <2>3, <3>1, Numbers
    <3> QED BY <3>2
  <2>6. Pair(buffer, 2) = p.id
    BY <2>1, <2>4 DEF Pair
  <2>7. buffer[2] < Base
    BY <2>2, <2>4
  <2> DEFINE A == LET topic == EndOf(p) + 2 + Pair(buffer, EndOf(p))
                  IN  IF \/ EndOf(p) + 2 >= BufSize \/ topic >= BufSize
                         \/ p.qos = 0 \/ topic + 2 >= BufSize
                      THEN 0 ELSE Pair(buffer, topic)
             B == IF BufSize >= 4 /\ buffer[2] < Base THEN Pair(buffer, 2) ELSE 0
  <2>8. mqtt_get_id(buffer, BufSize) =
          CASE BufSize < 1 -> 0
            [] p.type = PUBLISH -> A
            [] p.type \in {PUBACK, PUBREC, PUBREL, PUBCOMP, SUBACK, UNSUBACK, SUBSCRIBE} -> B
            [] OTHER -> 0
    BY <1>1, <1>2 DEF mqtt_get_id
  <2>9. B = p.id
    BY <2>5, <2>6, <2>7
  <2>10. p.type # PUBLISH
         /\ p.type \in {PUBACK, PUBREC, PUBREL, PUBCOMP, SUBACK, UNSUBACK, SUBSCRIBE}
    BY <1>4, <2>0
  <2> HIDE DEF A, B
  <2> QED BY <2>5, <2>8, <2>9, <2>10
<1> QED BY <1>3, <1>4

\* The CONNACK accepts.
LEMMA AcceptFound ==
  ASSUME NEW p, NEW buffer, Begins(buffer, p), p.type = CONNACK
  PROVE  buffer[4] = 0
<1>0. PacketOK(p) /\ p.type \notin {PUBLISH, SUBSCRIBE, SUBACK} /\ p.id = 0
  BY TypeNumbers DEF Begins, PacketOK
<1>1. Len(Body(p)) = 2 /\ Body(p) = Word(0)
  BY <1>0, PlainBody
<1>2. Base \in Nat /\ Base > 2 /\ 2 * Base \in Nat /\ 2 * Base > 0
  BY Numbers
<1>3. EndOf(p) = 2 /\ Cells(buffer, p)
  BY <1>1, <1>2, BufferCells DEF EndOf
<1>4. buffer[2 + 2] = Body(p)[2]
  BY <1>1, <1>3 DEF Cells
<1>5. 0 % (2 * Base) = 0
  BY <1>2
<1>6. Body(p)[2] = 0 % (2 * Base)
  BY <1>1 DEF Word
<1> QED BY <1>4, <1>5, <1>6

\* The identifier of what is not a PUBLISH.
LEMMA OtherId ==
  ASSUME NEW p, NEW buffer, Begins(buffer, p), p.type # PUBLISH
  PROVE  Pair(buffer, EndOf(p)) = p.id
<1>0. PacketOK(p)
  BY DEF Begins
<1>1. Body(p)[1] * 2 * Base + Body(p)[2] = p.id
  <2>1. CASE p.type = SUBSCRIBE
    BY <1>0, <2>1, SubscribeBody
  <2>2. CASE p.type # SUBSCRIBE
    BY <1>0, <2>2, PlainBody
  <2> QED BY <2>1, <2>2
<1>2. Len(Body(p)) \in Nat /\ Len(Body(p)) >= 2
  BY <1>0, AnyBody
<1>3. 1 \in 1..Len(Body(p)) /\ 2 \in 1..Len(Body(p))
  BY <1>2
<1>4. Cells(buffer, p)
  BY BufferCells
<1>5. buffer[EndOf(p) + 1] = Body(p)[1] /\ buffer[EndOf(p) + 2] = Body(p)[2]
  BY <1>3, <1>4 DEF Cells
<1> QED BY <1>1, <1>5 DEF Pair

\* Different packets have different bytes.
LEMMA WireInjective ==
  ASSUME NEW p, NEW q, PacketOK(p), PacketOK(q), Wire(p) = Wire(q), Len(Wire(p)) <= BufSize
  PROVE  p = q
<1> DEFINE m == Wire(p)
           l == Len(m)
<1>1. Begins(m, p) /\ Begins(m, q)
  BY DEF Begins
<1>2. l \in Nat
  BY WireCells
<1>3. Len(Wire(q)) = l
  OBVIOUS
<1>4. p.type = q.type /\ p.qos = q.qos
  <2>1. mqtt_get_type(m) = p.type /\ mqtt_get_qos(m) = p.qos
    BY <1>1, HeaderFound
  <2>2. mqtt_get_type(m) = q.type /\ mqtt_get_qos(m) = q.qos
    BY <1>1, HeaderFound
  <2> QED BY <2>1, <2>2
<1> HIDE DEF m, l
<1>5. EndOf(p) = EndOf(q)
  <2>1. EndOfLength(m, l) = EndOf(p)
    BY <1>1, <1>2, EndFound DEF m, l
  <2>2. EndOfLength(m, l) = EndOf(q)
    <3>1. l >= Len(Wire(q))
      BY <1>2, <1>3
    <3> QED BY <1>1, <1>2, <3>1, EndFound
  <2> QED BY <2>1, <2>2
<1>6. CASE p.type = PUBLISH
  <2>1. [topic |-> p.topic, data |-> p.data] = [topic |-> q.topic, data |-> q.data]
    <3>1. deliver_publish(m, l) = [topic |-> p.topic, data |-> p.data]
      BY <1>1, <1>2, <1>6, DeliverFound DEF m, l
    <3>2. deliver_publish(m, l) = [topic |-> q.topic, data |-> q.data]
      <4>1. l >= Len(Wire(q)) /\ q.type = PUBLISH
        BY <1>2, <1>3, <1>4, <1>6
      <4> QED BY <1>1, <1>2, <4>1, DeliverFound
    <3> QED BY <3>1, <3>2
  <2>2. p.topic = q.topic /\ p.data = q.data
    BY <2>1
  <2>3. p.id = q.id
    <3>1. CASE p.qos > 0
      <4>1. Pair(m, EndOf(p) + 2 + Len(p.topic)) = p.id
        BY <1>1, <1>6, <3>1, PublishCells
      <4>2. Pair(m, EndOf(q) + 2 + Len(q.topic)) = q.id
        <5>1. q.type = PUBLISH /\ q.qos > 0
          BY <1>4, <1>6, <3>1
        <5> QED BY <1>1, <5>1, PublishCells
      <4> QED BY <1>5, <2>2, <4>1, <4>2
    <3>2. CASE ~(p.qos > 0)
      <4>1. p.qos = 0 /\ q.qos = 0 /\ q.type = PUBLISH
        BY <1>4, <1>6, <3>2 DEF PacketOK
      <4> QED BY <1>6, <4>1 DEF PacketOK
    <3> QED BY <3>1, <3>2
  <2>4. p = Packet(p.type, p.qos, p.id, p.topic, p.data)
        /\ q = Packet(q.type, q.qos, q.id, q.topic, q.data)
    BY DEF PacketOK
  <2> QED BY <1>4, <2>2, <2>3, <2>4
<1>7. CASE p.type # PUBLISH
  <2>1. p.id = q.id
    <3>1. Pair(m, EndOf(p)) = p.id
      BY <1>1, <1>7, OtherId
    <3>2. Pair(m, EndOf(q)) = q.id
      BY <1>1, <1>4, <1>7, OtherId
    <3> QED BY <1>5, <3>1, <3>2
  <2>2. CASE p.type = SUBSCRIBE
    <3>1. p = Packet(SUBSCRIBE, 1, p.id, Topic, <<>>)
      BY <2>2 DEF PacketOK
    <3>2. q = Packet(SUBSCRIBE, 1, q.id, Topic, <<>>)
      BY <1>4, <2>2 DEF PacketOK
    <3> QED BY <2>1, <3>1, <3>2
  <2>3. CASE p.type # SUBSCRIBE
    <3>1. p = Plain(p.type, p.id)
      BY <1>7, <2>3 DEF PacketOK
    <3>2. q = Plain(q.type, q.id)
      BY <1>4, <1>7, <2>3 DEF PacketOK
    <3> QED BY <1>4, <2>1, <3>1, <3>2
  <2> QED BY <2>2, <2>3
<1> QED BY <1>6, <1>7

\* The bytes of a packet that fits are read as that packet.
LEMMA ReadWire ==
  ASSUME NEW p \in Packets, Len(Wire(p)) <= BufSize
  PROVE  Read(Wire(p)) = p
<1> DEFINE c == CHOOSE q \in Packets : Wire(q) = Wire(p)
<1>1. Read(Wire(p)) = c
  BY DEF Read, Reading
<1>2. c \in Packets /\ Wire(c) = Wire(p)
  OBVIOUS
<1> HIDE DEF c
<1>3. PacketOK(c) /\ PacketOK(p) /\ Wire(p) = Wire(c)
  BY <1>2, PacketParts
<1>4. p = c
  BY <1>3, WireInjective
<1> QED BY <1>1, <1>4

-----------------------------------------------------------------------------
(* What the client builds.                                                 *)

\* Both ways to write a remaining length.
LEMMA FiniIsWire ==
  ASSUME NEW p, PacketOK(p), NEW body, body = Body(p)
  PROVE  fini_message(p.type, p.qos, body) = Wire(p)
<1> DEFINE n == Len(body)
           g == IF n > Base - 1 THEN <<Base + (n % Base), n \div Base>> ELSE <<n>>
<1>1. n \in Nat /\ Base \in Nat
  BY AnyBody, Numbers
<1>2. n > Base - 1 <=> ~(n < Base)
  BY <1>1
<1>3. g = Digits(n)
  BY <1>2 DEF Digits
<1>4. fini_message(p.type, p.qos, body) = <<Header(p.type, p.qos)>> \o g \o body
  BY DEF fini_message
<1>5. Wire(p) = <<Header(p.type, p.qos)>> \o Digits(n) \o body
  BY DEF Wire
<1> QED BY <1>3, <1>4, <1>5

\* The end of the remaining length is at most at the third byte.
LEMMA BuiltFits ==
  ASSUME NEW p, PacketOK(p), MaxFixedHeader + Len(Body(p)) <= BufSize
  PROVE  Len(Wire(p)) <= BufSize
<1>1. Len(Wire(p)) = EndOf(p) + Len(Body(p)) /\ EndOf(p) \in {2, 3} /\ Len(Body(p)) \in Nat
  BY WireCells, AnyBody DEF EndOf
<1> QED BY <1>1, Numbers DEF MaxFixedHeader

\* fini_message makes the bytes of the packet, or the message is too long and
\* fails.
LEMMA BuiltIsWire ==
  ASSUME NEW p, PacketOK(p)
  PROVE  \/ Built(p.type, p.qos, Body(p)) = fail_message
            /\ MaxFixedHeader + Len(Body(p)) > BufSize
         \/ Built(p.type, p.qos, Body(p)) = Wire(p) /\ Len(Wire(p)) <= BufSize
<1>1. fini_message(p.type, p.qos, Body(p)) = Wire(p)
  BY FiniIsWire
<1>2. CASE MaxFixedHeader + Len(Body(p)) > BufSize
  BY <1>2 DEF Built
<1>3. CASE ~(MaxFixedHeader + Len(Body(p)) > BufSize)
  <2>1. Built(p.type, p.qos, Body(p)) = Wire(p)
    BY <1>1, <1>3 DEF Built
  <2>2. MaxFixedHeader + Len(Body(p)) <= BufSize
    BY <1>3, AnyBody, Numbers DEF MaxFixedHeader
  <2> QED BY <2>1, <2>2, BuiltFits
<1> QED BY <1>2, <1>3

\* The answers of mqtt_msg.c are packets, and fit.
LEMMA AnswerBuilt ==
  ASSUME NEW t \in {PUBACK, PUBREC, PUBREL, PUBCOMP}, NEW i \in AllIds
  PROVE  /\ mqtt_msg_answer(t, i) = Wire(Plain(t, i)) /\ Plain(t, i) \in Packets
         /\ Len(Wire(Plain(t, i))) <= BufSize
<1> DEFINE p == Plain(t, i)
<1>1. p \in Packets
  BY PacketsThere
<1>2. PacketOK(p)
  BY <1>1, PacketParts
<1>3. p.type = t /\ p.id = i /\ p.qos = IF t = PUBREL THEN 1 ELSE 0
  BY DEF Plain, Packet
<1>4. t \notin {PUBLISH, SUBSCRIBE, SUBACK}
  BY TypeNumbers
<1> HIDE DEF p
<1>5. Body(p) = Word(i) /\ Len(Body(p)) = 2
  BY <1>2, <1>3, <1>4, PlainBody
<1>6. mqtt_msg_answer(t, i) = Wire(p)
  BY <1>2, <1>3, <1>5, FiniIsWire DEF mqtt_msg_answer
<1>7. Len(Wire(p)) <= BufSize
  <2>1. MaxFixedHeader = 3 /\ Len(Topic) \in Nat /\ Len(Topic) + 8 <= BufSize /\ BufSize \in Nat
    BY Lengths, Numbers
  <2>2. MaxFixedHeader + 2 <= BufSize
    BY <2>1
  <2>3. MaxFixedHeader + Len(Body(p)) <= BufSize
    BY <1>5, <2>2
  <2> QED BY <1>2, <2>3, BuiltFits
<1> QED BY <1>1, <1>6, <1>7 DEF p

\* mqtt_msg_subscribe makes a packet that fits.
LEMMA SubscribeBuilt ==
  ASSUME NEW i \in AllIds
  PROVE  \E p \in Packets : /\ mqtt_msg_subscribe(Topic, 0, i) = Wire(p)
                            /\ Len(Wire(p)) <= BufSize /\ p.type = SUBSCRIBE
<1> DEFINE p == Packet(SUBSCRIBE, 1, i, Topic, <<>>)
           e == Word(i) \o Word(Len(Topic)) \o Topic \o <<0>>
<1>1. p \in Packets
  BY PacketsThere
<1>2. PacketOK(p)
  BY <1>1, PacketParts
<1>3. p.type = SUBSCRIBE /\ p.id = i /\ p.qos = 1 /\ p.topic = Topic
  BY DEF Packet
<1> HIDE DEF p
<1>4. Body(p) = e
  BY <1>3, TypeNumbers DEF Body
<1>5. mqtt_msg_subscribe(Topic, 0, i) = Built(SUBSCRIBE, 1, e)
  BY Lengths DEF mqtt_msg_subscribe
<1> HIDE DEF e
<1>6. Len(Body(p)) = 5 + Len(Topic)
  BY <1>2, <1>3, SubscribeBody
<1>7. ~(MaxFixedHeader + Len(Body(p)) > BufSize)
  BY <1>6, Lengths, Numbers
<1>8. Built(p.type, p.qos, Body(p)) = Wire(p) /\ Len(Wire(p)) <= BufSize
  BY <1>2, <1>7, BuiltIsWire
<1> QED BY <1>1, <1>3, <1>4, <1>5, <1>8

\* What MQTT_Publish builds, unless it is too long.
LEMMA PublishBuilt ==
  ASSUME NEW q \in 0..2, NEW i, q > 0 => i \in AllIds, NEW d \in Payloads \cup {MyId},
         d \in Payloads \/ q > 0
  PROVE  \/ mqtt_msg_publish(Topic, d, q, i) = fail_message
            /\ MaxFixedHeader + 4 + Len(Topic) + Len(d) > BufSize
         \/ \E p \in Packets : /\ mqtt_msg_publish(Topic, d, q, i) = Wire(p)
                               /\ Len(Wire(p)) <= BufSize /\ p.type = PUBLISH
<1> DEFINE p == Packet(PUBLISH, q, IF q > 0 THEN i ELSE 0, Topic, d)
           e == Word(Len(Topic)) \o Topic \o (IF q > 0 THEN Word(i) ELSE <<>>) \o d
<1>1. p \in Packets
  <2>1. CASE q > 0
    <3>1. p = Packet(PUBLISH, q, i, Topic, d) /\ q \in {1, 2} /\ i \in AllIds
      BY <2>1
    <3> HIDE DEF p
    <3> QED BY <3>1, PacketsThere
  <2>2. CASE ~(q > 0)
    <3>1. p = Packet(PUBLISH, 0, 0, Topic, d) /\ d \in Payloads
      BY <2>2
    <3> HIDE DEF p
    <3> QED BY <3>1, PacketsThere
  <2> QED BY <2>1, <2>2
<1>2. PacketOK(p)
  BY <1>1, PacketParts
<1>3. p.type = PUBLISH /\ p.qos = q /\ p.topic = Topic /\ p.data = d /\ (q > 0 => p.id = i)
  BY DEF Packet
<1> HIDE DEF p
<1>4. Body(p) = e
  <2> DEFINE A == Word(Len(p.topic)) \o p.topic
                    \o (IF p.qos > 0 THEN Word(p.id) ELSE <<>>) \o p.data
             B == Word(p.id) \o Word(Len(p.topic)) \o p.topic \o <<0>>
             C == Word(p.id) \o <<0>>
             D == Word(p.id)
  <2>1. Body(p) = CASE p.type = PUBLISH -> A [] p.type = SUBSCRIBE -> B
                    [] p.type = SUBACK -> C [] OTHER -> D
    BY DEF Body
  <2>2. p.type = PUBLISH /\ p.type # SUBSCRIBE /\ p.type # SUBACK
    BY <1>3, TypeNumbers
  <2>3. A = e
    <3>1. (IF p.qos > 0 THEN Word(p.id) ELSE <<>>) = IF q > 0 THEN Word(i) ELSE <<>>
      BY <1>3
    <3> QED BY <1>3, <3>1
  <2> HIDE DEF A, B, C, D
  <2> QED BY <2>1, <2>2, <2>3
<1>5. mqtt_msg_publish(Topic, d, q, i) = Built(PUBLISH, q, e)
  BY Lengths DEF mqtt_msg_publish
<1> HIDE DEF e
<1>6. Len(Body(p)) <= 4 + Len(Topic) + Len(d)
  <2> DEFINE h == IF p.qos > 0 THEN 2 ELSE 0
  <2>1. Len(Body(p)) = 2 + Len(Topic) + h + Len(d) /\ h \in {0, 2}
    BY <1>2, <1>3, PublishBody
  <2> HIDE DEF h
  <2>2. Len(Topic) \in Nat /\ Len(d) \in Nat
    BY Lengths
  <2> QED BY <2>1, <2>2
<1>7. CASE /\ Built(p.type, p.qos, Body(p)) = fail_message
           /\ MaxFixedHeader + Len(Body(p)) > BufSize
  <2>1. Len(Topic) \in Nat /\ Len(d) \in Nat /\ Len(Body(p)) \in Nat /\ BufSize \in Nat
        /\ MaxFixedHeader = 3
    BY <1>2, Lengths, AnyBody, Numbers
  <2>2. MaxFixedHeader + 4 + Len(Topic) + Len(d) > BufSize
    BY <1>6, <1>7, <2>1
  <2> QED BY <1>3, <1>4, <1>5, <1>7, <2>2
<1>8. CASE Built(p.type, p.qos, Body(p)) = Wire(p) /\ Len(Wire(p)) <= BufSize
  BY <1>1, <1>3, <1>4, <1>5, <1>8
<1> QED BY <1>2, <1>7, <1>8, BuiltIsWire

(* Least elements and induction.                                           *)

Less == {z \in Nat \X Nat : z[1] < z[2]}

\* There is no infinite descent in the numbers.
LEMMA LessIsWellFounded == IsWellFoundedOn(Less, Nat)
BY NatLessThanWellFounded DEF OpToRel, Less

\* A set of numbers has a least one.
LEMMA LeastExists ==
  ASSUME NEW T, T \subseteq Nat, T # {}
  PROVE  \E x \in T : \A y \in T : x <= y
<1>1. PICK x \in T : \A y \in T : ~(<<y, x>> \in Less)
  BY LessIsWellFounded, WFMin
<1>2. ASSUME NEW y \in T PROVE x <= y
  <2>1. x \in Nat /\ y \in Nat /\ ~(<<y, x>> \in Less)
    BY <1>1
  <2>2. ~(y < x)
    BY <2>1 DEF Less
  <2> QED BY <2>1, <2>2
<1> QED BY <1>2

\* Induction over the naturals, for a set in place of a predicate.
LEMMA InductionOnSet ==
  ASSUME NEW S, 0 \in S, \A n \in Nat : n \in S => n + 1 \in S
  PROVE  Nat \subseteq S
<1> DEFINE T == Nat \ S
<1> SUFFICES ASSUME T # {} PROVE FALSE
  OBVIOUS
<1>1. T \subseteq Nat
  OBVIOUS
<1> HIDE DEF T
<1>2. PICK x \in T : \A y \in T : x <= y
  BY <1>1, LeastExists
<1> USE DEF T
<1>3. x # 0 /\ x - 1 \in Nat /\ ~(x <= x - 1)
  BY <1>2
<1>4. x - 1 \notin T
  BY <1>2, <1>3
<1> QED BY <1>3, <1>4

-----------------------------------------------------------------------------
(* The bytes of a segment.                                                 *)

\* The equations of FlattenSeq.
Flat(g, s, n) == g = [i \in 1..n |-> IF i = 1 THEN s[i] ELSE g[i - 1] \o s[i]]

\* They have a solution.
LEMMA FlatExists ==
  ASSUME NEW s, NEW d \in Nat, \A i \in 1..d : s[i] \in Seq(Nat)
  PROVE  \E g \in [1..d -> Seq(Nat)] : Flat(g, s, d)
<1> DEFINE S == {n \in Nat : n <= d => \E g \in [1..n -> Seq(Nat)] : Flat(g, s, n)}
<1>1. 0 \in S
  <2> DEFINE g == [i \in 1..0 |-> <<>>]
  <2>1. g \in [1..0 -> Seq(Nat)] /\ Flat(g, s, 0)
    BY DEF Flat
  <2> QED BY <2>1
<1>2. ASSUME NEW n \in Nat, n \in S PROVE n + 1 \in S
  <2> SUFFICES ASSUME n + 1 <= d
               PROVE  \E h \in [1..n + 1 -> Seq(Nat)] : Flat(h, s, n + 1)
    OBVIOUS
  <2>1. PICK g \in [1..n -> Seq(Nat)] : Flat(g, s, n)
    BY <1>2
  <2> DEFINE z == IF n = 0 THEN s[1] ELSE g[n] \o s[n + 1]
             h == [i \in 1..n + 1 |-> IF i = n + 1 THEN z ELSE g[i]]
  <2>2. \A i \in 1..n : g[i] = IF i = 1 THEN s[i] ELSE g[i - 1] \o s[i]
    BY <2>1 DEF Flat
  <2>3. z \in Seq(Nat)
    <3>1. CASE n = 0
      BY <3>1
    <3>2. CASE n # 0
      <4>1. g[n] \in Seq(Nat) /\ s[n + 1] \in Seq(Nat)
        BY <2>1, <3>2
      <4> QED BY <3>2, <4>1
    <3> QED BY <3>1, <3>2
  <2>4. h \in [1..n + 1 -> Seq(Nat)]
    <3> HIDE DEF z
    <3> QED BY <2>1, <2>3
  <2>5. ASSUME NEW i \in 1..n + 1
        PROVE  h[i] = IF i = 1 THEN s[i] ELSE h[i - 1] \o s[i]
    <3>1. CASE i = n + 1 /\ n = 0
      BY <3>1
    <3>2. CASE i = n + 1 /\ n # 0
      <4>1. i # 1 /\ i - 1 = n /\ i - 1 \in 1..n + 1 /\ i - 1 # n + 1
        BY <3>2
      <4>2. h[i] = g[n] \o s[n + 1]
        BY <3>2
      <4>3. h[i - 1] = g[n]
        BY <4>1
      <4> HIDE DEF h, z
      <4> QED BY <3>2, <4>1, <4>2, <4>3
    <3>3. CASE i \in 1..n /\ i = 1
      <4>1. h[i] = g[i]
        BY <3>3
      <4> QED BY <2>2, <3>3, <4>1
    <3>4. CASE i \in 1..n /\ i # 1
      <4>1. i - 1 \in 1..n + 1 /\ i - 1 # n + 1 /\ i # n + 1
        BY <3>4
      <4>2. h[i] = g[i] /\ h[i - 1] = g[i - 1]
        BY <4>1
      <4> HIDE DEF h
      <4> QED BY <2>2, <3>4, <4>2
    <3> QED BY <3>1, <3>2, <3>3, <3>4
  <2>6. Flat(h, s, n + 1)
    <3>1. h = [i \in 1..n + 1 |-> h[i]]
      OBVIOUS
    <3> HIDE DEF h
    <3> QED BY <2>5, <3>1 DEF Flat
  <2> QED BY <2>4, <2>6
<1> HIDE DEF S
<1>3. Nat \subseteq S
  BY <1>1, <1>2, InductionOnSet
<1> QED BY <1>3 DEF S

\* What a solution holds.
FlatHolds(g, s, n) ==
  /\ \A i \in 1..n : g[i] \in Seq(Nat)
  /\ n >= 1 => g[1] = s[1]
  /\ \A i \in 1..n : i + 1 <= n => g[i + 1] = g[i] \o s[i + 1]

\* A solution holds sequences, each longer by its last part.
LEMMA FlatType ==
  ASSUME NEW s, NEW n \in Nat, NEW g, \A i \in 1..n : s[i] \in Seq(Nat), Flat(g, s, n)
  PROVE  FlatHolds(g, s, n)
<1>1. ASSUME NEW i \in 1..n PROVE g[i] = IF i = 1 THEN s[i] ELSE g[i - 1] \o s[i]
  BY Zenon DEF Flat
<1>2. n >= 1 => g[1] = s[1]
  <2> SUFFICES ASSUME n >= 1 PROVE g[1] = s[1]
    OBVIOUS
  <2>1. 1 \in 1..n
    OBVIOUS
  <2> QED BY <1>1, <2>1, Zenon
<1>3. ASSUME NEW i \in 1..n, i + 1 <= n PROVE g[i + 1] = g[i] \o s[i + 1]
  <2>1. i + 1 \in 1..n /\ i + 1 # 1 /\ i + 1 - 1 = i
    BY <1>3
  <2> DEFINE j == i + 1
  <2>2. j \in 1..n /\ j # 1 /\ j - 1 = i
    BY <2>1
  <2> HIDE DEF j
  <2>3. g[j] = g[j - 1] \o s[j]
    BY <1>1, <2>2, Zenon
  <2>4. g[j] = g[i] \o s[j]
    BY <2>2, <2>3, Zenon
  <2> QED BY <2>4 DEF j
<1> DEFINE S == {k \in Nat : k \in 1..n => g[k] \in Seq(Nat)}
<1>4. 0 \in S
  OBVIOUS
<1>5. ASSUME NEW k \in Nat, k \in S PROVE k + 1 \in S
  <2> SUFFICES ASSUME k + 1 \in 1..n PROVE g[k + 1] \in Seq(Nat)
    OBVIOUS
  <2>1. CASE k = 0
    <3>1. k + 1 = 1 /\ n >= 1 /\ 1 \in 1..n
      BY <2>1
    <3> QED BY <1>2, <3>1
  <2>2. CASE k # 0
    <3>1. k \in 1..n /\ k + 1 <= n
      BY <2>2
    <3>2. g[k + 1] = g[k] \o s[k + 1]
      BY <1>3, <3>1
    <3>3. g[k] \in Seq(Nat) /\ s[k + 1] \in Seq(Nat)
      BY <1>5, <3>1
    <3> QED BY <3>2, <3>3
  <2> QED BY <2>1, <2>2
<1> HIDE DEF S
<1>6. Nat \subseteq S
  BY <1>4, <1>5, InductionOnSet
<1>7. ASSUME NEW i \in 1..n PROVE g[i] \in Seq(Nat)
  BY <1>6 DEF S
<1> QED BY <1>2, <1>3, <1>7 DEF FlatHolds

\* Concatenation is associative.
LEMMA Associative == \A a, b, c \in Seq(Nat) : (a \o b) \o c = a \o (b \o c)
BY ConcatAssociative

\* t is s but its first element, and both hold sequences.
Shifted(t, s, n) == /\ \A i \in 1..n + 1 : s[i] \in Seq(Nat)
                    /\ \A i \in 1..n : t[i] = s[i + 1]

\* The first sequence is in front of every partial result.
InFront(g, h, a, n) == \A i \in 1..n : g[i + 1] = a \o h[i]

\* What is in front can be joined last.
LEMMA FlatBehind ==
  ASSUME NEW s, NEW t, NEW n \in Nat, NEW g, NEW h,
         Shifted(t, s, n), FlatHolds(g, s, n + 1), FlatHolds(h, t, n)
  PROVE  InFront(g, h, s[1], n)
<1> DEFINE S == {k \in Nat : k \in 1..n => g[k + 1] = s[1] \o h[k]}
<1>1. 0 \in S
  OBVIOUS
<1>2. ASSUME NEW k \in Nat, k \in S PROVE k + 1 \in S
  <2>1. ASSUME k + 1 \in 1..n PROVE g[(k + 1) + 1] = s[1] \o h[k + 1]
    <3>1. k + 1 \in 1..n + 1 /\ (k + 1) + 1 <= n + 1 /\ 1 \in 1..n + 1 /\ n + 1 >= 1 /\ n >= 1
      BY <2>1
    <3>2. g[(k + 1) + 1] = g[k + 1] \o s[(k + 1) + 1] /\ g[1] = s[1]
      BY <3>1, Zenon DEF FlatHolds
    <3>3. t[k + 1] = s[(k + 1) + 1]
      BY <2>1, Zenon DEF Shifted
    <3>4. CASE k = 0
      <4>1. h[1] = t[1] /\ k + 1 = 1
        BY <3>1, <3>4 DEF FlatHolds
      <4> QED BY <3>2, <3>3, <4>1, Zenon
    <3>5. CASE k # 0
      <4>1. k \in 1..n /\ k + 1 <= n
        BY <2>1, <3>5
      <4>2. h[k + 1] = h[k] \o t[k + 1]
        BY <4>1, Zenon DEF FlatHolds
      <4>3. g[k + 1] = s[1] \o h[k]
        BY <1>2, <4>1, Zenon
      <4>4. s[1] \in Seq(Nat) /\ h[k] \in Seq(Nat) /\ t[k + 1] \in Seq(Nat)
        <5>1. (k + 1) + 1 \in 1..n + 1
          BY <3>1
        <5> QED BY <3>1, <3>3, <4>1, <5>1, Zenon DEF FlatHolds, Shifted
      <4>5. (s[1] \o h[k]) \o t[k + 1] = s[1] \o (h[k] \o t[k + 1])
        BY <4>4, Associative, Zenon
      <4> QED BY <3>2, <3>3, <4>2, <4>3, <4>5, Zenon
    <3> QED BY <3>4, <3>5
  <2>2. k + 1 \in Nat
    OBVIOUS
  <2> QED BY <2>1, <2>2, Zenon
<1> HIDE DEF S
<1>3. Nat \subseteq S
  BY <1>1, <1>2, InductionOnSet
<1>4. ASSUME NEW k \in 1..n PROVE g[k + 1] = s[1] \o h[k]
  <2>1. k \in S
    BY <1>3
  <2> QED BY <2>1, Zenon DEF S
<1> QED BY <1>4 DEF InFront

\* FlattenSeq is the last of the partial results.
LEMMA FlattenIs ==
  ASSUME NEW s \in Seq(Seq(Nat)), s # <<>>
  PROVE  \E g : FlatHolds(g, s, Len(s)) /\ FlattenSeq(s) = g[Len(s)]
<1> DEFINE n == Len(s)
           c == CHOOSE g : Flat(g, s, n)
<1>1. n \in Nat /\ n # 0 /\ \A i \in 1..n : s[i] \in Seq(Nat)
  OBVIOUS
<1>2. FlattenSeq(s) = c[n]
  <2> DEFINE F == LET flatten[i \in 1..Len(s)] ==
                        IF i = 1 THEN s[i] ELSE flatten[i - 1] \o s[i]
                  IN  flatten[Len(s)]
  <2>1. FlattenSeq(s) = IF Len(s) = 0 THEN s ELSE F
    BY DEF FlattenSeq
  <2>2. F = c[n]
    BY DEF Flat
  <2> HIDE DEF F, c
  <2> QED BY <1>1, <2>1, <2>2
<1> HIDE DEF n
<1>3. \E g : Flat(g, s, n)
  BY <1>1, FlatExists
<1>4. Flat(c, s, n)
  BY <1>3
<1> HIDE DEF c
<1>5. FlatHolds(c, s, n)
  BY <1>1, <1>4, FlatType
<1> QED BY <1>2, <1>5 DEF n

\* The bytes of the packets, one by one.
Wires(ps) == [i \in DOMAIN ps |-> Wire(ps[i])]

\* They are sequences of bytes.
LEMMA WiresType ==
  ASSUME NEW ps \in Seq(Packets)
  PROVE  /\ Wires(ps) \in Seq(Seq(Nat)) /\ Len(Wires(ps)) = Len(ps)
         /\ \A i \in 1..Len(ps) : Wires(ps)[i] = Wire(ps[i])
<1>1. DOMAIN ps = 1..Len(ps) /\ Len(ps) \in Nat
  OBVIOUS
<1>2. ASSUME NEW i \in 1..Len(ps) PROVE Wire(ps[i]) \in Seq(Nat)
  <2>1. ps[i] \in Packets
    OBVIOUS
  <2> QED BY <2>1, PacketParts, WireCells
<1>3. Wires(ps) = [i \in 1..Len(ps) |-> Wire(ps[i])]
  BY <1>1 DEF Wires
<1> DEFINE W(i) == Wire(ps[i])
           S == Seq(Nat)
<1>4. \A i \in 1..Len(ps) : W(i) \in S
  BY <1>2
<1>5. Wires(ps) = [i \in 1..Len(ps) |-> W(i)]
  BY <1>3
<1> HIDE DEF W, S
<1>6. Wires(ps) \in Seq(S) /\ Len(Wires(ps)) = Len(ps)
  BY <1>1, <1>4, <1>5
<1>7. \A i \in 1..Len(ps) : Wires(ps)[i] = W(i)
  BY <1>5
<1> QED BY <1>6, <1>7 DEF W, S

\* No packets, no bytes.
LEMMA WireAllEmpty == WireAll(<<>>) = <<>>
<1> DEFINE w == [i \in DOMAIN <<>> |-> Wire(<<>>[i])]
<1>1. w = <<>> /\ Len(<<>>) = 0
  OBVIOUS
<1>2. WireAll(<<>>) = FlattenSeq(w)
  BY DEF WireAll
<1>3. FlattenSeq(<<>>) = <<>>
  BY <1>1 DEF FlattenSeq
<1> HIDE DEF w
<1> QED BY <1>1, <1>2, <1>3, Zenon

\* The first packet comes first.
LEMMA WireAllHead ==
  ASSUME NEW ps \in Seq(Packets), ps # <<>>
  PROVE  /\ WireAll(ps) = Wire(Head(ps)) \o WireAll(Tail(ps))
         /\ WireAll(Tail(ps)) \in Seq(Nat) /\ Wire(Head(ps)) \in Seq(Nat)
<1> DEFINE s == Wires(ps)
           t == Wires(Tail(ps))
           n == Len(Tail(ps))
<1>1. /\ Tail(ps) \in Seq(Packets) /\ n \in Nat /\ Len(ps) = n + 1 /\ Head(ps) = ps[1]
      /\ \A i \in 1..n : Tail(ps)[i] = ps[i + 1]
  OBVIOUS
<1>2. WireAll(ps) = FlattenSeq(s) /\ WireAll(Tail(ps)) = FlattenSeq(t)
  BY Zenon DEF WireAll, Wires
<1>3. /\ s \in Seq(Seq(Nat)) /\ Len(s) = n + 1
      /\ \A i \in 1..n + 1 : s[i] = Wire(ps[i])
  BY <1>1, WiresType
<1>4. /\ t \in Seq(Seq(Nat)) /\ Len(t) = n
      /\ \A i \in 1..n : t[i] = Wire(Tail(ps)[i])
  BY <1>1, WiresType
<1> HIDE DEF s, t, n
<1>5. 1 \in 1..n + 1 /\ n + 1 # 0
  BY <1>1
<1>6. s[1] = Wire(Head(ps)) /\ s # <<>>
  BY <1>1, <1>3, <1>5
<1>7. PICK g : FlatHolds(g, s, n + 1) /\ FlattenSeq(s) = g[n + 1]
  BY <1>3, <1>6, FlattenIs
<1>8. \A i \in 1..n + 1 : s[i] \in Seq(Nat)
  BY <1>3
<1>9. CASE n = 0
  <2>1. t = <<>> /\ n + 1 = 1
    BY <1>4, <1>9
  <2>2. FlattenSeq(t) = <<>>
    <3>1. Len(<<>>) = 0
      OBVIOUS
    <3> QED BY <2>1, <3>1 DEF FlattenSeq
  <2>3. g[1] = s[1]
    BY <1>1, <1>7, <1>9 DEF FlatHolds
  <2>4. s[1] \in Seq(Nat) /\ s[1] \o <<>> = s[1] /\ <<>> \in Seq(Nat)
    <3>1. s[1] \in Seq(Nat)
      BY <1>5, <1>8
    <3> QED BY <3>1, ConcatEmptySeq
  <2> QED BY <1>2, <1>6, <1>7, <2>1, <2>2, <2>3, <2>4
<1>10. CASE n # 0
  <2>1. t # <<>> /\ n \in 1..n
    BY <1>1, <1>4, <1>10
  <2>2. PICK h : FlatHolds(h, t, n) /\ FlattenSeq(t) = h[n]
    BY <1>4, <2>1, FlattenIs
  <2>3. ASSUME NEW i \in 1..n PROVE t[i] = s[i + 1]
    <3>1. i + 1 \in 1..n + 1
      BY <1>1
    <3> QED BY <1>1, <1>3, <1>4, <3>1
  <2>4. g[n + 1] = s[1] \o h[n]
    <3>1. InFront(g, h, s[1], n)
      <4>1. n \in Nat /\ FlatHolds(g, s, n + 1) /\ FlatHolds(h, t, n)
        BY <1>1, <1>7, <2>2, Zenon
      <4>2. Shifted(t, s, n)
        BY <1>8, <2>3 DEF Shifted
      <4> QED BY <4>1, <4>2, FlatBehind
    <3> QED BY <2>1, <3>1, Zenon DEF InFront
  <2>5. h[n] \in Seq(Nat) /\ s[1] \in Seq(Nat)
    BY <1>5, <1>8, <2>1, <2>2, Zenon DEF FlatHolds
  <2> QED BY <1>2, <1>6, <1>7, <2>2, <2>4, <2>5, Zenon
<1> QED BY <1>9, <1>10

\* The bytes of packets are a sequence of bytes.
LEMMA WireAllType ==
  ASSUME NEW ps \in Seq(Packets)
  PROVE  WireAll(ps) \in Seq(Nat)
<1>1. CASE ps = <<>>
  <2>1. <<>> \in Seq(Nat)
    OBVIOUS
  <2> QED BY <1>1, <2>1, WireAllEmpty, Zenon
<1>2. CASE ps # <<>>
  <2>1. /\ WireAll(ps) = Wire(Head(ps)) \o WireAll(Tail(ps))
        /\ WireAll(Tail(ps)) \in Seq(Nat) /\ Wire(Head(ps)) \in Seq(Nat)
    BY <1>2, WireAllHead
  <2> QED BY <2>1, ConcatProperties
<1> QED BY <1>1, <1>2

-----------------------------------------------------------------------------
(* What is not read of a segment.                                          *)

\* What is behind the first k packets.
From(ps, k) == SubSeq(ps, k + 1, Len(ps))

\* Behind none are all packets, behind all is none.
LEMMA FromEnds ==
  ASSUME NEW S, NEW ps \in Seq(S)
  PROVE  From(ps, 0) = ps /\ From(ps, Len(ps)) = <<>>
<1>1. Len(ps) \in Nat
  OBVIOUS
<1>2. SubSeq(ps, 1, Len(ps)) = ps
  BY SubSeqFull
<1>3. SubSeq(ps, Len(ps) + 1, Len(ps)) = <<>>
  BY <1>1, SubSeqEmpty
<1> QED BY <1>2, <1>3 DEF From

\* The first packet behind k packets, and what is behind it.
LEMMA FromStep ==
  ASSUME NEW S, NEW ps \in Seq(S), NEW k \in 0..Len(ps), k # Len(ps)
  PROVE  /\ From(ps, k) \in Seq(S) /\ From(ps, k) # <<>>
         /\ Head(From(ps, k)) = ps[k + 1] /\ ps[k + 1] \in S
         /\ Tail(From(ps, k)) = From(ps, k + 1) /\ k + 1 \in 0..Len(ps)
<1>1. Len(ps) \in Nat /\ k + 1 \in 1..Len(ps) /\ Len(ps) \in k + 1..Len(ps)
  OBVIOUS
<1>2. Head(From(ps, k)) = ps[k + 1] /\ Tail(From(ps, k)) = SubSeq(ps, (k + 1) + 1, Len(ps))
  BY <1>1, HeadTailOfSubSeq DEF From
<1>3. \A i \in k + 1..Len(ps) : ps[i] \in S
  BY <1>1
<1>4. From(ps, k) \in Seq(S) /\ Len(From(ps, k)) = Len(ps) - (k + 1) + 1
  BY <1>1, <1>3, SubSeqProperties DEF From
<1>5. From(ps, k) # <<>>
  <2>1. Len(From(ps, k)) # 0
    BY <1>1, <1>4
  <2> QED BY <2>1
<1>6. Tail(From(ps, k)) = From(ps, k + 1)
  BY <1>2 DEF From
<1>7. ps[k + 1] \in S /\ k + 1 \in 0..Len(ps)
  BY <1>1
<1> QED BY <1>2, <1>4, <1>5, <1>6, <1>7

\* There are packets behind k unless k is all of them.
LEMMA FromType ==
  ASSUME NEW S, NEW ps \in Seq(S), NEW k \in 0..Len(ps)
  PROVE  From(ps, k) \in Seq(S) /\ (From(ps, k) = <<>> <=> k = Len(ps))
<1>1. CASE k = Len(ps)
  <2>1. From(ps, k) = <<>>
    BY <1>1, FromEnds
  <2>2. <<>> \in Seq(S)
    OBVIOUS
  <2> QED BY <1>1, <2>1, <2>2
<1>2. CASE k # Len(ps)
  BY <1>2, FromStep
<1> QED BY <1>1, <1>2

Left(ps, k) == Len(WireAll(From(ps, k)))

\* A packet has at least four bytes.
LEMMA WireLength ==
  ASSUME NEW p \in Packets
  PROVE  Wire(p) \in Seq(Nat) /\ Len(Wire(p)) \in Nat /\ Len(Wire(p)) >= 4
<1>1. PacketOK(p)
  BY PacketParts
<1>2. Wire(p) \in Seq(Nat) /\ Len(Wire(p)) = EndOf(p) + Len(Body(p))
  BY <1>1, WireCells
<1>3. EndOf(p) \in {2, 3} /\ Len(Body(p)) \in Nat /\ Len(Body(p)) >= 2
  BY <1>1, AnyBody DEF EndOf
<1> QED BY <1>2, <1>3

\* Fewer packets are fewer bytes.
LEMMA LeftStep ==
  ASSUME NEW ps \in Seq(Packets), NEW k \in 0..Len(ps)
  PROVE  /\ Left(ps, k) \in Nat
         /\ k # Len(ps) => /\ k + 1 \in 0..Len(ps) /\ Left(ps, k + 1) \in Nat
                           /\ Left(ps, k) = Len(Wire(ps[k + 1])) + Left(ps, k + 1)
                           /\ Left(ps, k) > Left(ps, k + 1)
<1>1. From(ps, k) \in Seq(Packets)
  BY FromType
<1>2. WireAll(From(ps, k)) \in Seq(Nat)
  BY <1>1, WireAllType
<1>3. Left(ps, k) \in Nat
  BY <1>2 DEF Left
<1>4. ASSUME k # Len(ps)
      PROVE  /\ k + 1 \in 0..Len(ps) /\ Left(ps, k + 1) \in Nat
             /\ Left(ps, k) = Len(Wire(ps[k + 1])) + Left(ps, k + 1)
             /\ Left(ps, k) > Left(ps, k + 1)
  <2> DEFINE a == Wire(ps[k + 1])
             b == WireAll(From(ps, k + 1))
  <2>1. /\ From(ps, k) # <<>> /\ Head(From(ps, k)) = ps[k + 1]
        /\ Tail(From(ps, k)) = From(ps, k + 1) /\ ps[k + 1] \in Packets /\ k + 1 \in 0..Len(ps)
    BY <1>4, FromStep
  <2>2. /\ WireAll(From(ps, k)) = a \o b /\ b \in Seq(Nat) /\ a \in Seq(Nat)
    BY <1>1, <2>1, WireAllHead
  <2>3. Len(a) \in Nat /\ Len(a) >= 4
    BY <2>1, WireLength
  <2>4. Left(ps, k + 1) = Len(b)
    BY DEF Left
  <2> HIDE DEF a, b
  <2>5. Len(a \o b) = Len(a) + Len(b) /\ Len(b) \in Nat
    BY <2>2
  <2>6. Left(ps, k) = Len(a) + Len(b)
    BY <2>2, <2>5 DEF Left
  <2>7. Left(ps, k) > Left(ps, k + 1)
    BY <2>3, <2>4, <2>5, <2>6
  <2> QED BY <2>1, <2>4, <2>5, <2>6, <2>7 DEF a
<1> QED BY <1>3, <1>4

\* Fewer packets are fewer bytes, over several packets.
LEMMA LeftDecreases ==
  ASSUME NEW ps \in Seq(Packets), NEW j \in 0..Len(ps), NEW k \in 0..Len(ps), j < k
  PROVE  Left(ps, j) > Left(ps, k)
<1> DEFINE S == {d \in Nat : j + d + 1 <= Len(ps) => Left(ps, j) > Left(ps, j + d + 1)}
<1>0. Len(ps) \in Nat /\ j \in Nat /\ k \in Nat
  OBVIOUS
<1>1. 0 \in S
  <2>1. ASSUME j + 0 + 1 <= Len(ps) PROVE Left(ps, j) > Left(ps, j + 0 + 1)
    <3>1. j # Len(ps) /\ j + 0 + 1 = j + 1
      BY <1>0, <2>1
    <3> QED BY <3>1, LeftStep
  <2> QED BY <2>1, Zenon
<1>2. ASSUME NEW d \in Nat, d \in S PROVE d + 1 \in S
  <2>1. ASSUME j + (d + 1) + 1 <= Len(ps) PROVE Left(ps, j) > Left(ps, j + (d + 1) + 1)
    <3> DEFINE i == j + d + 1
    <3>1. i \in 0..Len(ps) /\ i # Len(ps) /\ j + (d + 1) + 1 = i + 1 /\ i <= Len(ps)
      BY <1>0, <2>1
    <3>2. Left(ps, j) > Left(ps, i)
      BY <1>2, <3>1
    <3> HIDE DEF i
    <3>3. Left(ps, i) > Left(ps, i + 1) /\ Left(ps, i) \in Nat /\ Left(ps, i + 1) \in Nat
      BY <3>1, LeftStep
    <3>4. Left(ps, j) \in Nat
      BY LeftStep
    <3>5. Left(ps, j) > Left(ps, i + 1)
      BY <3>2, <3>3, <3>4
    <3> QED BY <3>1, <3>5
  <2>2. d + 1 \in Nat
    OBVIOUS
  <2> QED BY <2>1, <2>2, Zenon
<1> HIDE DEF S
<1>3. Nat \subseteq S
  BY <1>1, <1>2, InductionOnSet
<1>4. k - j - 1 \in S /\ j + (k - j - 1) + 1 = k /\ k <= Len(ps)
  BY <1>0, <1>3
<1> QED BY <1>4 DEF S

\* Rest, of any segment and any bytes.
RestOf(ps, bytes) ==
  LET n == CHOOSE n \in 0..Len(ps) :
             Len(WireAll(SubSeq(ps, n + 1, Len(ps)))) = Len(bytes)
  IN  SubSeq(ps, n + 1, Len(ps))

\* The bytes that are left say which packets are.
LEMMA RestIs ==
  ASSUME NEW ps \in Seq(Packets), NEW bytes, NEW k \in 0..Len(ps), Len(bytes) = Left(ps, k)
  PROVE  RestOf(ps, bytes) = From(ps, k)
<1> DEFINE c == CHOOSE n \in 0..Len(ps) :
                  Len(WireAll(SubSeq(ps, n + 1, Len(ps)))) = Len(bytes)
           d == CHOOSE n \in 0..Len(ps) : Left(ps, n) = Len(bytes)
<1>1. RestOf(ps, bytes) = SubSeq(ps, c + 1, Len(ps))
  BY DEF RestOf
<1>2. c = d
  BY DEF Left, From
<1>3. d \in 0..Len(ps) /\ Left(ps, d) = Len(bytes)
  <2>1. \E n \in 0..Len(ps) : Left(ps, n) = Len(bytes)
    OBVIOUS
  <2> QED BY <2>1
<1> HIDE DEF c, d
<1>4. d = k
  <2>1. ~(d < k)
    <3> SUFFICES ASSUME d < k PROVE FALSE
      OBVIOUS
    <3>1. Left(ps, d) > Left(ps, k) /\ Left(ps, d) \in Nat
      BY <1>3, LeftDecreases, LeftStep
    <3> QED BY <1>3, <3>1
  <2>2. ~(k < d)
    <3> SUFFICES ASSUME k < d PROVE FALSE
      OBVIOUS
    <3>1. Left(ps, k) > Left(ps, d) /\ Left(ps, d) \in Nat
      BY <1>3, LeftDecreases, LeftStep
    <3> QED BY <1>3, <3>1
  <2> QED BY <1>3, <2>1, <2>2
<1> QED BY <1>1, <1>2, <1>4 DEF From

\* What is not read of a segment are the bytes of its last packets.
SegmentOK(ps, bytes) ==
  /\ ps \in Seq(Packets) /\ Len(bytes) < BufSize
  /\ \E k \in 0..Len(ps) : bytes = WireAll(From(ps, k))
  /\ bytes = <<>> => ps = <<>>

\* Nothing is left of no segment.
LEMMA NoSegment == SegmentOK(<<>>, <<>>) /\ RestOf(<<>>, <<>>) = <<>>
<1>1. <<>> \in Seq(Packets) /\ Len(<<>>) = 0 /\ 0 \in 0..Len(<<>>)
  OBVIOUS
<1>2. From(<<>>, 0) = <<>>
  BY <1>1, FromEnds
<1>3. Left(<<>>, 0) = Len(<<>>)
  BY <1>2, WireAllEmpty DEF Left
<1>4. RestOf(<<>>, <<>>) = <<>>
  BY <1>1, <1>2, <1>3, RestIs
<1>5. Len(<<>>) < BufSize
  BY <1>1, MsgAssumption
<1> QED BY <1>1, <1>2, <1>4, <1>5, WireAllEmpty DEF SegmentOK

\* What is left of a segment is Rest, whose bytes are those not read.
LEMMA SegmentRest ==
  ASSUME NEW ps, NEW bytes, SegmentOK(ps, bytes)
  PROVE  /\ RestOf(ps, bytes) \in Seq(Packets) /\ bytes = WireAll(RestOf(ps, bytes))
         /\ bytes \in Seq(Nat)
         /\ bytes = <<>> <=> RestOf(ps, bytes) = <<>>
<1>1. ps \in Seq(Packets)
  BY DEF SegmentOK
<1>2. PICK k \in 0..Len(ps) : bytes = WireAll(From(ps, k))
  BY DEF SegmentOK
<1>3. RestOf(ps, bytes) = From(ps, k)
  BY <1>1, <1>2, RestIs DEF Left
<1>4. From(ps, k) \in Seq(Packets)
  BY <1>1, FromType
<1>5. bytes \in Seq(Nat)
  BY <1>2, <1>4, WireAllType
<1>6. ASSUME bytes = <<>> PROVE From(ps, k) = <<>>
  <2>1. ps = <<>> /\ Len(<<>>) = 0
    BY <1>6 DEF SegmentOK
  <2>2. k = 0
    BY <2>1
  <2> QED BY <1>1, <2>1, <2>2, FromEnds
<1>7. ASSUME From(ps, k) = <<>> PROVE bytes = <<>>
  BY <1>2, <1>7, WireAllEmpty
<1> QED BY <1>2, <1>3, <1>4, <1>5, <1>6, <1>7

\* Behind the first packet.
LEMMA SegmentNext ==
  ASSUME NEW ps, NEW bytes, SegmentOK(ps, bytes), bytes # <<>>,
         NEW p, p = Head(RestOf(ps, bytes))
  PROVE  LET rest == Tail(RestOf(ps, bytes))
         IN  /\ p \in Packets /\ Len(Wire(p)) <= Len(bytes)
             /\ \A i \in 1..Len(Wire(p)) : bytes[i] = Wire(p)[i]
             /\ Behind(bytes, Len(Wire(p))) = WireAll(rest)
             /\ rest \in Seq(Packets)
             /\ Len(Wire(p)) < Len(bytes) <=> rest # <<>>
             /\ rest # <<>> => /\ SegmentOK(ps, WireAll(rest)) /\ WireAll(rest) # <<>>
                               /\ RestOf(ps, WireAll(rest)) = rest
<1>1. ps \in Seq(Packets) /\ Len(bytes) < BufSize
  BY DEF SegmentOK
<1>2. PICK k \in 0..Len(ps) : bytes = WireAll(From(ps, k))
  BY DEF SegmentOK
<1>3. RestOf(ps, bytes) = From(ps, k)
  BY <1>1, <1>2, RestIs DEF Left
<1>4. k # Len(ps)
  BY <1>1, <1>2, FromEnds, WireAllEmpty
<1>5. /\ From(ps, k) \in Seq(Packets) /\ From(ps, k) # <<>>
      /\ p = ps[k + 1] /\ p \in Packets
      /\ Tail(From(ps, k)) = From(ps, k + 1) /\ k + 1 \in 0..Len(ps)
  BY <1>1, <1>3, <1>4, FromStep
<1> DEFINE a == Wire(p)
           rest == Tail(RestOf(ps, bytes))
           b == WireAll(rest)
<1>6. rest = From(ps, k + 1) /\ rest \in Seq(Packets)
  BY <1>1, <1>3, <1>5, FromType
<1>7. bytes = a \o b /\ a \in Seq(Nat) /\ b \in Seq(Nat)
  <2>1. WireAll(From(ps, k)) = Wire(Head(From(ps, k))) \o WireAll(Tail(From(ps, k)))
        /\ WireAll(Tail(From(ps, k))) \in Seq(Nat) /\ Wire(Head(From(ps, k))) \in Seq(Nat)
    BY <1>5, WireAllHead
  <2>2. Head(From(ps, k)) = p /\ Tail(From(ps, k)) = rest
    BY <1>3
  <2> QED BY <1>2, <2>1, <2>2
<1>8. Joined(bytes, a, b)
  BY <1>7, ConcatJoins
<1> HIDE DEF a, b, rest
<1>9. /\ bytes \in Seq(Nat) /\ Len(bytes) = Len(a) + Len(b) /\ Len(a) \in Nat /\ Len(b) \in Nat
      /\ \A i \in 1..Len(a) : bytes[i] = a[i]
      /\ \A i \in 1..Len(b) : bytes[Len(a) + i] = b[i]
  BY <1>7, <1>8 DEF Joined
<1>10. Behind(bytes, Len(a)) = b
  <2>1. SubSeq(bytes, Len(a) + 1, Len(a) + Len(b)) = b
    BY <1>7, <1>9, PartIs
  <2> QED BY <1>9, <2>1 DEF Behind
<1>11. ASSUME rest # <<>>
       PROVE  Len(b) > 0 /\ SegmentOK(ps, b) /\ b # <<>> /\ RestOf(ps, b) = rest
  <2>1. k + 1 # Len(ps)
    BY <1>1, <1>5, <1>6, <1>11, FromType
  <2>2. b = WireAll(From(ps, k + 1)) /\ Len(b) = Left(ps, k + 1)
    BY <1>6 DEF b, Left
  <2>3. Left(ps, k + 1) > Left(ps, (k + 1) + 1) /\ Left(ps, (k + 1) + 1) \in Nat
    BY <1>1, <1>5, <2>1, LeftStep
  <2>4. Len(b) > 0
    BY <1>9, <2>2, <2>3
  <2>5. b # <<>>
    <3>1. Len(<<>>) = 0
      OBVIOUS
    <3> QED BY <2>4, <3>1
  <2>6. RestOf(ps, b) = rest
    BY <1>1, <1>5, <1>6, <2>2, RestIs
  <2>7. Len(b) < BufSize
    BY <1>1, <1>9, Numbers
  <2>8. SegmentOK(ps, b)
    BY <1>1, <1>5, <2>2, <2>5, <2>7 DEF SegmentOK
  <2> QED BY <2>4, <2>5, <2>6, <2>8
<1>12. ASSUME rest = <<>> PROVE Len(b) = 0
  <2>1. b = <<>>
    BY <1>12, WireAllEmpty DEF b
  <2> QED BY <2>1
<1>13. Len(a) < Len(bytes) <=> rest # <<>>
  BY <1>9, <1>11, <1>12
<1>14. Len(a) <= Len(bytes)
  BY <1>9
<1> QED BY <1>5, <1>6, <1>9, <1>10, <1>11, <1>13, <1>14 DEF a, b, rest

\* A segment that arrives.
LEMMA NewSegment ==
  ASSUME NEW ps \in Seq(Packets), ps # <<>>, Len(WireAll(ps)) < BufSize
  PROVE  /\ SegmentOK(ps, WireAll(ps)) /\ RestOf(ps, WireAll(ps)) = ps
         /\ WireAll(ps) # <<>>
<1>1. From(ps, 0) = ps /\ Len(ps) \in Nat /\ 0 \in 0..Len(ps) /\ 0 # Len(ps)
  BY FromEnds
<1>2. Left(ps, 0) = Len(WireAll(ps))
  BY <1>1 DEF Left
<1>3. RestOf(ps, WireAll(ps)) = ps
  BY <1>1, <1>2, RestIs
<1>4. Left(ps, 0) > Left(ps, 0 + 1) /\ Left(ps, 0 + 1) \in Nat
  BY <1>1, LeftStep
<1>5. WireAll(ps) # <<>>
  <2>1. Len(<<>>) = 0
    OBVIOUS
  <2> QED BY <1>2, <1>4, <2>1
<1>6. SegmentOK(ps, WireAll(ps))
  <2>1. WireAll(ps) = WireAll(From(ps, 0))
    BY <1>1
  <2> QED BY <1>1, <1>5, <2>1 DEF SegmentOK
<1> QED BY <1>3, <1>5, <1>6

-----------------------------------------------------------------------------
(* The queue.                                                              *)

\* The packets that fit in a message, and their bytes.
FitPackets == {p \in Packets : Len(Wire(p)) <= BufSize}
Fit == {Wire(p) : p \in FitPackets}

\* A message is read as the packet it was made of, and has bytes.
LEMMA FitRead ==
  ASSUME NEW m \in Fit
  PROVE  Read(m) \in Packets /\ m = Wire(Read(m)) /\ m # <<>>
<1>1. PICK p \in FitPackets : m = Wire(p)
  BY DEF Fit
<1>2. p \in Packets /\ Len(Wire(p)) <= BufSize
  BY DEF FitPackets
<1>3. Read(m) = p
  BY <1>1, <1>2, ReadWire
<1>4. m # <<>>
  <2>1. Len(m) >= 4 /\ Len(<<>>) = 0
    BY <1>1, <1>2, WireLength
  <2> QED BY <2>1
<1> QED BY <1>1, <1>2, <1>3, <1>4

QueueOK(q) == q \in Seq(Fit) /\ Len(q) <= QueueMax

\* The packets of a queue.
PacketsOf(q) == [i \in DOMAIN q |-> Read(q[i])]

\* They are as many as the messages.
LEMMA ReadQueue ==
  ASSUME NEW q \in Seq(Fit)
  PROVE  /\ PacketsOf(q) \in Seq(Packets) /\ Len(PacketsOf(q)) = Len(q)
         /\ \A i \in 1..Len(q) : PacketsOf(q)[i] = Read(q[i])
<1>1. Len(q) \in Nat /\ DOMAIN q = 1..Len(q) /\ \A i \in 1..Len(q) : q[i] \in Fit
  OBVIOUS
<1>2. \A i \in 1..Len(q) : Read(q[i]) \in Packets
  BY <1>1, FitRead
<1> DEFINE R(i) == Read(q[i])
<1>3. PacketsOf(q) = [i \in 1..Len(q) |-> R(i)]
  BY <1>1 DEF PacketsOf
<1>4. \A i \in 1..Len(q) : R(i) \in Packets
  BY <1>2
<1> HIDE DEF R
<1>5. PacketsOf(q) \in Seq(Packets) /\ Len(PacketsOf(q)) = Len(q)
  BY <1>1, <1>3, <1>4
<1>6. \A i \in 1..Len(q) : PacketsOf(q)[i] = R(i)
  BY <1>3
<1> QED BY <1>5, <1>6 DEF R

\* A message that joins the queue is its packet joining the packets.
LEMMA ReadAppend ==
  ASSUME NEW q \in Seq(Fit), NEW m \in Fit
  PROVE  PacketsOf(Append(q, m)) = Append(PacketsOf(q), Read(m))
<1> DEFINE a == Append(q, m)
           x == PacketsOf(a)
           y == Append(PacketsOf(q), Read(m))
<1>1. /\ a \in Seq(Fit) /\ Len(a) = Len(q) + 1 /\ Len(q) \in Nat
      /\ \A i \in 1..Len(q) : a[i] = q[i]
      /\ a[Len(q) + 1] = m
  BY AppendProperties
<1>2. /\ PacketsOf(q) \in Seq(Packets) /\ Len(PacketsOf(q)) = Len(q)
      /\ \A i \in 1..Len(q) : PacketsOf(q)[i] = Read(q[i])
  BY ReadQueue
<1>3. x \in Seq(Packets) /\ Len(x) = Len(a) /\ \A i \in 1..Len(a) : x[i] = Read(a[i])
  BY <1>1, ReadQueue
<1>4. Read(m) \in Packets
  BY FitRead
<1>5. /\ y \in Seq(Packets) /\ Len(y) = Len(PacketsOf(q)) + 1
      /\ \A i \in 1..Len(PacketsOf(q)) : y[i] = PacketsOf(q)[i]
      /\ y[Len(PacketsOf(q)) + 1] = Read(m)
  BY <1>2, <1>4, AppendProperties
<1> HIDE DEF a, x, y
<1>6. ASSUME NEW i \in 1..Len(x) PROVE x[i] = y[i]
  <2>1. CASE i = Len(q) + 1
    BY <1>1, <1>2, <1>3, <1>5, <2>1
  <2>2. CASE i \in 1..Len(q)
    <3>1. x[i] = Read(a[i]) /\ a[i] = q[i]
      BY <1>1, <1>3, <2>2
    <3>2. y[i] = Read(q[i])
      BY <1>2, <1>5, <2>2
    <3> QED BY <3>1, <3>2
  <2> QED BY <1>1, <1>3, <2>1, <2>2
<1>7. Len(x) = Len(y)
  BY <1>1, <1>2, <1>3, <1>5
<1>8. x = y
  BY <1>3, <1>5, <1>6, <1>7, SeqEqual
<1> QED BY <1>8 DEF x, y, a

\* The oldest message that leaves is the oldest packet.
LEMMA ReadTail ==
  ASSUME NEW q \in Seq(Fit), q # <<>>
  PROVE  /\ Tail(q) \in Seq(Fit) /\ Len(Tail(q)) = Len(q) - 1 /\ Head(q) \in Fit
         /\ PacketsOf(Tail(q)) = Tail(PacketsOf(q)) /\ PacketsOf(q) # <<>>
         /\ Head(PacketsOf(q)) = Read(Head(q))
<1>1. /\ Tail(q) \in Seq(Fit) /\ Len(Tail(q)) = Len(q) - 1 /\ Len(q) \in Nat /\ Len(q) # 0
      /\ \A i \in 1..Len(q) - 1 : Tail(q)[i] = q[i + 1]
      /\ Head(q) = q[1] /\ Head(q) \in Fit
  OBVIOUS
<1> DEFINE r == PacketsOf(q)
           x == PacketsOf(Tail(q))
           y == Tail(r)
<1>2. r \in Seq(Packets) /\ Len(r) = Len(q) /\ \A i \in 1..Len(q) : r[i] = Read(q[i])
  BY ReadQueue
<1>3. x \in Seq(Packets) /\ Len(x) = Len(Tail(q))
      /\ \A i \in 1..Len(Tail(q)) : x[i] = Read(Tail(q)[i])
  BY <1>1, ReadQueue
<1> HIDE DEF r, x
<1>4. r # <<>> /\ Head(r) = r[1]
  BY <1>1, <1>2
<1>5. y \in Seq(Packets) /\ Len(y) = Len(r) - 1 /\ \A i \in 1..Len(r) - 1 : y[i] = r[i + 1]
  BY <1>2, <1>4
<1> HIDE DEF y
<1>6. ASSUME NEW i \in 1..Len(x) PROVE x[i] = y[i]
  <2>1. i \in 1..Len(q) - 1 /\ i + 1 \in 1..Len(q) /\ i \in 1..Len(Tail(q))
    BY <1>1, <1>3
  <2>2. x[i] = Read(Tail(q)[i]) /\ Tail(q)[i] = q[i + 1]
    BY <1>1, <1>3, <2>1
  <2>3. y[i] = r[i + 1] /\ r[i + 1] = Read(q[i + 1])
    BY <1>2, <1>5, <2>1
  <2> QED BY <2>2, <2>3
<1>7. x = y
  <2>1. Len(x) = Len(y)
    BY <1>1, <1>2, <1>3, <1>5
  <2> QED BY <1>3, <1>5, <1>6, <2>1, SeqEqual
<1>8. Head(r) = Read(Head(q))
  <2>1. 1 \in 1..Len(q)
    BY <1>1
  <2> QED BY <1>1, <1>2, <1>4, <2>1
<1> QED BY <1>1, <1>4, <1>7, <1>8 DEF r, x, y

\* Room is made for a packet of the application, not for an answer.
Room(q) == IF Len(q) >= QueueMax THEN Tail(q) ELSE q

\* Put: MQTT_Publish and MQTT_Subscribe make room and queue.
LEMMA PutQueue ==
  ASSUME NEW q, QueueOK(q), NEW m \in Fit
  PROVE  QueueOK(Put(q, m)) /\ PacketsOf(Put(q, m)) = Append(Room(PacketsOf(q)), Read(m))
<1>1. q \in Seq(Fit) /\ Len(q) <= QueueMax /\ Len(q) \in Nat /\ QueueMax \in Nat \ {0}
  BY InboundAssumption DEF QueueOK
<1>2. PacketsOf(q) \in Seq(Packets) /\ Len(PacketsOf(q)) = Len(q)
  BY <1>1, ReadQueue
<1>3. CASE Len(q) >= QueueMax
  <2>1. Put(q, m) = Append(Tail(q), m)
    BY <1>3 DEF Put
  <2>2. q # <<>>
    BY <1>1, <1>3
  <2>3. Tail(q) \in Seq(Fit) /\ Len(Tail(q)) = Len(q) - 1
        /\ PacketsOf(Tail(q)) = Tail(PacketsOf(q))
    BY <1>1, <2>2, ReadTail
  <2>4. PacketsOf(Append(Tail(q), m)) = Append(PacketsOf(Tail(q)), Read(m))
    BY <2>3, ReadAppend
  <2>5. Append(Tail(q), m) \in Seq(Fit) /\ Len(Append(Tail(q), m)) = Len(Tail(q)) + 1
    BY <2>3, AppendProperties
  <2>6. Room(PacketsOf(q)) = Tail(PacketsOf(q))
    BY <1>2, <1>3 DEF Room
  <2>7. QueueOK(Append(Tail(q), m))
    BY <1>1, <2>3, <2>5 DEF QueueOK
  <2> QED BY <2>1, <2>3, <2>4, <2>6, <2>7
<1>4. CASE ~(Len(q) >= QueueMax)
  <2>1. Put(q, m) = Append(q, m)
    BY <1>4 DEF Put
  <2>4. PacketsOf(Append(q, m)) = Append(PacketsOf(q), Read(m))
    BY <1>1, ReadAppend
  <2>5. Append(q, m) \in Seq(Fit) /\ Len(Append(q, m)) = Len(q) + 1
    BY <1>1, AppendProperties
  <2>6. Room(PacketsOf(q)) = PacketsOf(q)
    BY <1>2, <1>4 DEF Room
  <2>7. QueueOK(Append(q, m))
    BY <1>1, <1>4, <2>5 DEF QueueOK
  <2> QED BY <2>1, <2>4, <2>6, <2>7
<1> QED BY <1>3, <1>4

\* PutAnswer: an answer is forgotten when there is no place.
LEMMA PutAnswerQueue ==
  ASSUME NEW q, QueueOK(q), NEW m \in Fit
  PROVE  /\ QueueOK(PutAnswer(q, m))
         /\ PacketsOf(PutAnswer(q, m)) = IF Len(PacketsOf(q)) >= QueueMax THEN PacketsOf(q)
                                          ELSE Append(PacketsOf(q), Read(m))
<1>1. q \in Seq(Fit) /\ Len(q) <= QueueMax /\ Len(q) \in Nat /\ QueueMax \in Nat \ {0}
  BY InboundAssumption DEF QueueOK
<1>2. Len(PacketsOf(q)) = Len(q)
  BY <1>1, ReadQueue
<1>3. CASE Len(q) >= QueueMax
  BY <1>2, <1>3 DEF PutAnswer
<1>4. CASE ~(Len(q) >= QueueMax)
  <2>1. PutAnswer(q, m) = Append(q, m)
    BY <1>4 DEF PutAnswer
  <2>2. PacketsOf(Append(q, m)) = Append(PacketsOf(q), Read(m))
    BY <1>1, ReadAppend
  <2>3. Append(q, m) \in Seq(Fit) /\ Len(Append(q, m)) = Len(q) + 1
    BY <1>1, AppendProperties
  <2>4. QueueOK(Append(q, m))
    BY <1>1, <1>4, <2>3 DEF QueueOK
  <2> QED BY <1>2, <1>4, <2>1, <2>2, <2>4
<1> QED BY <1>3, <1>4

-----------------------------------------------------------------------------
(* The inductive invariant.                                                *)

\* The client: its identifiers are among those of Packets, as it takes one for each
\* PUBLISH and two when the session starts; its queue holds whole packets.
ClientInv ==
  /\ inSession \in BOOLEAN /\ published \in 0..MaxPublish /\ message_id \in 0..MaxId
  /\ message_id <= published + (IF inSession THEN 2 ELSE 0)
  /\ QueueOK(msgQueue)

\* What the broker answers.
Acks == {Plain(t, i) : t \in {PUBACK, PUBREC, PUBREL, PUBCOMP, SUBACK}, i \in AllIds}

Stages == {None, PUBACK, PUBREC, PUBCOMP}

BrokerInv ==
  /\ greeted \in BOOLEAN /\ subscribed \in BOOLEAN /\ sent \in 0..MaxInbound
  /\ stage \in [Ids -> Stages] /\ owes \subseteq Acks

InboundInv == ClientInv /\ BrokerInv /\ SegmentOK(segment, pdata)

\* Rest, of this state and of the next.
LEMMA RestDef == Rest = RestOf(segment, pdata) /\ Rest' = RestOf(segment', pdata')
BY Zenon DEF Rest, RestOf

\* What the broker answers are packets.
LEMMA AcksArePackets == Acks \subseteq Packets
BY DEF Acks, Packets

\* The invariant holds at the start.
LEMMA InitInv == InboundInit => InboundInv
<1> SUFFICES ASSUME InboundInit PROVE InboundInv
  OBVIOUS
<1>0. MaxPublish \in Nat /\ MaxInbound \in Nat /\ QueueMax \in Nat /\ MaxId \in Nat
  BY InboundAssumption, Numbers
<1>1. ClientInv
  <2>1. <<>> \in Seq(Fit) /\ Len(<<>>) = 0
    OBVIOUS
  <2>2. QueueOK(msgQueue)
    BY <1>0, <2>1 DEF InboundInit, QueueOK
  <2>3. inSession = FALSE /\ published = 0 /\ message_id = 0
    BY DEF InboundInit
  <2>4. published \in 0..MaxPublish /\ message_id \in 0..MaxId
        /\ message_id <= published + (IF inSession THEN 2 ELSE 0)
    BY <1>0, <2>3
  <2> QED BY <2>2, <2>3, <2>4 DEF ClientInv
<1>2. BrokerInv
  <2>1. /\ greeted = FALSE /\ subscribed = FALSE /\ stage = [i \in Ids |-> None]
        /\ owes = {} /\ sent = 0
    BY DEF InboundInit
  <2>2. stage \in [Ids -> Stages]
    BY <2>1 DEF Stages
  <2>3. sent \in 0..MaxInbound
    BY <1>0, <2>1
  <2> QED BY <2>1, <2>2, <2>3 DEF BrokerInv
<1>3. SegmentOK(segment, pdata)
  BY NoSegment DEF InboundInit
<1> QED BY <1>1, <1>2, <1>3 DEF InboundInv

\* The next identifier of the client.
LEMMA NextIdBound ==
  ASSUME NEW i \in 0..MaxId
  PROVE  NextId(i) \in 1..MaxId /\ NextId(i) <= i + 1
<1>1. MaxId \in Nat /\ MaxId >= 35
  BY Numbers
<1> QED BY <1>1 DEF NextId

\* The identifiers the client takes are among those of Packets.
LEMMA IdThere ==
  ASSUME NEW i \in Nat, i >= 1, i <= MaxPublish + 2
  PROVE  i \in AllIds
<1>1. MaxPublish \in Nat
  BY InboundAssumption
<1>2. i \in 1..2 + MaxPublish
  BY <1>1
<1> QED BY <1>2 DEF AllIds

\* What mqttConnectedCb does to the queue.
LEMMA Connected ==
  ASSUME ClientInv, ~inSession, mqttConnectedCb
  PROVE  /\ message_id' \in 0..MaxId /\ message_id' <= published + 2
         /\ QueueOK(msgQueue')
         /\ \E s, a \in Packets :
              /\ PacketsOf(msgQueue') = Append(Room(Append(Room(PacketsOf(msgQueue)), s)), a)
              /\ s.type = SUBSCRIBE /\ a.type = PUBLISH
<1> DEFINE x == NextId(message_id)
           y == NextId(x)
<1>1. /\ message_id' = y
      /\ msgQueue' = Put(Put(msgQueue, mqtt_msg_subscribe(Topic, 0, x)),
                         mqtt_msg_publish(Topic, MyId, 1, y))
  BY DEF mqttConnectedCb
<1>2. /\ message_id \in 0..MaxId /\ message_id <= published /\ published \in 0..MaxPublish
      /\ QueueOK(msgQueue) /\ MaxPublish \in Nat /\ MaxId \in Nat
  BY InboundAssumption, Numbers DEF ClientInv
<1>3. x \in 1..MaxId /\ x <= message_id + 1
  BY <1>2, NextIdBound
<1> HIDE DEF x
<1>4. y \in 1..MaxId /\ y <= x + 1
  BY <1>3, NextIdBound
<1> HIDE DEF y
<1>5. x \in AllIds /\ y \in AllIds /\ y <= published + 2
  <2>1. x \in Nat /\ x >= 1 /\ x <= MaxPublish + 2 /\ y \in Nat /\ y >= 1
        /\ y <= MaxPublish + 2 /\ y <= published + 2
    BY <1>2, <1>3, <1>4
  <2> QED BY <2>1, IdThere
<1>6. PICK s \in Packets : /\ mqtt_msg_subscribe(Topic, 0, x) = Wire(s)
                           /\ Len(Wire(s)) <= BufSize /\ s.type = SUBSCRIBE
  BY <1>5, SubscribeBuilt
<1>7. PICK a \in Packets : /\ mqtt_msg_publish(Topic, MyId, 1, y) = Wire(a)
                           /\ Len(Wire(a)) <= BufSize /\ a.type = PUBLISH
  <2>1. \/ mqtt_msg_publish(Topic, MyId, 1, y) = fail_message
           /\ MaxFixedHeader + 4 + Len(Topic) + Len(MyId) > BufSize
        \/ \E p \in Packets : /\ mqtt_msg_publish(Topic, MyId, 1, y) = Wire(p)
                              /\ Len(Wire(p)) <= BufSize /\ p.type = PUBLISH
    BY <1>5, PublishBuilt
  <2>2. ~(MaxFixedHeader + 4 + Len(Topic) + Len(MyId) > BufSize)
    BY Lengths, Numbers
  <2> QED BY <2>1, <2>2
<1>8. /\ Wire(s) \in Fit /\ Wire(a) \in Fit /\ Read(Wire(s)) = s /\ Read(Wire(a)) = a
  BY <1>6, <1>7, ReadWire DEF Fit, FitPackets
<1> DEFINE q == Put(msgQueue, Wire(s))
<1>9. QueueOK(q) /\ PacketsOf(q) = Append(Room(PacketsOf(msgQueue)), s)
  BY <1>2, <1>8, PutQueue
<1>10. msgQueue' = Put(q, Wire(a))
  BY <1>1, <1>6, <1>7
<1> HIDE DEF q
<1>11. QueueOK(msgQueue') /\ PacketsOf(msgQueue') = Append(Room(PacketsOf(q)), a)
  BY <1>8, <1>9, <1>10, PutQueue
<1>12. PacketsOf(msgQueue') = Append(Room(Append(Room(PacketsOf(msgQueue)), s)), a)
  BY <1>9, <1>11
<1> QED BY <1>1, <1>4, <1>5, <1>6, <1>7, <1>11, <1>12

\* What a round of the loop does to the packets.
LEMMA ReadStep ==
  ASSUME InboundInv, NEW stale \in Nat, READPACKET(stale), NEW p, p = Head(Rest)
  PROVE  /\ Rest # <<>> /\ p \in Packets /\ Rest \in Seq(Packets)
         /\ SegmentOK(segment', pdata')
         /\ \/ /\ ~inSession /\ Rest' = <<>> /\ delivered' = <<>>
               /\ \/ p.type = CONNACK /\ inSession' = TRUE /\ mqttConnectedCb
                  \/ /\ p.type # CONNACK
                     /\ UNCHANGED <<inSession, message_id, msgQueue>>
            \/ /\ inSession /\ UNCHANGED <<inSession, message_id>>
               /\ msgQueue' = IF AnswerType(p.type, p.qos) = None THEN msgQueue
                    ELSE PutAnswer(msgQueue,
                                   mqtt_msg_answer(AnswerType(p.type, p.qos), p.id))
               /\ delivered' = IF p.type = PUBLISH
                               THEN <<[topic |-> p.topic, data |-> p.data]>> ELSE <<>>
               /\ Rest' = IF p.type = PUBLISH THEN Tail(Rest) ELSE <<>>
<1> DEFINE len    == Len(pdata)
           fill   == [i \in 1..BufSize - len |-> stale]
           buffer == pdata \o fill
           type   == mqtt_get_type(buffer)
           qos    == mqtt_get_qos(buffer)
           id     == mqtt_get_id(buffer, BufSize)
           total  == mqtt_get_total_length(buffer, len)
           answer == AnswerType(type, qos)
           rest   == Tail(Rest)
           next   == IF p.type = PUBLISH THEN rest ELSE <<>>
<1>0. SegmentOK(segment, pdata) /\ pdata # <<>> /\ Rest = RestOf(segment, pdata)
  BY RestDef DEF InboundInv, READPACKET
<1>1. /\ Rest \in Seq(Packets) /\ pdata \in Seq(Nat) /\ Rest # <<>>
  BY <1>0, SegmentRest
<1>2. /\ p \in Packets /\ Len(Wire(p)) <= len
      /\ \A i \in 1..Len(Wire(p)) : pdata[i] = Wire(p)[i]
      /\ Behind(pdata, Len(Wire(p))) = WireAll(rest)
      /\ rest \in Seq(Packets)
      /\ Len(Wire(p)) < len <=> rest # <<>>
      /\ rest # <<>> => /\ SegmentOK(segment, WireAll(rest)) /\ WireAll(rest) # <<>>
                        /\ RestOf(segment, WireAll(rest)) = rest
  BY <1>0, SegmentNext
<1>3. /\ PacketOK(p) /\ Len(Wire(p)) \in Nat /\ len \in Nat /\ BufSize \in Nat
      /\ len < BufSize /\ Len(Wire(p)) < BufSize
  <2>1. PacketOK(p) /\ Len(Wire(p)) \in Nat
    BY <1>2, PacketParts, WireLength
  <2>2. len \in Nat /\ BufSize \in Nat /\ len < BufSize
    BY <1>0, <1>1, Numbers DEF SegmentOK
  <2>3. Len(Wire(p)) <= len
    BY <1>2
  <2> HIDE DEF len
  <2> QED BY <2>1, <2>2, <2>3
<1>4. Begins(buffer, p)
  <2>1. fill \in Seq(Nat)
    <3>1. BufSize - len \in Nat
      BY <1>3
    <3> QED BY <3>1
  <2> HIDE DEF fill
  <2>2. \A i \in 1..len : buffer[i] = pdata[i]
    BY <1>1, <2>1, ConcatJoins DEF Joined
  <2> HIDE DEF buffer
  <2>3. ASSUME NEW i \in 1..Len(Wire(p)) PROVE buffer[i] = Wire(p)[i]
    <3>1. i \in 1..len
      BY <1>2, <1>3
    <3> QED BY <1>2, <2>2, <3>1
  <2>4. Len(Wire(p)) <= BufSize
    BY <1>3
  <2> QED BY <1>3, <2>3, <2>4 DEF Begins
<1> HIDE DEF buffer
<1>5. type = p.type /\ qos = p.qos /\ answer = AnswerType(p.type, p.qos)
  <2>1. type = p.type /\ qos = p.qos
    BY <1>4, HeaderFound
  <2> QED BY <2>1
<1>6. total = Len(Wire(p))
  BY <1>2, <1>3, <1>4, TotalFound
<1>7. answer # None => id = p.id /\ id # 0
  <2> SUFFICES ASSUME answer # None PROVE id = p.id /\ id # 0
    OBVIOUS
  <2>1. p.type \in {PUBREC, PUBREL} \/ (p.type = PUBLISH /\ p.qos > 0)
    <3>1. p.qos \in 0..2
      BY <1>3 DEF PacketOK
    <3>2. AnswerType(p.type, p.qos) # None
      BY <1>5
    <3> QED BY <3>1, <3>2, TypeNumbers DEF AnswerType
  <2>2. id = p.id
    BY <1>3, <1>4, <2>1, IdFound
  <2>3. p.id \in AllIds
    <3>1. p.type \notin {PUBLISH, SUBSCRIBE, CONNACK} \/ (p.type = PUBLISH /\ p.qos # 0)
      BY <2>1, TypeNumbers
    <3> QED BY <1>3, <3>1 DEF PacketOK
  <2> QED BY <2>2, <2>3, Lengths
<1>8. \/ /\ ~inSession
         /\ IF type = CONNACK /\ buffer[4] = 0
            THEN inSession' = TRUE /\ mqttConnectedCb
            ELSE UNCHANGED <<inSession, message_id, msgQueue>>
         /\ pdata' = <<>>
         /\ delivered' = <<>>
      \/ /\ inSession
         /\ message_id' = IF answer # None /\ id = 0 THEN NextId(message_id) ELSE message_id
         /\ msgQueue' = IF answer = None THEN msgQueue
              ELSE PutAnswer(msgQueue,
                     mqtt_msg_answer(answer, IF id = 0 THEN message_id' ELSE id))
         /\ delivered' = IF type = PUBLISH THEN <<deliver_publish(buffer, len)>> ELSE <<>>
         /\ pdata' = IF ReadsOn(type, total, len) THEN Behind(pdata, total) ELSE <<>>
         /\ UNCHANGED inSession
  BY Zenon DEF READPACKET, buffer
<1>9. segment' = IF pdata' = <<>> THEN <<>> ELSE segment
  BY DEF READPACKET
<1> HIDE DEF type, qos, id, total, answer, len
<1>10. CASE ~inSession
  <2>1. /\ IF type = CONNACK /\ buffer[4] = 0
           THEN inSession' = TRUE /\ mqttConnectedCb
           ELSE UNCHANGED <<inSession, message_id, msgQueue>>
        /\ pdata' = <<>>
        /\ delivered' = <<>>
    BY <1>8, <1>10, Zenon
  <2>2. segment' = <<>>
    BY <1>9, <2>1
  <2>3. SegmentOK(segment', pdata') /\ Rest' = <<>>
    BY <2>1, <2>2, NoSegment, RestDef
  <2>4. CASE p.type = CONNACK
    <3>1. buffer[4] = 0
      BY <1>4, <2>4, AcceptFound
    <3>2. inSession' = TRUE /\ mqttConnectedCb
      BY <1>5, <2>1, <2>4, <3>1, Zenon
    <3> QED BY <1>1, <1>2, <1>10, <2>1, <2>3, <2>4, <3>2, Zenon
  <2>5. CASE p.type # CONNACK
    <3>1. UNCHANGED <<inSession, message_id, msgQueue>>
      BY <1>5, <2>1, <2>5, Zenon
    <3> QED BY <1>1, <1>2, <1>10, <2>1, <2>3, <2>5, <3>1, Zenon
  <2> QED BY <2>4, <2>5
<1>11. CASE inSession
  <2>1. /\ message_id' = IF answer # None /\ id = 0 THEN NextId(message_id) ELSE message_id
        /\ msgQueue' = IF answer = None THEN msgQueue
             ELSE PutAnswer(msgQueue,
                    mqtt_msg_answer(answer, IF id = 0 THEN message_id' ELSE id))
        /\ delivered' = IF type = PUBLISH THEN <<deliver_publish(buffer, len)>> ELSE <<>>
        /\ pdata' = IF ReadsOn(type, total, len) THEN Behind(pdata, total) ELSE <<>>
        /\ UNCHANGED inSession
    BY <1>8, <1>11, Zenon
  <2>2. message_id' = message_id
    BY <1>7, <2>1
  <2>3. msgQueue' = IF AnswerType(p.type, p.qos) = None THEN msgQueue
                    ELSE PutAnswer(msgQueue, mqtt_msg_answer(AnswerType(p.type, p.qos), p.id))
    <3>1. CASE answer = None
      BY <1>5, <2>1, <3>1, Zenon
    <3>2. CASE answer # None
      <4>1. msgQueue' = PutAnswer(msgQueue,
                          mqtt_msg_answer(answer, IF id = 0 THEN message_id' ELSE id))
        BY <2>1, <3>2, Zenon
      <4>2. (IF id = 0 THEN message_id' ELSE id) = p.id
        BY <1>7, <3>2, Zenon
      <4> QED BY <1>5, <3>2, <4>1, <4>2, Zenon
    <3> QED BY <3>1, <3>2
  <2>4. delivered' = IF p.type = PUBLISH
                     THEN <<[topic |-> p.topic, data |-> p.data]>> ELSE <<>>
    <3>1. CASE p.type = PUBLISH
      <4>1. deliver_publish(buffer, len) = [topic |-> p.topic, data |-> p.data]
        BY <1>2, <1>3, <1>4, <3>1, DeliverFound DEF len
      <4> QED BY <1>5, <2>1, <3>1, <4>1, Zenon
    <3>2. CASE p.type # PUBLISH
      BY <1>5, <2>1, <3>2, Zenon
    <3> QED BY <3>1, <3>2
  <2>5. SegmentOK(segment', pdata') /\ Rest' = next
    <3>1. CASE p.type = PUBLISH /\ rest # <<>>
      <4>1. pdata' = WireAll(rest)
        <5>1. ReadsOn(type, total, len)
          BY <1>2, <1>5, <1>6, <3>1 DEF ReadsOn, len
        <5> QED BY <1>2, <1>6, <2>1, <5>1, Zenon
      <4>2. SegmentOK(segment, WireAll(rest)) /\ WireAll(rest) # <<>>
            /\ RestOf(segment, WireAll(rest)) = rest
        BY <1>2, <3>1, Zenon
      <4>3. segment' = segment
        BY <1>9, <4>1, <4>2, Zenon
      <4>4. next = rest
        BY <3>1
      <4> HIDE DEF next, rest
      <4> QED BY <4>1, <4>2, <4>3, <4>4, RestDef
    <3>2. CASE ~(p.type = PUBLISH /\ rest # <<>>)
      <4>1. pdata' = <<>>
        <5>1. ~ReadsOn(type, total, len)
          BY <1>2, <1>5, <1>6, <3>2 DEF ReadsOn, len
        <5> QED BY <2>1, <5>1, Zenon
      <4>2. segment' = <<>>
        BY <1>9, <4>1
      <4>3. next = <<>>
        BY <3>2
      <4> HIDE DEF next, rest
      <4> QED BY <4>1, <4>2, <4>3, NoSegment, RestDef
    <3> QED BY <3>1, <3>2
  <2> QED BY <1>1, <1>2, <1>11, <2>1, <2>2, <2>3, <2>4, <2>5, Zenon
<1> QED BY <1>10, <1>11

\* The bounds are numbers.
LEMMA Bounds ==
  /\ MaxPublish \in Nat /\ MaxInbound \in Nat /\ QueueMax \in Nat \ {0} /\ MaxSegment \in Nat
  /\ MaxId \in Nat /\ MaxId >= 35
BY InboundAssumption, Numbers

-----------------------------------------------------------------------------
(* The steps.                                                              *)

\* A round of the loop keeps the invariant.
LEMMA ReadInv ==
  ASSUME InboundInv, NEW stale \in Nat, READPACKET(stale)
  PROVE  InboundInv'
<1> DEFINE p == Head(Rest)
           a == AnswerType(p.type, p.qos)
<1>1. /\ p \in Packets /\ SegmentOK(segment', pdata')
      /\ \/ /\ ~inSession
            /\ \/ p.type = CONNACK /\ inSession' = TRUE /\ mqttConnectedCb
               \/ UNCHANGED <<inSession, message_id, msgQueue>>
         \/ /\ inSession /\ UNCHANGED <<inSession, message_id>>
            /\ msgQueue' = IF a = None THEN msgQueue
                           ELSE PutAnswer(msgQueue, mqtt_msg_answer(a, p.id))
  BY ReadStep, Zenon
<1>2. ClientInv /\ BrokerInv
  BY DEF InboundInv
<1>3. UNCHANGED <<published, greeted, subscribed, stage, owes, sent>>
  BY DEF READPACKET
<1>4. BrokerInv'
  BY <1>2, <1>3 DEF BrokerInv
<1>5. ClientInv'
  <2>1. CASE ~inSession /\ inSession' = TRUE /\ mqttConnectedCb
    <3>1. message_id' \in 0..MaxId /\ message_id' <= published + 2 /\ QueueOK(msgQueue')
      BY <1>2, <2>1, Connected
    <3>2. published' = published /\ published \in 0..MaxPublish
      BY <1>2, <1>3 DEF ClientInv
    <3> QED BY <2>1, <3>1, <3>2 DEF ClientInv
  <2>2. CASE UNCHANGED <<inSession, message_id, msgQueue>>
    BY <1>2, <1>3, <2>2 DEF ClientInv
  <2>3. CASE /\ inSession /\ UNCHANGED <<inSession, message_id>>
             /\ msgQueue' = IF a = None THEN msgQueue
                            ELSE PutAnswer(msgQueue, mqtt_msg_answer(a, p.id))
    <3>1. QueueOK(msgQueue)
      BY <1>2 DEF ClientInv
    <3>2. QueueOK(msgQueue')
      <4>1. CASE a = None
        BY <2>3, <3>1, <4>1
      <4>2. CASE a # None
        <5>1. a \in {PUBACK, PUBREC, PUBREL, PUBCOMP} /\ p.id \in AllIds
          <6>1. PacketOK(p)
            BY <1>1, PacketParts
          <6> HIDE DEF p
          <6> QED BY <4>2, <6>1, TypeNumbers DEF AnswerType, PacketOK
        <5> HIDE DEF a, p
        <5>2. mqtt_msg_answer(a, p.id) \in Fit
          BY <5>1, AnswerBuilt DEF Fit, FitPackets
        <5>3. msgQueue' = PutAnswer(msgQueue, mqtt_msg_answer(a, p.id))
          BY <2>3, <4>2, Zenon
        <5> QED BY <3>1, <5>2, <5>3, PutAnswerQueue
      <4> QED BY <4>1, <4>2
    <3> QED BY <1>2, <1>3, <2>3, <3>2 DEF ClientInv
  <2> QED BY <1>1, <2>1, <2>2, <2>3, Zenon
<1> QED BY <1>1, <1>4, <1>5 DEF InboundInv

\* The application publishes.
LEMMA PublishStep ==
  ASSUME InboundInv, NEW d \in Payloads, NEW q \in 0..2, MQTT_Publish(d, q)
  PROVE  /\ InboundInv' /\ Rest' = Rest /\ delivered' = <<>> /\ inSession' = inSession
         /\ \/ PacketsOf(msgQueue') = PacketsOf(msgQueue)
            \/ \E p \in Packets : /\ PacketsOf(msgQueue') = Append(Room(PacketsOf(msgQueue)), p)
                                  /\ p.type = PUBLISH
<1> DEFINE i == IF q > 0 THEN NextId(message_id) ELSE message_id
           m == mqtt_msg_publish(Topic, d, q, i)
<1>1. /\ published < MaxPublish /\ published' = published + 1
      /\ message_id' = i
      /\ msgQueue' = IF m = fail_message THEN msgQueue ELSE Put(msgQueue, m)
      /\ delivered' = <<>> /\ inSession' = inSession /\ pdata' = pdata
      /\ UNCHANGED <<greeted, subscribed, stage, owes, sent, segment>>
  BY DEF MQTT_Publish, broker
<1>2. /\ inSession \in BOOLEAN /\ published \in 0..MaxPublish /\ message_id \in 0..MaxId
      /\ message_id <= published + (IF inSession THEN 2 ELSE 0)
      /\ QueueOK(msgQueue)
  BY DEF InboundInv, ClientInv
<1>3. /\ i \in 0..MaxId /\ i <= published + 1 + (IF inSession THEN 2 ELSE 0)
      /\ q > 0 => i \in AllIds
  <2>1. CASE q > 0
    <3>1. i \in 1..MaxId /\ i <= message_id + 1
      BY <1>2, <2>1, NextIdBound
    <3> HIDE DEF i
    <3>2. i >= 1 /\ i \in Nat /\ i <= MaxPublish + 2
      BY <1>1, <1>2, <3>1, Bounds
    <3>3. i \in AllIds
      BY <3>2, IdThere
    <3> QED BY <1>2, <3>1, <3>3, Bounds
  <2>2. CASE ~(q > 0)
    <3>1. i = message_id
      BY <2>2
    <3> HIDE DEF i
    <3> QED BY <1>2, <2>2, <3>1, Bounds
  <2> QED BY <2>1, <2>2
<1> HIDE DEF i
<1>4. \/ m = fail_message
      \/ \E p \in Packets : m = Wire(p) /\ Len(Wire(p)) <= BufSize /\ p.type = PUBLISH
  BY <1>3, PublishBuilt
<1> HIDE DEF m
<1>5. /\ QueueOK(msgQueue')
      /\ \/ PacketsOf(msgQueue') = PacketsOf(msgQueue)
         \/ \E p \in Packets : /\ PacketsOf(msgQueue') = Append(Room(PacketsOf(msgQueue)), p)
                               /\ p.type = PUBLISH
  <2>1. CASE m = fail_message
    BY <1>1, <1>2, <2>1
  <2>2. CASE m # fail_message
    <3>1. PICK p \in Packets : m = Wire(p) /\ Len(Wire(p)) <= BufSize /\ p.type = PUBLISH
      BY <1>4, <2>2
    <3>2. m \in Fit /\ Read(m) = p
      BY <3>1, ReadWire DEF Fit, FitPackets
    <3>3. /\ QueueOK(Put(msgQueue, m))
          /\ PacketsOf(Put(msgQueue, m)) = Append(Room(PacketsOf(msgQueue)), p)
      BY <1>2, <3>2, PutQueue
    <3>4. msgQueue' = Put(msgQueue, m)
      BY <1>1, <2>2
    <3> QED BY <3>1, <3>3, <3>4
  <2> QED BY <2>1, <2>2
<1>6. ClientInv'
  <2>1. published' \in 0..MaxPublish
    BY <1>1, <1>2, Bounds
  <2>2. message_id' <= published' + (IF inSession' THEN 2 ELSE 0) /\ message_id' \in 0..MaxId
    BY <1>1, <1>3
  <2> QED BY <1>1, <1>2, <1>5, <2>1, <2>2 DEF ClientInv
<1>7. BrokerInv' /\ SegmentOK(segment', pdata') /\ Rest' = Rest
  BY <1>1, RestDef DEF InboundInv, BrokerInv
<1> QED BY <1>1, <1>5, <1>6, <1>7 DEF InboundInv

\* The oldest packet is sent.
LEMMA TaskStep ==
  ASSUME InboundInv, MQTT_Task
  PROVE  /\ InboundInv' /\ Rest' = Rest /\ delivered' = <<>> /\ inSession' = inSession
         /\ PacketsOf(msgQueue) # <<>> /\ PacketsOf(msgQueue') = Tail(PacketsOf(msgQueue))
         /\ Head(PacketsOf(msgQueue)) \in Packets /\ Gets(Head(PacketsOf(msgQueue)))
<1> DEFINE p == Read(Head(msgQueue))
<1>1. /\ msgQueue # <<>> /\ msgQueue' = Tail(msgQueue) /\ Gets(p) /\ delivered' = <<>>
      /\ UNCHANGED <<inSession, message_id, pdata, published, greeted, sent, segment>>
  BY DEF MQTT_Task
<1>2. ClientInv /\ BrokerInv /\ msgQueue \in Seq(Fit) /\ Len(msgQueue) <= QueueMax
  BY DEF InboundInv, ClientInv, QueueOK
<1>3. /\ Tail(msgQueue) \in Seq(Fit) /\ Len(Tail(msgQueue)) = Len(msgQueue) - 1
      /\ Head(msgQueue) \in Fit /\ PacketsOf(Tail(msgQueue)) = Tail(PacketsOf(msgQueue))
      /\ PacketsOf(msgQueue) # <<>> /\ Head(PacketsOf(msgQueue)) = p
  BY <1>1, <1>2, ReadTail
<1>4. p \in Packets
  BY <1>3, FitRead
<1>5. PacketOK(p)
  BY <1>4, PacketParts
<1> HIDE DEF p
<1>6. QueueOK(msgQueue')
  <2>1. Len(msgQueue) \in Nat
    BY <1>2
  <2> QED BY <1>1, <1>2, <1>3, <2>1, Bounds DEF QueueOK
<1>7. ClientInv'
  BY <1>1, <1>2, <1>6 DEF ClientInv
<1>8. owes' \subseteq Acks
  <2>1. \A t \in {PUBACK, PUBREC, PUBREL, PUBCOMP, SUBACK}, i \in AllIds : Plain(t, i) \in Acks
    BY DEF Acks
  <2>2. owes \subseteq Acks
    BY <1>2 DEF BrokerInv
  <2>3. p.type \in {SUBSCRIBE, PUBREL, PUBREC} \/ (p.type = PUBLISH /\ p.qos # 0)
        => p.id \in AllIds
    BY <1>5, TypeNumbers DEF PacketOK
  <2>4. owes' = CASE p.type = SUBSCRIBE -> owes \cup {Plain(SUBACK, p.id)}
                  [] p.type = PUBLISH /\ p.qos = 1 -> owes \cup {Plain(PUBACK, p.id)}
                  [] p.type = PUBLISH /\ p.qos = 2 -> owes \cup {Plain(PUBREC, p.id)}
                  [] p.type = PUBREL -> owes \cup {Plain(PUBCOMP, p.id)}
                  [] p.type = PUBREC -> owes \cup {Plain(PUBREL, p.id)}
                  [] OTHER -> owes
    BY <1>1 DEF Gets
  <2>5. CASE p.type = SUBSCRIBE
    <3>1. owes' = owes \cup {Plain(SUBACK, p.id)}
      BY <2>4, <2>5, TypeNumbers
    <3> QED BY <2>1, <2>2, <2>3, <2>5, <3>1
  <2>6. CASE p.type = PUBLISH /\ p.qos = 1
    <3>1. owes' = owes \cup {Plain(PUBACK, p.id)}
      BY <2>4, <2>6, TypeNumbers
    <3> QED BY <2>1, <2>2, <2>3, <2>6, <3>1
  <2>7. CASE p.type = PUBLISH /\ p.qos = 2
    <3>1. owes' = owes \cup {Plain(PUBREC, p.id)}
      BY <2>4, <2>7, TypeNumbers
    <3> QED BY <2>1, <2>2, <2>3, <2>7, <3>1
  <2>8. CASE p.type = PUBREL
    <3>1. owes' = owes \cup {Plain(PUBCOMP, p.id)}
      BY <2>4, <2>8, TypeNumbers
    <3> QED BY <2>1, <2>2, <2>3, <2>8, <3>1
  <2>9. CASE p.type = PUBREC
    <3>1. owes' = owes \cup {Plain(PUBREL, p.id)}
      BY <2>4, <2>9, TypeNumbers
    <3> QED BY <2>1, <2>2, <2>3, <2>9, <3>1
  <2>10. CASE /\ p.type \notin {SUBSCRIBE, PUBREL, PUBREC}
              /\ ~(p.type = PUBLISH /\ p.qos = 1) /\ ~(p.type = PUBLISH /\ p.qos = 2)
    <3>1. owes' = owes
      BY <2>4, <2>10
    <3> QED BY <2>2, <3>1
  <2> QED BY <2>5, <2>6, <2>7, <2>8, <2>9, <2>10
<1>9. stage' \in [Ids -> Stages]
  <2>1. stage \in [Ids -> Stages] /\ None \in Stages /\ PUBCOMP \in Stages
    BY <1>2 DEF BrokerInv, Stages
  <2>2. stage' = CASE p.type \in {PUBACK, PUBCOMP} -> [stage EXCEPT ![p.id] = None]
                   [] p.type = PUBREC -> [stage EXCEPT ![p.id] = PUBCOMP]
                   [] OTHER -> stage
    BY <1>1 DEF Gets
  <2>3. \/ stage' = [stage EXCEPT ![p.id] = None] \/ stage' = [stage EXCEPT ![p.id] = PUBCOMP]
        \/ stage' = stage
    BY <2>2
  <2> QED BY <2>1, <2>3
<1>10. subscribed' \in BOOLEAN
  BY <1>1 DEF Gets
<1>11. BrokerInv'
  BY <1>1, <1>2, <1>8, <1>9, <1>10 DEF BrokerInv
<1>12. SegmentOK(segment', pdata') /\ Rest' = Rest
  BY <1>1, RestDef DEF InboundInv
<1> QED BY <1>1, <1>3, <1>4, <1>7, <1>11, <1>12 DEF InboundInv

\* A segment arrives, or is too long and does not.
LEMMA Arrives ==
  ASSUME InboundInv, NEW ps \in Seq(Packets), ps # <<>>, mqtt_tcpclient_recv(ps)
  PROVE  /\ SegmentOK(segment', pdata') /\ ClientInv' /\ Rest = <<>>
         /\ Rest' \in {ps, <<>>} /\ delivered' = <<>>
         /\ UNCHANGED <<inSession, msgQueue, message_id, published>>
<1>1. /\ pdata = <<>> /\ delivered' = <<>>
      /\ pdata' = IF Len(WireAll(ps)) < BufSize THEN WireAll(ps) ELSE <<>>
      /\ segment' = IF pdata' = <<>> THEN <<>> ELSE ps
      /\ UNCHANGED <<inSession, message_id, msgQueue, published>>
  BY DEF mqtt_tcpclient_recv
<1>2. Rest = <<>>
  <2>1. segment = <<>>
    BY <1>1 DEF InboundInv, SegmentOK
  <2> QED BY <1>1, <2>1, NoSegment, RestDef
<1>3. ClientInv'
  BY <1>1 DEF InboundInv, ClientInv
<1>4. CASE Len(WireAll(ps)) < BufSize
  <2>1. SegmentOK(ps, WireAll(ps)) /\ RestOf(ps, WireAll(ps)) = ps /\ WireAll(ps) # <<>>
    BY <1>4, NewSegment
  <2>2. pdata' = WireAll(ps) /\ segment' = ps
    BY <1>1, <1>4, <2>1
  <2> QED BY <1>1, <1>2, <1>3, <2>1, <2>2, RestDef
<1>5. CASE ~(Len(WireAll(ps)) < BufSize)
  <2>1. pdata' = <<>> /\ segment' = <<>>
    BY <1>1, <1>5
  <2> QED BY <1>1, <1>2, <1>3, <2>1, NoSegment, RestDef
<1> QED BY <1>4, <1>5

\* The broker sends.
LEMMA BrokerStep ==
  ASSUME InboundInv, BrokerSends
  PROVE  /\ InboundInv' /\ Rest = <<>> /\ Rest' \in Seq(Packets) /\ delivered' = <<>>
         /\ UNCHANGED <<inSession, msgQueue>>
<1>1. ClientInv /\ BrokerInv
  BY DEF InboundInv
<1>2. CASE /\ ~greeted /\ greeted' = TRUE
           /\ mqtt_tcpclient_recv(<<Plain(CONNACK, 0)>>)
           /\ UNCHANGED <<subscribed, stage, owes, sent>>
  <2> DEFINE ps == <<Plain(CONNACK, 0)>>
  <2>1. ps \in Seq(Packets) /\ ps # <<>>
    <3>1. Plain(CONNACK, 0) \in Packets
      BY PacketsThere
    <3> QED BY <3>1
  <2> HIDE DEF ps
  <2>2. /\ SegmentOK(segment', pdata') /\ ClientInv' /\ Rest = <<>>
        /\ Rest' \in {ps, <<>>} /\ delivered' = <<>>
        /\ UNCHANGED <<inSession, msgQueue, message_id, published>>
    BY <1>2, <2>1, Arrives DEF ps
  <2>3. BrokerInv'
    BY <1>1, <1>2 DEF BrokerInv
  <2>4. Rest' \in Seq(Packets)
    <3>1. <<>> \in Seq(Packets)
      OBVIOUS
    <3>2. Rest' = ps \/ Rest' = <<>>
      BY <2>2, Zenon
    <3> QED BY <2>1, <3>1, <3>2, Zenon
  <2>5. ClientInv' /\ SegmentOK(segment', pdata')
    BY <2>2
  <2>6. InboundInv'
    BY <2>3, <2>5, Zenon DEF InboundInv
  <2>7. UNCHANGED <<inSession, msgQueue>>
    BY <2>2
  <2> QED BY <2>2, <2>4, <2>6, <2>7, Zenon
<1>3. CASE /\ greeted /\ pdata = <<>>
           /\ LET some == Sendable
              IN  \E n \in 1..MaxSegment : \E ps \in [1..n -> some] :
                    /\ \A i, j \in 1..n : i < j /\ ps[i].id # 0 =>
                         <<ps[i].type, ps[i].id>> # <<ps[j].type, ps[j].id>>
                    /\ sent' = sent + Cardinality(PublishesIn(ps)) /\ sent' <= MaxInbound
                    /\ mqtt_tcpclient_recv(ps)
                    /\ owes' = owes \ Range(ps)
                    /\ stage' = [id \in Ids |->
                         IF \E i \in PublishesIn(ps) : ps[i].id = id
                         THEN Awaited(ps[CHOOSE i \in PublishesIn(ps) : ps[i].id = id].qos)
                         ELSE stage[id]]
           /\ UNCHANGED <<greeted, subscribed>>
  <2>1. PICK n \in 1..MaxSegment : \E ps \in [1..n -> Sendable] :
                    /\ sent' = sent + Cardinality(PublishesIn(ps)) /\ sent' <= MaxInbound
                    /\ mqtt_tcpclient_recv(ps)
                    /\ owes' = owes \ Range(ps)
                    /\ stage' = [id \in Ids |->
                         IF \E i \in PublishesIn(ps) : ps[i].id = id
                         THEN Awaited(ps[CHOOSE i \in PublishesIn(ps) : ps[i].id = id].qos)
                         ELSE stage[id]]
    BY <1>3, Zenon
  <2>2. PICK ps \in [1..n -> Sendable] :
                    /\ sent' = sent + Cardinality(PublishesIn(ps)) /\ sent' <= MaxInbound
                    /\ mqtt_tcpclient_recv(ps)
                    /\ owes' = owes \ Range(ps)
                    /\ stage' = [id \in Ids |->
                         IF \E i \in PublishesIn(ps) : ps[i].id = id
                         THEN Awaited(ps[CHOOSE i \in PublishesIn(ps) : ps[i].id = id].qos)
                         ELSE stage[id]]
    BY <2>1, Zenon
  <2>3. Sendable \subseteq Packets
    <3>1. owes \subseteq Packets
      BY <1>1, AcksArePackets DEF BrokerInv
    <3> QED BY <3>1 DEF Sendable, Publishes
  <2>4. n \in Nat /\ n >= 1 /\ DOMAIN ps = 1..n
    BY Bounds
  <2>5. ps \in [1..n -> Packets]
    BY <2>3
  <2>6. ps \in Seq(Packets) /\ Len(ps) = n /\ ps # <<>>
    BY <2>4, <2>5
  <2>7. /\ SegmentOK(segment', pdata') /\ ClientInv' /\ Rest = <<>>
        /\ Rest' \in {ps, <<>>} /\ delivered' = <<>>
        /\ UNCHANGED <<inSession, msgQueue, message_id, published>>
    BY <2>2, <2>6, Arrives
  <2>8. sent' \in 0..MaxInbound
    <3>1. PublishesIn(ps) \subseteq 1..n
      BY <2>4 DEF PublishesIn
    <3>2. IsFiniteSet(1..n)
      BY <2>4, FS_Interval
    <3>3. IsFiniteSet(PublishesIn(ps))
      BY <3>1, <3>2, FS_Subset
    <3>4. Cardinality(PublishesIn(ps)) \in Nat
      BY <3>3, FS_CardinalityType
    <3>5. sent \in Nat
      BY <1>1, Bounds DEF BrokerInv
    <3>6. sent' = sent + Cardinality(PublishesIn(ps)) /\ sent' <= MaxInbound
      BY <2>2, Zenon
    <3> QED BY <3>4, <3>5, <3>6, Bounds
  <2>9. stage' \in [Ids -> Stages]
    <3> DEFINE In(id) == \E i \in PublishesIn(ps) : ps[i].id = id
               One(id) == CHOOSE i \in PublishesIn(ps) : ps[i].id = id
               S(id) == IF In(id) THEN Awaited(ps[One(id)].qos) ELSE stage[id]
    <3>1. stage' = [id \in Ids |-> S(id)]
      BY <2>2, Zenon
    <3>2. ASSUME NEW id \in Ids PROVE S(id) \in Stages
      <4>1. CASE In(id)
        <5>1. One(id) \in PublishesIn(ps)
          BY <4>1
        <5> HIDE DEF One
        <5>2. PacketOK(ps[One(id)])
          <6>1. ps[One(id)] \in Packets
            BY <2>4, <2>5, <5>1 DEF PublishesIn
          <6> QED BY <6>1, PacketParts
        <5>3. ps[One(id)].qos \in 0..2
          BY <5>2 DEF PacketOK
        <5>4. Awaited(ps[One(id)].qos) \in Stages
          BY <5>3 DEF Awaited, Stages
        <5> QED BY <4>1, <5>4, Zenon
      <4>2. CASE ~In(id)
        <5>1. stage[id] \in Stages
          BY <1>1 DEF BrokerInv
        <5> QED BY <4>2, <5>1, Zenon
      <4> QED BY <4>1, <4>2
    <3> HIDE DEF S
    <3> QED BY <3>1, <3>2
  <2>10. owes' \subseteq Acks
    <3>1. owes' = owes \ Range(ps)
      BY <2>2, Zenon
    <3> QED BY <1>1, <3>1 DEF BrokerInv
  <2>11. BrokerInv'
    BY <1>1, <1>3, <2>8, <2>9, <2>10 DEF BrokerInv
  <2>12. Rest' \in Seq(Packets)
    <3>1. <<>> \in Seq(Packets)
      OBVIOUS
    <3>2. Rest' = ps \/ Rest' = <<>>
      BY <2>7, Zenon
    <3> QED BY <2>6, <3>1, <3>2, Zenon
  <2>13. ClientInv' /\ SegmentOK(segment', pdata')
    BY <2>7
  <2>14. InboundInv'
    BY <2>11, <2>13, Zenon DEF InboundInv
  <2>15. UNCHANGED <<inSession, msgQueue>>
    BY <2>7
  <2> QED BY <2>7, <2>12, <2>14, <2>15, Zenon
<1> QED BY <1>2, <1>3, Zenon DEF BrokerSends

\* Every step keeps the invariant.
LEMMA NextInv == InboundInv /\ [InboundNext]_inboundVars => InboundInv'
<1> SUFFICES ASSUME InboundInv, [InboundNext]_inboundVars PROVE InboundInv'
  OBVIOUS
<1>1. ASSUME NEW stale \in {0, 2 * Base - 1}, READPACKET(stale) PROVE InboundInv'
  <2>1. stale \in Nat
    BY Numbers
  <2> QED BY <1>1, <2>1, ReadInv
<1>2. CASE MQTT_Task
  BY <1>2, TaskStep
<1>3. CASE BrokerSends
  BY <1>3, BrokerStep
<1>4. ASSUME NEW d \in Payloads, NEW q \in 0..2, MQTT_Publish(d, q) PROVE InboundInv'
  BY <1>4, PublishStep
<1>5. CASE UNCHANGED inboundVars
  BY <1>5 DEF inboundVars, clientVars, broker, InboundInv, ClientInv, BrokerInv
<1> QED BY <1>1, <1>2, <1>3, <1>4, <1>5, Zenon DEF InboundNext

\* The inductive invariant holds in every state.
LEMMA InboundInvariant == InboundSpec => []InboundInv
<1> QED BY InitInv, NextInv, PTL DEF InboundSpec

\* It implies the type invariant.
LEMMA InvType == InboundInv => InboundTypeOK
<1> SUFFICES ASSUME InboundInv PROVE InboundTypeOK
  OBVIOUS
<1>1. /\ inSession \in BOOLEAN /\ message_id \in 0..MaxId /\ published \in 0..MaxPublish
      /\ msgQueue \in Seq(Fit) /\ Len(msgQueue) <= QueueMax
  BY DEF InboundInv, ClientInv, QueueOK
<1>2. ASSUME NEW i \in DOMAIN msgQueue PROVE msgQueue[i] \in {Wire(p) : p \in Packets}
  <2>1. msgQueue[i] \in Fit
    BY <1>1
  <2> QED BY <2>1 DEF Fit, FitPackets
<1>3. owes \subseteq Packets
  BY AcksArePackets DEF InboundInv, BrokerInv
<1>4. Len(pdata) < BufSize
  BY DEF InboundInv, SegmentOK
<1> QED BY <1>1, <1>2, <1>3, <1>4 DEF InboundInv, BrokerInv, Stages, InboundTypeOK

\* InboundTypeOK holds in every state: whatever the broker sends and the application
\* publishes, each message in the queue is, byte for byte, a packet of the standard
\* with a legal identifier, what fini_message, the length digits and the wrap of
\* message_id could spoil; in_buffer never overflows and the queue keeps its bound.
THEOREM InboundTypeCorrect == InboundSpec => []InboundTypeOK
BY InboundInvariant, InvType, PTL

-----------------------------------------------------------------------------
(* The refinement.                                                         *)

\* The initial state is one of PacketStream.
LEMMA RefineInit == InboundInit => Stream!Init
<1> SUFFICES ASSUME InboundInit PROVE Stream!Init
  OBVIOUS
<1>1. inSession = FALSE /\ delivered = <<>> /\ msgQueue = <<>> /\ segment = <<>> /\ pdata = <<>>
  BY DEF InboundInit
<1>2. Rest = <<>>
  BY <1>1, NoSegment, RestDef
<1>3. [i \in DOMAIN msgQueue |-> Read(msgQueue[i])] = <<>>
  BY <1>1
<1> QED BY <1>1, <1>2, <1>3 DEF Stream!Init

\* The queue after a packet is answered: with the answer, if it finds a place.
LEMMA AnswerQueued ==
  ASSUME QueueOK(msgQueue), NEW p \in Packets,
         msgQueue' = IF AnswerType(p.type, p.qos) = None THEN msgQueue
                     ELSE PutAnswer(msgQueue, mqtt_msg_answer(AnswerType(p.type, p.qos), p.id))
  PROVE  PacketsOf(msgQueue') = IF Len(PacketsOf(msgQueue)) >= QueueMax THEN PacketsOf(msgQueue)
                            ELSE PacketsOf(msgQueue) \o AnswerTo(p)
<1> DEFINE a == AnswerType(p.type, p.qos)
           m == mqtt_msg_answer(a, p.id)
           q == PacketsOf(msgQueue)
           r == PacketsOf(msgQueue')
<1>1. q \in Seq(Packets)
  BY ReadQueue DEF QueueOK
<1>2. CASE a = None
  <2>1. r = q /\ AnswerTo(p) = <<>>
    BY <1>2 DEF AnswerTo
  <2> HIDE DEF q, r
  <2>2. q \o <<>> = q
    BY <1>1, ConcatEmptySeq
  <2> QED BY <2>1, <2>2 DEF q, r
<1>3. CASE a # None
  <2>1. a \in {PUBACK, PUBREC, PUBREL, PUBCOMP} /\ p.id \in AllIds
    <3>1. PacketOK(p)
      BY PacketParts
    <3> QED BY <1>3, <3>1, TypeNumbers DEF AnswerType, PacketOK
  <2>2. msgQueue' = PutAnswer(msgQueue, m)
    BY <1>3, Zenon
  <2>3. AnswerTo(p) = <<Plain(a, p.id)>>
    BY <1>3 DEF AnswerTo
  <2> HIDE DEF a
  <2>4. m = Wire(Plain(a, p.id)) /\ Plain(a, p.id) \in Packets
        /\ Len(Wire(Plain(a, p.id))) <= BufSize
    BY <2>1, AnswerBuilt
  <2>5. m \in Fit /\ Read(m) = Plain(a, p.id)
    BY <2>4, ReadWire DEF Fit, FitPackets
  <2> HIDE DEF m, q, r
  <2>6. r = IF Len(q) >= QueueMax THEN q ELSE Append(q, Read(m))
    BY <2>2, <2>5, PutAnswerQueue DEF q, r
  <2>7. Append(q, Plain(a, p.id)) = q \o <<Plain(a, p.id)>>
    BY <1>1, <2>4, AppendIsConcat
  <2> QED BY <2>3, <2>5, <2>6, <2>7 DEF q, r
<1> QED BY <1>2, <1>3

\* A round of the loop over bytes is one step of PacketStream over packets.
LEMMA RefineRead ==
  ASSUME InboundInv, NEW stale \in Nat, READPACKET(stale)
  PROVE  Stream!Ignore \/ Stream!Start \/ Stream!Handle
<1> DEFINE p == Head(Rest)
           a == AnswerType(p.type, p.qos)
           m == mqtt_msg_answer(a, p.id)
<1>1. /\ Rest # <<>> /\ p \in Packets /\ Rest \in Seq(Packets)
      /\ \/ /\ ~inSession /\ Rest' = <<>> /\ delivered' = <<>>
            /\ \/ p.type = CONNACK /\ inSession' = TRUE /\ mqttConnectedCb
               \/ /\ p.type # CONNACK
                  /\ UNCHANGED <<inSession, message_id, msgQueue>>
         \/ /\ inSession /\ UNCHANGED <<inSession, message_id>>
            /\ msgQueue' = IF a = None THEN msgQueue ELSE PutAnswer(msgQueue, m)
            /\ delivered' = IF p.type = PUBLISH
                            THEN <<[topic |-> p.topic, data |-> p.data]>> ELSE <<>>
            /\ Rest' = IF p.type = PUBLISH THEN Tail(Rest) ELSE <<>>
  BY ReadStep, Zenon
<1>2. ClientInv /\ QueueOK(msgQueue)
  BY DEF InboundInv, ClientInv
<1> DEFINE q == [i \in DOMAIN msgQueue |-> Read(msgQueue[i])]
           r == [i \in DOMAIN msgQueue' |-> Read(msgQueue'[i])]
<1>3. q = PacketsOf(msgQueue) /\ r = PacketsOf(msgQueue')
  BY DEF PacketsOf
<1>4. CASE ~inSession /\ p.type = CONNACK /\ inSession' = TRUE /\ mqttConnectedCb
           /\ Rest' = <<>> /\ delivered' = <<>>
  <2>1. PICK s \in Packets, c \in Packets : r = Append(Room(Append(Room(q), s)), c)
    BY <1>2, <1>3, <1>4, Connected
  <2> HIDE DEF q, r
  <2>2. Stream!Start
    BY <1>1, <1>4, <2>1 DEF Stream!Start, Stream!MakeRoom, Room, q, r
  <2> QED BY <2>2
<1>5. CASE ~inSession /\ p.type # CONNACK /\ UNCHANGED <<inSession, message_id, msgQueue>>
           /\ Rest' = <<>> /\ delivered' = <<>>
  BY <1>1, <1>5 DEF Stream!Ignore
<1>6. CASE /\ inSession /\ UNCHANGED <<inSession, message_id>>
           /\ msgQueue' = IF a = None THEN msgQueue ELSE PutAnswer(msgQueue, m)
           /\ delivered' = IF p.type = PUBLISH
                           THEN <<[topic |-> p.topic, data |-> p.data]>> ELSE <<>>
           /\ Rest' = IF p.type = PUBLISH THEN Tail(Rest) ELSE <<>>
  <2>1. r = IF Len(q) >= QueueMax THEN q ELSE q \o AnswerTo(p)
    <3>1. msgQueue' = IF a = None THEN msgQueue ELSE PutAnswer(msgQueue, m)
      BY <1>6, Zenon
    <3> QED BY <1>1, <1>2, <1>3, <3>1, AnswerQueued, Zenon
  <2> HIDE DEF q, r
  <2>2. Stream!Handle
    BY <1>1, <1>6, <2>1 DEF Stream!Handle, Stream!Full, q, r
  <2> QED BY <2>2
<1> QED BY <1>1, <1>4, <1>5, <1>6, Zenon

\* Every step is one of PacketStream, or stutters.
LEMMA RefineNext ==
  InboundInv /\ [InboundNext]_inboundVars => [Stream!Next]_Stream!streamVars
<1> SUFFICES ASSUME InboundInv, [InboundNext]_inboundVars
             PROVE  [Stream!Next]_Stream!streamVars
  OBVIOUS
<1> DEFINE q == [i \in DOMAIN msgQueue |-> Read(msgQueue[i])]
           r == [i \in DOMAIN msgQueue' |-> Read(msgQueue'[i])]
<1>0. q = PacketsOf(msgQueue) /\ r = PacketsOf(msgQueue')
  BY DEF PacketsOf
<1>1. ASSUME NEW stale \in {0, 2 * Base - 1}, READPACKET(stale) PROVE Stream!Next
  <2>1. stale \in Nat
    BY Numbers
  <2>2. Stream!Ignore \/ Stream!Start \/ Stream!Handle
    BY <1>1, <2>1, RefineRead
  <2> QED BY <2>2 DEF Stream!Next
<1>2. CASE MQTT_Task
  <2>1. /\ Rest' = Rest /\ delivered' = <<>> /\ inSession' = inSession
        /\ q # <<>> /\ r = Tail(q)
    BY <1>0, <1>2, TaskStep
  <2> HIDE DEF q, r
  <2>2. Stream!Send
    BY <2>1 DEF Stream!Send, q, r
  <2> QED BY <2>2 DEF Stream!Next
<1>3. CASE BrokerSends
  <2>1. /\ Rest = <<>> /\ Rest' \in Seq(Packets) /\ delivered' = <<>>
        /\ UNCHANGED <<inSession, msgQueue>>
    BY <1>3, BrokerStep
  <2>2. Stream!Arrive
    BY <2>1 DEF Stream!Arrive
  <2> QED BY <2>2 DEF Stream!Next
<1>4. ASSUME NEW d \in Payloads, NEW k \in 0..2, MQTT_Publish(d, k) PROVE Stream!Next
  <2>1. /\ Rest' = Rest /\ delivered' = <<>> /\ inSession' = inSession
        /\ r = q \/ \E p \in Packets : r = Append(Room(q), p)
    BY <1>0, <1>4, PublishStep
  <2> HIDE DEF q, r
  <2>2. Stream!Publish
    BY <2>1 DEF Stream!Publish, Stream!MakeRoom, Room, q, r
  <2> QED BY <2>2 DEF Stream!Next
<1>5. CASE UNCHANGED inboundVars
  <2>1. /\ inSession' = inSession /\ segment' = segment /\ pdata' = pdata
        /\ delivered' = delivered /\ msgQueue' = msgQueue
    BY <1>5 DEF inboundVars, clientVars, broker
  <2>2. Rest' = Rest
    BY <2>1, RestDef
  <2> QED BY <2>1, <2>2 DEF Stream!streamVars
<1> QED BY <1>1, <1>2, <1>3, <1>4, <1>5, Zenon DEF InboundNext

\* The loop of mqtt_tcpclient_recv implements PacketStream for every length of
\* segments, packets, topics and payloads: its arithmetic on bytes (total lengths,
\* two digit lengths, offsets of topic, payload and identifier, what older segments
\* left in in_buffer) delivers every PUBLISH in front once, whole and in its order,
\* and queues the answer with its own identifier.
THEOREM StreamImplemented == InboundSpec => ImplementsStream
<1>1. InboundSpec => Stream!Init /\ [][Stream!Next]_Stream!streamVars
  BY InboundInvariant, RefineInit, RefineNext, PTL DEF InboundSpec
<1> QED BY <1>1 DEF ImplementsStream, Stream!Spec

-----------------------------------------------------------------------------
(* The answers.                                                            *)

\* What a PUBLISH of the broker is answered with, in the end.
Answers == {PUBACK, PUBREC, PUBCOMP}
Due(p) == AnswerType(p.type, p.qos)

\* The answers that wait in a queue; what is owed one, of the packets of a segment
\* and of those of the broker that are on their way.
Answering(q) == {i \in DOMAIN q : q[i].type \in Answers}
Owing(r) == {k \in DOMAIN r : Due(r[k]) \in Answers}
OwedBy(o) == {p \in o : Due(p) \in Answers}

\* Each answer that waits, and each that is still to be given, is what the broker
\* awaits for its identifier, and there is one for an identifier.
AllAwaited(q, r, o, s) ==
  /\ \A i \in Answering(q) : q[i].id \in Ids /\ s[q[i].id] = q[i].type
  /\ \A k \in Owing(r) : r[k].id \in Ids /\ s[r[k].id] = Due(r[k])
  /\ \A p \in OwedBy(o) : p.id \in Ids /\ s[p.id] = Due(p)
OneEach(q, r, o) ==
  /\ \A i, j \in Answering(q) : q[i].id = q[j].id => i = j
  /\ \A k, l \in Owing(r) : r[k].id = r[l].id => k = l
  /\ \A i \in Answering(q), k \in Owing(r) : q[i].id # r[k].id
  /\ \A i \in Answering(q), p \in OwedBy(o) : q[i].id # p.id
  /\ \A k \in Owing(r), p \in OwedBy(o) : r[k].id # p.id
Tokens(q, r, o, s) == AllAwaited(q, r, o, s) /\ OneEach(q, r, o)

AnswersInv == Tokens(PacketsOf(msgQueue), Rest, owes, stage)

\* They are kept when the queue holds fewer answers,
LEMMA FewerAnswers ==
  ASSUME NEW q, NEW r, NEW o, NEW s, NEW t, NEW f, Tokens(q, r, o, s),
         \A i \in Answering(t) : f[i] \in Answering(q) /\ t[i] = q[f[i]],
         \A i, j \in Answering(t) : f[i] = f[j] => i = j
  PROVE  Tokens(t, r, o, s)
<1>1. AllAwaited(t, r, o, s)
  BY DEF Tokens, AllAwaited
<1>2. OneEach(t, r, o)
  <2>1. \A i, j \in Answering(t) : t[i].id = t[j].id => i = j
    <3>1. \A i, j \in Answering(q) : q[i].id = q[j].id => i = j
      BY DEF Tokens, OneEach
    <3> QED BY <3>1
  <2>2. \A i \in Answering(t), k \in Owing(r) : t[i].id # r[k].id
    BY DEF Tokens, OneEach
  <2>3. \A i \in Answering(t), p \in OwedBy(o) : t[i].id # p.id
    BY DEF Tokens, OneEach
  <2>4. /\ \A k, l \in Owing(r) : r[k].id = r[l].id => k = l
        /\ \A k \in Owing(r), p \in OwedBy(o) : r[k].id # p.id
    BY DEF Tokens, OneEach
  <2> QED BY <2>1, <2>2, <2>3, <2>4 DEF OneEach
<1> QED BY <1>1, <1>2 DEF Tokens

\* and when fewer packets are left.
LEMMA FewerOwing ==
  ASSUME NEW q, NEW r, NEW o, NEW s, NEW t, NEW f, Tokens(q, r, o, s),
         \A i \in Owing(t) : f[i] \in Owing(r) /\ t[i] = r[f[i]],
         \A i, j \in Owing(t) : f[i] = f[j] => i = j
  PROVE  Tokens(q, t, o, s)
<1>1. AllAwaited(q, t, o, s)
  BY DEF Tokens, AllAwaited
<1>2. OneEach(q, t, o)
  <2>1. \A i, j \in Owing(t) : t[i].id = t[j].id => i = j
    <3>1. \A i, j \in Owing(r) : r[i].id = r[j].id => i = j
      BY DEF Tokens, OneEach
    <3> QED BY <3>1
  <2>2. \A i \in Answering(q), k \in Owing(t) : q[i].id # t[k].id
    BY DEF Tokens, OneEach
  <2>3. \A k \in Owing(t), p \in OwedBy(o) : t[k].id # p.id
    BY DEF Tokens, OneEach
  <2>4. /\ \A i, j \in Answering(q) : q[i].id = q[j].id => i = j
        /\ \A i \in Answering(q), p \in OwedBy(o) : q[i].id # p.id
    BY DEF Tokens, OneEach
  <2> QED BY <2>1, <2>2, <2>3, <2>4 DEF OneEach
<1> QED BY <1>1, <1>2 DEF Tokens

\* The tail of a sequence, element by element.
LEMMA TailElements ==
  ASSUME NEW S, NEW q \in Seq(S), q # <<>>
  PROVE  /\ Tail(q) \in Seq(S) /\ DOMAIN Tail(q) = 1..Len(q) - 1 /\ DOMAIN q = 1..Len(q)
         /\ Len(q) \in Nat \ {0} /\ Head(q) = q[1] /\ Head(q) \in S
         /\ \A i \in 1..Len(q) - 1 : Tail(q)[i] = q[i + 1]
<1>1. Len(q) \in Nat /\ Len(q) # 0
  BY EmptySeq
<1> QED BY <1>1, HeadTailProperties

\* They are kept when the oldest packet leaves the queue,
LEMMA TokensTail ==
  ASSUME NEW q \in Seq(Packets), q # <<>>, NEW r, NEW o, NEW s, Tokens(q, r, o, s)
  PROVE  Tokens(Tail(q), r, o, s)
<1> DEFINE t == Tail(q)
           f == [i \in 1..Len(q) - 1 |-> i + 1]
<1>1. /\ DOMAIN t = 1..Len(q) - 1 /\ DOMAIN q = 1..Len(q) /\ Len(q) \in Nat \ {0}
      /\ \A i \in 1..Len(q) - 1 : t[i] = q[i + 1]
  BY TailElements
<1>2. \A i \in 1..Len(q) - 1 : f[i] = i + 1
  OBVIOUS
<1> HIDE DEF t, f
<1>3. ASSUME NEW i \in Answering(t) PROVE f[i] \in Answering(q) /\ t[i] = q[f[i]]
  <2>1. i \in 1..Len(q) - 1 /\ t[i].type \in Answers
    BY <1>1, <1>3 DEF Answering
  <2>2. f[i] = i + 1 /\ i + 1 \in 1..Len(q) /\ t[i] = q[i + 1]
    BY <1>1, <1>2, <2>1
  <2> QED BY <1>1, <2>1, <2>2 DEF Answering
<1>4. ASSUME NEW i \in Answering(t), NEW j \in Answering(t), f[i] = f[j] PROVE i = j
  <2>1. i \in 1..Len(q) - 1 /\ j \in 1..Len(q) - 1
    BY <1>1 DEF Answering
  <2>2. i + 1 = j + 1
    BY <1>2, <1>4, <2>1
  <2> QED BY <2>1, <2>2
<1>5. Tokens(t, r, o, s)
  BY <1>3, <1>4, FewerAnswers
<1> QED BY <1>5 DEF t

\* when the first packet of the segment is handled,
LEMMA TokensRest ==
  ASSUME NEW r \in Seq(Packets), r # <<>>, NEW q, NEW o, NEW s, Tokens(q, r, o, s)
  PROVE  Tokens(q, Tail(r), o, s)
<1> DEFINE t == Tail(r)
           f == [i \in 1..Len(r) - 1 |-> i + 1]
<1>1. /\ DOMAIN t = 1..Len(r) - 1 /\ DOMAIN r = 1..Len(r) /\ Len(r) \in Nat \ {0}
      /\ \A i \in 1..Len(r) - 1 : t[i] = r[i + 1]
  BY TailElements
<1>2. \A i \in 1..Len(r) - 1 : f[i] = i + 1
  OBVIOUS
<1> HIDE DEF t, f
<1>3. ASSUME NEW i \in Owing(t) PROVE f[i] \in Owing(r) /\ t[i] = r[f[i]]
  <2>1. i \in 1..Len(r) - 1 /\ Due(t[i]) \in Answers
    BY <1>1, <1>3 DEF Owing
  <2>2. f[i] = i + 1 /\ i + 1 \in 1..Len(r) /\ t[i] = r[i + 1]
    BY <1>1, <1>2, <2>1
  <2> QED BY <1>1, <2>1, <2>2 DEF Owing
<1>4. ASSUME NEW i \in Owing(t), NEW j \in Owing(t), f[i] = f[j] PROVE i = j
  <2>1. i \in 1..Len(r) - 1 /\ j \in 1..Len(r) - 1
    BY <1>1 DEF Owing
  <2>2. i + 1 = j + 1
    BY <1>2, <1>4, <2>1
  <2> QED BY <2>1, <2>2
<1>5. Tokens(q, t, o, s)
  BY <1>3, <1>4, FewerOwing
<1> QED BY <1>5 DEF t

\* when the rest of the segment is forgotten,
LEMMA TokensNoRest ==
  ASSUME NEW q, NEW r, NEW o, NEW s, Tokens(q, r, o, s)
  PROVE  Tokens(q, <<>>, o, s)
<1>1. Owing(<<>>) = {}
  BY DEF Owing
<1> DEFINE f == <<>>
<1>2. \A i \in Owing(<<>>) : f[i] \in Owing(r) /\ <<>>[i] = r[f[i]]
  BY <1>1
<1>3. \A i, j \in Owing(<<>>) : f[i] = f[j] => i = j
  BY <1>1
<1> HIDE DEF f
<1> QED BY <1>2, <1>3, FewerOwing

\* A packet that is no answer joins the queue.
LEMMA TokensOther ==
  ASSUME NEW q \in Seq(Packets), NEW p, p.type \notin Answers,
         NEW r, NEW o, NEW s, Tokens(q, r, o, s)
  PROVE  Tokens(Append(q, p), r, o, s)
<1> DEFINE t == Append(q, p)
           f == [i \in 1..Len(q) |-> i]
<1>1. /\ DOMAIN t = 1..Len(q) + 1 /\ DOMAIN q = 1..Len(q) /\ Len(q) \in Nat
      /\ \A i \in 1..Len(q) : t[i] = q[i]
      /\ t[Len(q) + 1] = p
  OBVIOUS
<1>2. \A i \in 1..Len(q) : f[i] = i
  OBVIOUS
<1> HIDE DEF t, f
<1>3. \A i \in Answering(t) : i \in 1..Len(q)
  BY <1>1 DEF Answering
<1>4. ASSUME NEW i \in Answering(t) PROVE f[i] \in Answering(q) /\ t[i] = q[f[i]]
  <2>1. i \in 1..Len(q) /\ t[i].type \in Answers
    BY <1>3 DEF Answering
  <2> QED BY <1>1, <1>2, <2>1 DEF Answering
<1>5. \A i, j \in Answering(t) : f[i] = f[j] => i = j
  BY <1>2, <1>3
<1>6. Tokens(t, r, o, s)
  BY <1>4, <1>5, FewerAnswers
<1> QED BY <1>6 DEF t

\* and when room is made.
LEMMA TokensRoom ==
  ASSUME NEW q \in Seq(Packets), NEW r, NEW o, NEW s, Tokens(q, r, o, s)
  PROVE  Room(q) \in Seq(Packets) /\ Tokens(Room(q), r, o, s)
<1>1. CASE Len(q) >= QueueMax
  <2>1. q # <<>>
    <3>1. QueueMax \in Nat \ {0} /\ Len(<<>>) = 0
      BY Bounds
    <3> QED BY <1>1, <3>1
  <2>2. Tail(q) \in Seq(Packets) /\ Tokens(Tail(q), r, o, s)
    BY <2>1, TailElements, TokensTail
  <2> QED BY <1>1, <2>2 DEF Room
<1>2. CASE ~(Len(q) >= QueueMax)
  BY <1>2 DEF Room
<1> QED BY <1>1, <1>2

\* The answer to the packet in front joins the queue.
LEMMA TokensAnswered ==
  ASSUME NEW q \in Seq(Packets), NEW r \in Seq(Packets), r # <<>>, NEW o, NEW s,
         Tokens(q, r, o, s), NEW p, Due(Head(r)) \in Answers,
         p.type = Due(Head(r)), p.id = Head(r).id
  PROVE  Tokens(Append(q, p), Tail(r), o, s)
<1> DEFINE t == Append(q, p)
           u == Tail(r)
<1>1. /\ DOMAIN t = 1..Len(q) + 1 /\ DOMAIN q = 1..Len(q) /\ Len(q) \in Nat
      /\ \A i \in 1..Len(q) : t[i] = q[i]
      /\ t[Len(q) + 1] = p
  OBVIOUS
<1>2. /\ DOMAIN u = 1..Len(r) - 1 /\ DOMAIN r = 1..Len(r) /\ Len(r) \in Nat \ {0}
      /\ \A i \in 1..Len(r) - 1 : u[i] = r[i + 1]
      /\ Head(r) = r[1]
  BY TailElements
<1> HIDE DEF t, u
<1>3. /\ 1 \in Owing(r) /\ p.type = Due(r[1]) /\ p.id = r[1].id
  BY <1>2 DEF Owing
<1>4. ASSUME NEW k \in Owing(u) PROVE k + 1 \in Owing(r) /\ u[k] = r[k + 1] /\ k \in Nat /\ k # 0
  <2>1. k \in 1..Len(r) - 1 /\ Due(u[k]) \in Answers
    BY <1>2, <1>4 DEF Owing
  <2>2. k + 1 \in 1..Len(r) /\ u[k] = r[k + 1] /\ k \in Nat /\ k # 0
    BY <1>2, <2>1
  <2> QED BY <1>2, <2>1, <2>2 DEF Owing
<1>5. ASSUME NEW i \in Answering(t)
      PROVE  (i = Len(q) + 1 /\ t[i] = p) \/ (i \in Answering(q) /\ t[i] = q[i])
  <2>1. i \in 1..Len(q) + 1 /\ t[i].type \in Answers
    BY <1>1, <1>5 DEF Answering
  <2>2. CASE i = Len(q) + 1
    BY <1>1, <2>2, Zenon
  <2>3. CASE i # Len(q) + 1
    <3>1. i \in 1..Len(q)
      BY <1>1, <2>1, <2>3
    <3> QED BY <1>1, <2>1, <3>1 DEF Answering
  <2> QED BY <2>2, <2>3
<1>6. AllAwaited(t, u, o, s)
  <2>1. \A i \in Answering(t) : t[i].id \in Ids /\ s[t[i].id] = t[i].type
    BY <1>3, <1>5 DEF Tokens, AllAwaited
  <2>2. \A k \in Owing(u) : u[k].id \in Ids /\ s[u[k].id] = Due(u[k])
    BY <1>4 DEF Tokens, AllAwaited
  <2> QED BY <2>1, <2>2 DEF Tokens, AllAwaited
<1>7. OneEach(t, u, o)
  <2>1. \A i, j \in Answering(q) : q[i].id = q[j].id => i = j
    BY DEF Tokens, OneEach
  <2>2. \A k, l \in Owing(r) : r[k].id = r[l].id => k = l
    BY DEF Tokens, OneEach
  <2>3. \A i \in Answering(q), k \in Owing(r) : q[i].id # r[k].id
    BY DEF Tokens, OneEach
  <2>4. /\ \A i \in Answering(q), w \in OwedBy(o) : q[i].id # w.id
        /\ \A k \in Owing(r), w \in OwedBy(o) : r[k].id # w.id
    BY DEF Tokens, OneEach
  <2>5. \A i, j \in Answering(t) : t[i].id = t[j].id => i = j
    BY <1>3, <1>5, <2>1, <2>3
  <2>6. \A k, l \in Owing(u) : u[k].id = u[l].id => k = l
    BY <1>4, <2>2
  <2>7. \A k \in Owing(u) : u[k].id # r[1].id
    <3> SUFFICES ASSUME NEW k \in Owing(u), u[k].id = r[1].id PROVE FALSE
      OBVIOUS
    <3>1. k + 1 = 1
      BY <1>3, <1>4, <2>2
    <3> QED BY <1>4, <3>1
  <2>8. \A i \in Answering(t), k \in Owing(u) : t[i].id # u[k].id
    BY <1>3, <1>4, <1>5, <2>3, <2>7
  <2>9. /\ \A i \in Answering(t), w \in OwedBy(o) : t[i].id # w.id
        /\ \A k \in Owing(u), w \in OwedBy(o) : u[k].id # w.id
    BY <1>3, <1>4, <1>5, <2>4
  <2> QED BY <2>5, <2>6, <2>8, <2>9 DEF OneEach
<1>8. Tokens(t, u, o, s)
  BY <1>6, <1>7 DEF Tokens
<1> QED BY <1>8 DEF t, u

\* What is due to a packet.
LEMMA DueOf ==
  ASSUME NEW p
  PROVE  /\ p.type = PUBREL => Due(p) = PUBCOMP
         /\ p.type = PUBREC => Due(p) = PUBREL
         /\ p.type = PUBLISH /\ p.qos = 1 => Due(p) = PUBACK
         /\ p.type = PUBLISH /\ p.qos = 2 => Due(p) = PUBREC
         /\ p.type = PUBLISH /\ p.qos = 0 => Due(p) = None
         /\ p.type \notin {PUBLISH, PUBREC, PUBREL} => Due(p) = None
         /\ None \notin Answers /\ PUBREL \notin Answers
BY TypeNumbers DEF Due, AnswerType, Answers

\* The parts of a packet without a payload.
LEMMA PlainParts ==
  ASSUME NEW t, NEW i
  PROVE  Plain(t, i).type = t /\ Plain(t, i).id = i
BY DEF Plain, Packet

\* A round of the loop keeps the tokens.
LEMMA ReadAnswers ==
  ASSUME InboundInv, AnswersInv, NEW stale \in Nat, READPACKET(stale)
  PROVE  AnswersInv'
<1> DEFINE p == Head(Rest)
           q == PacketsOf(msgQueue)
           r == PacketsOf(msgQueue')
<1>1. /\ Rest # <<>> /\ p \in Packets /\ Rest \in Seq(Packets)
      /\ \/ /\ ~inSession /\ Rest' = <<>>
            /\ \/ p.type = CONNACK /\ inSession' = TRUE /\ mqttConnectedCb
               \/ UNCHANGED <<inSession, message_id, msgQueue>>
         \/ /\ inSession
            /\ msgQueue' = IF AnswerType(p.type, p.qos) = None THEN msgQueue
                 ELSE PutAnswer(msgQueue, mqtt_msg_answer(AnswerType(p.type, p.qos), p.id))
            /\ Rest' = IF p.type = PUBLISH THEN Tail(Rest) ELSE <<>>
  BY ReadStep, Zenon
<1>2. ClientInv /\ QueueOK(msgQueue) /\ q \in Seq(Packets)
  BY ReadQueue DEF InboundInv, ClientInv, QueueOK
<1>3. owes' = owes /\ stage' = stage
  BY DEF READPACKET
<1>4. Tokens(q, Rest, owes, stage)
  BY DEF AnswersInv
<1>5. SUFFICES Tokens(r, Rest', owes, stage)
  BY <1>3 DEF AnswersInv
<1>6. CASE ~inSession /\ Rest' = <<>> /\ mqttConnectedCb
  <2>1. PICK a \in Packets, c \in Packets :
          r = Append(Room(Append(Room(q), a)), c) /\ a.type = SUBSCRIBE /\ c.type = PUBLISH
    BY <1>2, <1>6, Connected
  <2> HIDE DEF q, r
  <2>2. a.type \notin Answers /\ c.type \notin Answers
    BY <2>1, TypeNumbers DEF Answers
  <2>3. Tokens(q, <<>>, owes, stage)
    BY <1>4, TokensNoRest
  <2>4. Room(q) \in Seq(Packets) /\ Tokens(Room(q), <<>>, owes, stage)
    BY <1>2, <2>3, TokensRoom
  <2> DEFINE x == Append(Room(q), a)
  <2>5. x \in Seq(Packets) /\ Tokens(x, <<>>, owes, stage)
    BY <2>2, <2>4, TokensOther
  <2> HIDE DEF x
  <2>6. Room(x) \in Seq(Packets) /\ Tokens(Room(x), <<>>, owes, stage)
    BY <2>5, TokensRoom
  <2>7. Tokens(Append(Room(x), c), <<>>, owes, stage)
    BY <2>2, <2>6, TokensOther
  <2>8. r = Append(Room(x), c)
    BY <2>1 DEF x
  <2> QED BY <1>6, <2>7, <2>8, Zenon
<1>7. CASE ~inSession /\ Rest' = <<>> /\ UNCHANGED <<inSession, message_id, msgQueue>>
  <2>1. r = q
    BY <1>7
  <2>2. Tokens(q, <<>>, owes, stage)
    BY <1>4, TokensNoRest
  <2> QED BY <1>7, <2>1, <2>2, Zenon
<1>8. CASE /\ msgQueue' = IF AnswerType(p.type, p.qos) = None THEN msgQueue
                ELSE PutAnswer(msgQueue, mqtt_msg_answer(AnswerType(p.type, p.qos), p.id))
           /\ Rest' = IF p.type = PUBLISH THEN Tail(Rest) ELSE <<>>
  <2>1. r = IF Len(q) >= QueueMax THEN q ELSE q \o AnswerTo(p)
    BY <1>1, <1>2, <1>8, AnswerQueued
  <2>2. Tokens(q, Tail(Rest), owes, stage)
    BY <1>1, <1>4, TokensRest
  <2> DEFINE a == Due(p)
  <2>3. Tokens(r, Tail(Rest), owes, stage)
    <3>1. CASE Len(q) >= QueueMax
      BY <2>1, <2>2, <3>1
    <3>2. CASE ~(Len(q) >= QueueMax) /\ a = None
      <4>1. r = q \o <<>>
        BY <2>1, <3>2 DEF AnswerTo, Due
      <4> HIDE DEF q, r
      <4>2. r = q
        BY <1>2, <4>1, ConcatEmptySeq
      <4> QED BY <2>2, <4>2
    <3>3. CASE ~(Len(q) >= QueueMax) /\ a # None
      <4>1. r = q \o <<Plain(a, p.id)>>
        BY <2>1, <3>3 DEF AnswerTo, Due
      <4>2. Plain(a, p.id).type = a /\ Plain(a, p.id).id = p.id
        BY PlainParts
      <4> HIDE DEF q, r
      <4>3. r = Append(q, Plain(a, p.id))
        BY <1>2, <4>1, AppendIsConcat
      <4>4. CASE a \in Answers
        BY <1>1, <1>2, <1>4, <4>2, <4>3, <4>4, TokensAnswered
      <4>5. CASE a \notin Answers
        BY <1>2, <2>2, <4>2, <4>3, <4>5, TokensOther
      <4> QED BY <4>4, <4>5
    <3> QED BY <3>1, <3>2, <3>3
  <2>4. Tokens(r, <<>>, owes, stage)
    BY <2>3, TokensNoRest
  <2> HIDE DEF r, p
  <2> QED BY <1>8, <2>3, <2>4, Zenon
<1> QED BY <1>1, <1>6, <1>7, <1>8, Zenon

\* The application publishes: no answer is added.
LEMMA PublishAnswers ==
  ASSUME InboundInv, AnswersInv, NEW d \in Payloads, NEW k \in 0..2, MQTT_Publish(d, k)
  PROVE  AnswersInv'
<1> DEFINE q == PacketsOf(msgQueue)
           r == PacketsOf(msgQueue')
<1>1. /\ Rest' = Rest
      /\ r = q \/ \E p \in Packets : r = Append(Room(q), p) /\ p.type = PUBLISH
  BY PublishStep
<1>2. owes' = owes /\ stage' = stage
  BY DEF MQTT_Publish, broker
<1>3. q \in Seq(Packets) /\ Tokens(q, Rest, owes, stage)
  BY ReadQueue DEF InboundInv, ClientInv, QueueOK, AnswersInv
<1>4. SUFFICES Tokens(r, Rest, owes, stage)
  BY <1>1, <1>2 DEF AnswersInv
<1> HIDE DEF q, r
<1>5. CASE r = q
  BY <1>3, <1>5
<1>6. CASE \E p \in Packets : r = Append(Room(q), p) /\ p.type = PUBLISH
  <2>1. PICK p \in Packets : r = Append(Room(q), p) /\ p.type = PUBLISH
    BY <1>6
  <2>2. p.type \notin Answers
    BY <2>1, TypeNumbers DEF Answers
  <2>3. Room(q) \in Seq(Packets) /\ Tokens(Room(q), Rest, owes, stage)
    BY <1>3, TokensRoom
  <2> QED BY <2>1, <2>2, <2>3, TokensOther
<1> QED BY <1>1, <1>5, <1>6

\* What the broker gets was awaited, and is no longer.
LEMMA TaskAnswers ==
  ASSUME InboundInv, AnswersInv, MQTT_Task
  PROVE  AnswersInv'
<1> DEFINE q == PacketsOf(msgQueue)
           p == Head(q)
           t == Tail(q)
<1>1. /\ Rest' = Rest /\ q # <<>> /\ PacketsOf(msgQueue') = t /\ Gets(p) /\ p \in Packets
  BY TaskStep
<1>2. Rest = <<>>
  <2>1. pdata = <<>> /\ SegmentOK(segment, pdata)
    BY DEF MQTT_Task, InboundInv
  <2>2. segment = <<>>
    BY <2>1 DEF SegmentOK
  <2> QED BY <2>1, <2>2, NoSegment, RestDef
<1>3. q \in Seq(Packets) /\ Tokens(q, <<>>, owes, stage)
  BY <1>2, ReadQueue DEF InboundInv, ClientInv, QueueOK, AnswersInv
<1>4. stage \in [Ids -> Stages]
  BY DEF InboundInv, BrokerInv
<1> HIDE DEF q
<1>5. /\ t \in Seq(Packets) /\ DOMAIN t = 1..Len(q) - 1 /\ DOMAIN q = 1..Len(q)
      /\ Len(q) \in Nat \ {0} /\ p = q[1]
      /\ \A i \in 1..Len(q) - 1 : t[i] = q[i + 1]
  BY <1>1, <1>3, TailElements
<1>6. Tokens(t, <<>>, owes, stage)
  BY <1>1, <1>3, TokensTail
<1>7. SUFFICES Tokens(t, <<>>, owes', stage')
  BY <1>1, <1>2, Zenon DEF AnswersInv
<1>8. Owing(<<>>) = {}
  BY DEF Owing
<1>9. /\ owes' = CASE p.type = SUBSCRIBE -> owes \cup {Plain(SUBACK, p.id)}
                  [] p.type = PUBLISH /\ p.qos = 1 -> owes \cup {Plain(PUBACK, p.id)}
                  [] p.type = PUBLISH /\ p.qos = 2 -> owes \cup {Plain(PUBREC, p.id)}
                  [] p.type = PUBREL -> owes \cup {Plain(PUBCOMP, p.id)}
                  [] p.type = PUBREC -> owes \cup {Plain(PUBREL, p.id)}
                  [] OTHER -> owes
      /\ stage' = CASE p.type \in {PUBACK, PUBCOMP} -> [stage EXCEPT ![p.id] = None]
                   [] p.type = PUBREC -> [stage EXCEPT ![p.id] = PUBCOMP]
                   [] OTHER -> stage
  BY <1>1 DEF Gets
<1> HIDE DEF p, t
<1>10. CASE p.type \in Answers
  <2>1. 1 \in Answering(q)
    BY <1>5, <1>10 DEF Answering
  <2>2. p.id \in Ids
    BY <1>3, <1>5, <2>1 DEF Tokens, AllAwaited
  <2>3. \A i \in Answering(t) : t[i].id # p.id
    <3> SUFFICES ASSUME NEW i \in Answering(t), t[i].id = p.id PROVE FALSE
      OBVIOUS
    <3>1. i \in 1..Len(q) - 1 /\ t[i].type \in Answers
      BY <1>5 DEF Answering
    <3>2. i + 1 \in 1..Len(q) /\ t[i] = q[i + 1] /\ i + 1 # 1
      BY <1>5, <3>1
    <3>3. i + 1 \in Answering(q)
      BY <1>5, <3>1, <3>2 DEF Answering
    <3>4. i + 1 = 1
      BY <1>3, <1>5, <2>1, <3>2, <3>3 DEF Tokens, OneEach
    <3> QED BY <3>2, <3>4
  <2>4. \A w \in OwedBy(owes) : w.id # p.id
    BY <1>3, <1>5, <2>1 DEF Tokens, OneEach
  <2>5. CASE p.type \in {PUBACK, PUBCOMP}
    <3>1. owes' = owes /\ stage' = [stage EXCEPT ![p.id] = None]
      BY <1>9, <2>5, TypeNumbers
    <3>2. \A i \in Ids : i # p.id => stage'[i] = stage[i]
      BY <1>4, <3>1
    <3>3. AllAwaited(t, <<>>, owes', stage')
      BY <1>6, <1>8, <2>3, <2>4, <3>1, <3>2 DEF Tokens, AllAwaited
    <3>4. OneEach(t, <<>>, owes')
      BY <1>6, <3>1 DEF Tokens
    <3> QED BY <3>3, <3>4 DEF Tokens
  <2>6. CASE p.type = PUBREC
    <3> DEFINE w == Plain(PUBREL, p.id)
    <3>1. owes' = owes \cup {w} /\ stage' = [stage EXCEPT ![p.id] = PUBCOMP]
      BY <1>9, <2>6, TypeNumbers
    <3>2. w.id = p.id /\ Due(w) = PUBCOMP
      BY PlainParts, DueOf
    <3> HIDE DEF w
    <3>3. OwedBy(owes') \subseteq OwedBy(owes) \cup {w}
      BY <3>1 DEF OwedBy
    <3>4. \A i \in Ids : i # p.id => stage'[i] = stage[i]
      BY <1>4, <3>1
    <3>5. stage'[p.id] = PUBCOMP
      BY <1>4, <2>2, <3>1
    <3>6. AllAwaited(t, <<>>, owes', stage')
      <4>1. \A i \in Answering(t) : t[i].id \in Ids /\ stage'[t[i].id] = t[i].type
        BY <1>6, <2>3, <3>4 DEF Tokens, AllAwaited
      <4>2. \A v \in OwedBy(owes) : v.id \in Ids /\ stage'[v.id] = Due(v)
        BY <1>6, <2>4, <3>4 DEF Tokens, AllAwaited
      <4>3. w.id \in Ids /\ stage'[w.id] = Due(w)
        BY <2>2, <3>2, <3>5
      <4> QED BY <1>8, <3>3, <4>1, <4>2, <4>3 DEF AllAwaited
    <3>7. OneEach(t, <<>>, owes')
      <4>1. \A i \in Answering(t), v \in OwedBy(owes') : t[i].id # v.id
        BY <1>6, <2>3, <3>2, <3>3 DEF Tokens, OneEach
      <4>2. \A i, j \in Answering(t) : t[i].id = t[j].id => i = j
        BY <1>6 DEF Tokens, OneEach
      <4> QED BY <1>8, <4>1, <4>2 DEF OneEach
    <3> QED BY <3>6, <3>7 DEF Tokens
  <2> QED BY <1>10, <2>5, <2>6 DEF Answers
<1>11. CASE p.type \notin Answers
  <2>1. p.type \notin {PUBACK, PUBCOMP} /\ p.type # PUBREC
    BY <1>11 DEF Answers
  <2>2. stage' = stage
    BY <1>9, <2>1
  <2>3. owes' = owes \/ \E x \in {SUBACK, PUBACK, PUBREC, PUBCOMP} :
                           owes' = owes \cup {Plain(x, p.id)}
    BY <1>9, <2>1
  <2>4. OwedBy(owes') \subseteq OwedBy(owes)
    <3>1. CASE owes' = owes
      BY <3>1
    <3>2. CASE \E x \in {SUBACK, PUBACK, PUBREC, PUBCOMP} :
                 owes' = owes \cup {Plain(x, p.id)}
      <4>1. PICK x \in {SUBACK, PUBACK, PUBREC, PUBCOMP} : owes' = owes \cup {Plain(x, p.id)}
        BY <3>2
      <4>2. Due(Plain(x, p.id)) \notin Answers
        <5>1. x \notin {PUBLISH, PUBREL} /\ Plain(x, p.id).type = x
          BY PlainParts, TypeNumbers
        <5> QED BY <5>1, DueOf
      <4> QED BY <4>1, <4>2 DEF OwedBy
    <3> QED BY <2>3, <3>1, <3>2
  <2>5. AllAwaited(t, <<>>, owes', stage')
    BY <1>6, <2>2, <2>4 DEF Tokens, AllAwaited
  <2>6. OneEach(t, <<>>, owes')
    BY <1>6, <2>4 DEF Tokens, OneEach
  <2> QED BY <2>5, <2>6 DEF Tokens
<1> QED BY <1>10, <1>11

\* What the broker sends in a segment, it may be answered.
LEMMA SegmentAnswers ==
  ASSUME InboundInv, NEW q, Tokens(q, <<>>, owes, stage), NEW n \in Nat,
         NEW ps \in [1..n -> Sendable],
         \A i, j \in 1..n : i < j /\ ps[i].id # 0 =>
           <<ps[i].type, ps[i].id>> # <<ps[j].type, ps[j].id>>,
         owes' = owes \ Range(ps),
         stage' = [id \in Ids |->
                     IF \E i \in PublishesIn(ps) : ps[i].id = id
                     THEN Awaited(ps[CHOOSE i \in PublishesIn(ps) : ps[i].id = id].qos)
                     ELSE stage[id]]
  PROVE  Tokens(q, ps, owes', stage')
<1>1. /\ stage \in [Ids -> Stages] /\ owes \subseteq Acks /\ DOMAIN ps = 1..n
      /\ 0 \notin Ids
  BY InboundAssumption, Numbers DEF InboundInv, BrokerInv
<1>2. \A v \in OwedBy(owes) : v = Plain(PUBREL, v.id) /\ v \in owes /\ v.type = PUBREL
  <2> SUFFICES ASSUME NEW v \in OwedBy(owes)
               PROVE  v = Plain(PUBREL, v.id) /\ v \in owes /\ v.type = PUBREL
    OBVIOUS
  <2>1. v \in owes /\ Due(v) \in Answers
    BY DEF OwedBy
  <2>2. PICK t \in {PUBACK, PUBREC, PUBREL, PUBCOMP, SUBACK}, i \in AllIds : v = Plain(t, i)
    BY <1>1, <2>1 DEF Acks
  <2>3. v.type = t /\ v.id = i
    BY <2>2, PlainParts
  <2>4. t = PUBREL
    BY <2>1, <2>3, DueOf, TypeNumbers
  <2> QED BY <2>1, <2>2, <2>3, <2>4
\* Each packet is owed, or a new PUBLISH.
<1>3. ASSUME NEW k \in 1..n
      PROVE  \/ ps[k] \in owes /\ ps[k].type # PUBLISH
             \/ /\ ps[k].type = PUBLISH /\ PacketOK(ps[k])
                /\ \/ ps[k].qos = 0 /\ ps[k].id = 0
                   \/ ps[k].id \in Ids /\ stage[ps[k].id] = None
  <2>1. ps[k] \in Sendable
    OBVIOUS
  <2>2. CASE ps[k] \in owes
    <3>1. PICK t \in {PUBACK, PUBREC, PUBREL, PUBCOMP, SUBACK}, i \in AllIds :
            ps[k] = Plain(t, i)
      BY <1>1, <2>2 DEF Acks
    <3>2. ps[k].type = t
      BY <3>1, PlainParts
    <3> QED BY <2>2, <3>2, TypeNumbers
  <2>3. CASE ps[k] \in Publishes
    <3>1. ps[k] \in Packets /\ ps[k].type = PUBLISH
          /\ (ps[k].qos = 0 \/ (ps[k].id \in Ids /\ stage[ps[k].id] = None))
      BY <2>3 DEF Publishes
    <3>2. PacketOK(ps[k])
      BY <3>1, PacketParts
    <3>3. ps[k].qos = 0 => ps[k].id = 0
      BY <3>1, <3>2, TypeNumbers DEF PacketOK
    <3> QED BY <3>1, <3>2, <3>3
  <2> QED BY <2>1, <2>2, <2>3 DEF Sendable
<1>4. ASSUME NEW i \in 1..n, NEW j \in 1..n,
             ps[i].type = ps[j].type, ps[i].id = ps[j].id, ps[i].id # 0
      PROVE  i = j
  <2>1. ~(i < j) /\ ~(j < i)
    BY <1>4
  <2> QED BY <2>1
\* What happens to the stages.
<1> DEFINE In(id) == \E i \in PublishesIn(ps) : ps[i].id = id
           One(id) == CHOOSE i \in PublishesIn(ps) : ps[i].id = id
<1>5. \A id \in Ids : stage'[id] = IF In(id) THEN Awaited(ps[One(id)].qos) ELSE stage[id]
  OBVIOUS
<1>6. ASSUME NEW id \in Ids, stage[id] # None PROVE stage'[id] = stage[id]
  <2>1. ~In(id)
    <3> SUFFICES ASSUME NEW i \in PublishesIn(ps), ps[i].id = id PROVE FALSE
      OBVIOUS
    <3>1. i \in 1..n /\ ps[i].type = PUBLISH
      BY <1>1 DEF PublishesIn
    <3> QED BY <1>1, <1>3, <1>6, <3>1
  <2> QED BY <1>5, <1>6, <2>1
<1>7. ASSUME NEW k \in 1..n, ps[k].type = PUBLISH, ps[k].id \in Ids
      PROVE  stage'[ps[k].id] = Awaited(ps[k].qos)
  <2> DEFINE id == ps[k].id
  <2>1. k \in PublishesIn(ps)
    BY <1>1, <1>7 DEF PublishesIn
  <2>2. In(id)
    BY <2>1
  <2>3. One(id) \in PublishesIn(ps) /\ ps[One(id)].id = id
    BY <2>1
  <2> HIDE DEF One
  <2>4. One(id) \in 1..n /\ ps[One(id)].type = PUBLISH
    BY <1>1, <2>3 DEF PublishesIn
  <2>5. One(id) = k
    BY <1>1, <1>4, <1>7, <2>3, <2>4
  <2>6. stage'[id] = Awaited(ps[One(id)].qos)
    BY <1>5, <1>7, <2>2
  <2> QED BY <2>5, <2>6
<1> HIDE DEF In, One
\* The packets that are owed an answer.
<1>8. ASSUME NEW k \in Owing(ps)
      PROVE  /\ k \in 1..n /\ ps[k].id \in Ids /\ stage'[ps[k].id] = Due(ps[k])
             /\ \/ ps[k].type = PUBLISH /\ stage[ps[k].id] = None
                \/ ps[k].type = PUBREL /\ ps[k] \in OwedBy(owes)
  <2>1. k \in 1..n /\ Due(ps[k]) \in Answers
    BY <1>1 DEF Owing
  <2>2. CASE ps[k] \in owes
    <3>1. ps[k] \in OwedBy(owes)
      BY <2>1, <2>2 DEF OwedBy
    <3>2. ps[k].id \in Ids /\ stage[ps[k].id] = Due(ps[k]) /\ ps[k].type = PUBREL
      BY <1>2, <3>1 DEF Tokens, AllAwaited
    <3>3. stage[ps[k].id] # None
      BY <2>1, <3>2, DueOf
    <3> QED BY <1>6, <2>1, <3>1, <3>2, <3>3
  <2>3. CASE ps[k] \notin owes
    <3>1. ps[k].type = PUBLISH /\ PacketOK(ps[k])
          /\ ((ps[k].qos = 0 /\ ps[k].id = 0) \/ (ps[k].id \in Ids /\ stage[ps[k].id] = None))
      BY <1>3, <2>1, <2>3
    <3>2. ps[k].qos \in 0..2 /\ ps[k].qos # 0
      BY <2>1, <3>1, DueOf DEF PacketOK
    <3>3. ps[k].qos = 1 \/ ps[k].qos = 2
      BY <3>2
    <3>4. ps[k].id \in Ids /\ stage[ps[k].id] = None
      BY <3>1, <3>2
    <3>5. Awaited(ps[k].qos) = Due(ps[k])
      BY <3>1, <3>3, DueOf DEF Awaited
    <3>6. stage'[ps[k].id] = Awaited(ps[k].qos)
      BY <1>7, <2>1, <3>1, <3>4
    <3> QED BY <2>1, <3>1, <3>4, <3>5, <3>6
  <2> QED BY <2>2, <2>3
<1>9. /\ OwedBy(owes') \subseteq OwedBy(owes)
      /\ \A k \in 1..n : ps[k] \notin owes'
  BY <1>1 DEF OwedBy, Range
<1>10. \A i \in Answering(q) : /\ q[i].id \in Ids /\ stage[q[i].id] # None
                               /\ stage[q[i].id] = q[i].type
  BY DueOf DEF Tokens, AllAwaited, Answering
<1>11. \A v \in OwedBy(owes) : /\ v.id \in Ids /\ stage[v.id] # None
                               /\ stage[v.id] = Due(v)
  BY DueOf DEF Tokens, AllAwaited, OwedBy
<1>12. AllAwaited(q, ps, owes', stage')
  BY <1>6, <1>8, <1>9, <1>10, <1>11 DEF AllAwaited
<1>13. OneEach(q, ps, owes')
  <2>1. ASSUME NEW k \in Owing(ps), NEW l \in Owing(ps), ps[k].id = ps[l].id PROVE k = l
    <3>1. k \in 1..n /\ l \in 1..n /\ ps[k].id # 0
      BY <1>1, <1>8
    <3>2. ASSUME NEW m \in Owing(ps)
          PROVE  /\ ps[m].type \in {PUBLISH, PUBREL}
                 /\ ps[m].type = PUBLISH => stage[ps[m].id] = None
                 /\ ps[m].type = PUBREL => stage[ps[m].id] # None
      <4>1. CASE ps[m].type = PUBLISH /\ stage[ps[m].id] = None
        BY <4>1, TypeNumbers
      <4>2. CASE ps[m].type = PUBREL /\ ps[m] \in OwedBy(owes)
        BY <1>11, <4>2, TypeNumbers
      <4> QED BY <1>8, <4>1, <4>2
    <3>3. ps[k].type = ps[l].type
      <4>1. stage[ps[k].id] = stage[ps[l].id]
        BY <2>1, Zenon
      <4> QED BY <3>2, <4>1
    <3> QED BY <1>4, <2>1, <3>1, <3>3
  <2>2. \A i \in Answering(q), v \in OwedBy(owes) : q[i].id # v.id
    BY DEF Tokens, OneEach
  <2>3. \A i \in Answering(q), k \in Owing(ps) : q[i].id # ps[k].id
    BY <1>8, <1>10, <2>2
  <2>4. ASSUME NEW k \in Owing(ps), NEW v \in OwedBy(owes') PROVE ps[k].id # v.id
    <3>1. v \in OwedBy(owes) /\ v \in owes' /\ k \in 1..n
      BY <1>8, <1>9 DEF OwedBy
    <3>2. CASE ps[k].type = PUBLISH /\ stage[ps[k].id] = None
      BY <1>11, <3>1, <3>2
    <3>3. CASE ps[k] \in OwedBy(owes)
      BY <1>2, <1>9, <3>1, <3>3
    <3> QED BY <1>8, <3>2, <3>3
  <2>5. \A i, j \in Answering(q) : q[i].id = q[j].id => i = j
    BY DEF Tokens, OneEach
  <2> QED BY <1>9, <2>1, <2>2, <2>3, <2>4, <2>5 DEF OneEach
<1> QED BY <1>12, <1>13 DEF Tokens

\* A segment of the broker keeps the tokens, whether it arrives or is too long.
LEMMA BrokerAnswers ==
  ASSUME InboundInv, AnswersInv, BrokerSends
  PROVE  AnswersInv'
<1> DEFINE q == PacketsOf(msgQueue)
<1>1. /\ Rest = <<>> /\ PacketsOf(msgQueue') = q
  <2>1. Rest = <<>> /\ UNCHANGED <<inSession, msgQueue>>
    BY BrokerStep
  <2> QED BY <2>1
<1>2. Tokens(q, <<>>, owes, stage)
  BY <1>1, Zenon DEF AnswersInv
<1>3. SUFFICES Tokens(q, Rest', owes', stage')
  BY <1>1, Zenon DEF AnswersInv
<1> HIDE DEF q
<1>4. CASE /\ mqtt_tcpclient_recv(<<Plain(CONNACK, 0)>>)
           /\ UNCHANGED <<subscribed, stage, owes, sent>>
  <2> DEFINE p == Plain(CONNACK, 0)
             ps == <<p>>
  <2>1. p \in Packets /\ p.type = CONNACK
    BY PacketsThere, PlainParts
  <2> HIDE DEF p
  <2>2. ps \in Seq(Packets) /\ ps # <<>>
    BY <2>1
  <2>3. Rest' = ps \/ Rest' = <<>>
    <3>1. mqtt_tcpclient_recv(ps)
      BY <1>4 DEF p
    <3> HIDE DEF ps
    <3>2. Rest' \in {ps, <<>>}
      BY <2>2, <3>1, Arrives
    <3> QED BY <3>2
  <2>4. Owing(ps) = {}
    <3>1. Due(p) \notin Answers
      BY <2>1, DueOf, TypeNumbers
    <3>2. DOMAIN ps = {1} /\ ps[1] = p
      OBVIOUS
    <3> QED BY <3>1, <3>2 DEF Owing
  <2>5. Tokens(q, ps, owes, stage)
    <3>1. AllAwaited(q, ps, owes, stage)
      BY <1>2, <2>4 DEF Tokens, AllAwaited
    <3>2. OneEach(q, ps, owes)
      BY <1>2, <2>4 DEF Tokens, OneEach
    <3> QED BY <3>1, <3>2 DEF Tokens
  <2>6. owes' = owes /\ stage' = stage
    BY <1>4
  <2> HIDE DEF ps
  <2> QED BY <1>2, <2>3, <2>5, <2>6, Zenon
<1>5. CASE LET some == Sendable
           IN  \E n \in 1..MaxSegment : \E ps \in [1..n -> some] :
                 /\ \A i, j \in 1..n : i < j /\ ps[i].id # 0 =>
                      <<ps[i].type, ps[i].id>> # <<ps[j].type, ps[j].id>>
                 /\ sent' = sent + Cardinality(PublishesIn(ps)) /\ sent' <= MaxInbound
                 /\ mqtt_tcpclient_recv(ps)
                 /\ owes' = owes \ Range(ps)
                 /\ stage' = [id \in Ids |->
                      IF \E i \in PublishesIn(ps) : ps[i].id = id
                      THEN Awaited(ps[CHOOSE i \in PublishesIn(ps) : ps[i].id = id].qos)
                      ELSE stage[id]]
  <2>0. PICK n \in 1..MaxSegment : \E ps \in [1..n -> Sendable] :
                 /\ \A i, j \in 1..n : i < j /\ ps[i].id # 0 =>
                      <<ps[i].type, ps[i].id>> # <<ps[j].type, ps[j].id>>
                 /\ mqtt_tcpclient_recv(ps)
                 /\ owes' = owes \ Range(ps)
                 /\ stage' = [id \in Ids |->
                      IF \E i \in PublishesIn(ps) : ps[i].id = id
                      THEN Awaited(ps[CHOOSE i \in PublishesIn(ps) : ps[i].id = id].qos)
                      ELSE stage[id]]
    BY <1>5, Zenon
  <2>1. PICK ps \in [1..n -> Sendable] :
                 /\ \A i, j \in 1..n : i < j /\ ps[i].id # 0 =>
                      <<ps[i].type, ps[i].id>> # <<ps[j].type, ps[j].id>>
                 /\ mqtt_tcpclient_recv(ps)
                 /\ owes' = owes \ Range(ps)
                 /\ stage' = [id \in Ids |->
                      IF \E i \in PublishesIn(ps) : ps[i].id = id
                      THEN Awaited(ps[CHOOSE i \in PublishesIn(ps) : ps[i].id = id].qos)
                      ELSE stage[id]]
    BY <2>0, Zenon
  <2>2. n \in Nat /\ n >= 1
    BY Bounds
  <2>3. Tokens(q, ps, owes', stage')
    BY <1>2, <2>1, <2>2, SegmentAnswers
  <2>4. ps \in Seq(Packets) /\ ps # <<>>
    <3>1. owes \subseteq Packets
      BY AcksArePackets DEF InboundInv, BrokerInv
    <3>2. Sendable \subseteq Packets
      BY <3>1 DEF Sendable, Publishes
    <3>3. ps \in [1..n -> Packets] /\ DOMAIN ps = 1..n
      BY <3>2
    <3>4. ps \in Seq(Packets) /\ Len(ps) = n
      BY <2>2, <3>3
    <3> QED BY <2>2, <3>4
  <2>5. Rest' = ps \/ Rest' = <<>>
    <3>1. mqtt_tcpclient_recv(ps)
      BY <2>1, Zenon
    <3>2. Rest' \in {ps, <<>>}
      BY <2>4, <3>1, Arrives
    <3> QED BY <3>2, Zenon
  <2>6. Tokens(q, <<>>, owes', stage')
    BY <2>3, TokensNoRest
  <2> QED BY <2>3, <2>5, <2>6, Zenon
<1> QED BY <1>4, <1>5, Zenon DEF BrokerSends

\* Every step keeps the tokens.
LEMMA AnswersNext == InboundInv /\ AnswersInv /\ [InboundNext]_inboundVars => AnswersInv'
<1> SUFFICES ASSUME InboundInv, AnswersInv, [InboundNext]_inboundVars PROVE AnswersInv'
  OBVIOUS
<1>1. ASSUME NEW stale \in {0, 2 * Base - 1}, READPACKET(stale) PROVE AnswersInv'
  <2>1. stale \in Nat
    BY Numbers
  <2> QED BY <1>1, <2>1, ReadAnswers
<1>2. CASE MQTT_Task
  BY <1>2, TaskAnswers
<1>3. CASE BrokerSends
  BY <1>3, BrokerAnswers
<1>4. ASSUME NEW d \in Payloads, NEW q \in 0..2, MQTT_Publish(d, q) PROVE AnswersInv'
  BY <1>4, PublishAnswers
<1>5. CASE UNCHANGED inboundVars
  <2>1. /\ segment' = segment /\ pdata' = pdata /\ msgQueue' = msgQueue /\ owes' = owes
        /\ stage' = stage
    BY <1>5 DEF inboundVars, clientVars, broker
  <2>2. Rest' = Rest
    BY <2>1, RestDef
  <2> QED BY <2>1, <2>2 DEF AnswersInv
<1> QED BY <1>1, <1>2, <1>3, <1>4, <1>5, Zenon DEF InboundNext

\* There are none at the start.
LEMMA AnswersInit == InboundInit => AnswersInv
<1> SUFFICES ASSUME InboundInit PROVE AnswersInv
  OBVIOUS
<1>1. msgQueue = <<>> /\ segment = <<>> /\ pdata = <<>> /\ owes = {}
  BY DEF InboundInit
<1>2. Rest = <<>> /\ PacketsOf(msgQueue) = <<>>
  BY <1>1, NoSegment, RestDef DEF PacketsOf
<1>3. Answering(<<>>) = {} /\ Owing(<<>>) = {} /\ OwedBy(owes) = {}
  BY <1>1 DEF Answering, Owing, OwedBy
<1>4. AllAwaited(<<>>, <<>>, owes, stage) /\ OneEach(<<>>, <<>>, owes)
  BY <1>3 DEF AllAwaited, OneEach
<1>5. Tokens(<<>>, <<>>, owes, stage)
  BY <1>4 DEF Tokens
<1> QED BY <1>2, <1>5 DEF AnswersInv

\* The tokens say what the property says of the queue.
LEMMA AnswersImply == AnswersInv => AnswersAreAwaited
<1> SUFFICES ASSUME AnswersInv PROVE AnswersAreAwaited
  OBVIOUS
<1> DEFINE q == PacketsOf(msgQueue)
<1>1. DOMAIN q = DOMAIN msgQueue /\ \A i \in DOMAIN msgQueue : q[i] = Read(msgQueue[i])
  BY DEF PacketsOf
<1>2. Tokens(q, Rest, owes, stage)
  BY DEF AnswersInv
<1> HIDE DEF q
<1>3. ASSUME NEW i \in DOMAIN msgQueue, Read(msgQueue[i]).type \in {PUBACK, PUBREC, PUBCOMP}
      PROVE  /\ stage[Read(msgQueue[i]).id] = Read(msgQueue[i]).type
             /\ \A j \in DOMAIN msgQueue : j # i => msgQueue[j] # msgQueue[i]
  <2>1. i \in Answering(q) /\ q[i] = Read(msgQueue[i])
    BY <1>1, <1>3 DEF Answering, Answers
  <2>2. stage[q[i].id] = q[i].type
    BY <1>2, <2>1 DEF Tokens, AllAwaited
  <2>3. ASSUME NEW j \in DOMAIN msgQueue, msgQueue[j] = msgQueue[i] PROVE j = i
    <3>1. q[j] = q[i]
      BY <1>1, <2>3
    <3>2. j \in Answering(q)
      BY <1>1, <2>1, <3>1 DEF Answering
    <3> QED BY <1>2, <2>1, <3>1, <3>2 DEF Tokens, OneEach
  <2> QED BY <2>1, <2>2, <2>3
<1> QED BY <1>3 DEF AnswersAreAwaited

\* AnswersAreAwaited holds in every state: each PUBACK, PUBREC and PUBCOMP that waits
\* in the queue is what the broker awaits for that identifier, and it waits once; no
\* answer of the callback is doubled, of the wrong kind or with the identifier of
\* another packet, however segments, answers and the queue at its limit interleave.
THEOREM AnswersAwaited == InboundSpec => []AnswersAreAwaited
<1>1. InboundSpec => []AnswersInv
  BY InboundInvariant, AnswersInit, AnswersNext, PTL DEF InboundSpec
<1> QED BY <1>1, AnswersImply, PTL
=============================================================================
