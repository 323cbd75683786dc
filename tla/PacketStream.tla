---------------------------- MODULE PacketStream -----------------------------
(***************************************************************************)
(* What the receiving side of the MQTT client does, without bytes and      *)
(* buffers: segments of packets arrive, PUBLISHes are delivered in their   *)
(* order with an answer of their QoS, and what arrived behind a packet     *)
(* that is not a PUBLISH is forgotten.  What is to be sent waits in a      *)
(* bounded queue: an answer that finds no place is forgotten, a message of *)
(* the application takes the place of the oldest.                          *)
(***************************************************************************)
EXTENDS Integers, Sequences

CONSTANTS CONNACK, PUBLISH,
          Packets,     \* what either side can send
          QueueMax,    \* places of the queue
          Answer(_)    \* the packet owed for a packet, or <<>>

VARIABLES up,          \* the CONNACK arrived
          rest,        \* packets of the segment that are not handled
          delivered,   \* what the application is given in this step, or <<>>
          queue        \* packets to send, oldest first

streamVars == <<up, rest, delivered, queue>>

Full == Len(queue) >= QueueMax

\* The packets that make room for one more.
MakeRoom(q) == IF Len(q) >= QueueMax THEN Tail(q) ELSE q

Init == up = FALSE /\ rest = <<>> /\ delivered = <<>> /\ queue = <<>>

\* A segment that is too long does not arrive.
Arrive == /\ rest = <<>> /\ rest' \in Seq(Packets)
          /\ UNCHANGED <<up, queue>> /\ delivered' = <<>>

\* Nothing but the CONNACK is looked at before the session.
Ignore == /\ ~up /\ rest # <<>> /\ Head(rest).type # CONNACK /\ rest' = <<>>
          /\ UNCHANGED <<up, queue>> /\ delivered' = <<>>

\* The session starts: the application subscribes and announces itself.
Start == /\ ~up /\ rest # <<>> /\ Head(rest).type = CONNACK
         /\ up' = TRUE /\ rest' = <<>>
         /\ \E subscribe, announce \in Packets :
              queue' = Append(MakeRoom(Append(MakeRoom(queue), subscribe)), announce)
         /\ delivered' = <<>>

Handle == /\ up /\ rest # <<>>
          /\ rest' = IF Head(rest).type = PUBLISH THEN Tail(rest) ELSE <<>>
          /\ delivered' = IF Head(rest).type # PUBLISH THEN <<>>
               ELSE <<[topic |-> Head(rest).topic, data |-> Head(rest).data]>>
          /\ queue' = IF Full THEN queue ELSE queue \o Answer(Head(rest))
          /\ UNCHANGED up

\* A message that is too long is forgotten.
Publish == /\ queue' \in {queue} \cup {Append(MakeRoom(queue), p) : p \in Packets}
           /\ UNCHANGED <<up, rest>> /\ delivered' = <<>>

Send == /\ queue # <<>> /\ queue' = Tail(queue)
        /\ UNCHANGED <<up, rest>> /\ delivered' = <<>>

Next == Arrive \/ Ignore \/ Start \/ Handle \/ Publish \/ Send

Spec == Init /\ [][Next]_streamVars
=============================================================================
