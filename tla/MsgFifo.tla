------------------------------ MODULE MsgFifo ------------------------------
(***************************************************************************)
(* What the outgoing message queue of the MQTT client promises, without    *)
(* its ring buffer: a FIFO of whole messages, bounded by the number of     *)
(* bytes their frames take.  A message that is offered may push out the    *)
(* OLDEST messages, one at a time and only while there is no room for its  *)
(* frame.  What leaves at the head is what was accepted, unchanged.        *)
(***************************************************************************)
EXTENDS Integers, Sequences, FiniteSets

CONSTANTS Messages,   \* the packets that can be offered
          Capacity,   \* the bytes available for frames
          Special     \* the bytes a frame spends two bytes on

VARIABLES queue,      \* the messages accepted and not yet taken, oldest first
          pending,    \* <<m>> while m is being offered, else <<>>
          taken       \* <<m>> when m was the last one taken for sending

fifoVars == <<queue, pending, taken>>

\* The bytes of a message's frame: two delimiters and its bytes, escaped.
Cost(m) == Len(m) + 2 + Cardinality({i \in DOMAIN m : m[i] \in Special})

\* The bytes of the frames of the messages q.
Used(q) ==
  LET used[i \in 0..Len(q)] == IF i = 0 THEN 0 ELSE used[i - 1] + Cost(q[i])
  IN used[Len(q)]

HasRoom(m) == Used(queue) + Cost(m) <= Capacity

Init == queue = <<>> /\ pending = <<>> /\ taken = <<>>

Offer(m) == /\ pending = <<>>
            /\ pending' = <<m>>
            /\ UNCHANGED <<queue, taken>>

\* Room is made from the head of the queue, and only when it is needed.
DropOldest == /\ pending # <<>> /\ queue # <<>>
              /\ ~HasRoom(pending[1])
              /\ queue' = Tail(queue)
              /\ UNCHANGED <<pending, taken>>

Accept == /\ pending # <<>>
          /\ HasRoom(pending[1])
          /\ queue' = Append(queue, pending[1])
          /\ pending' = <<>>
          /\ UNCHANGED taken

\* An offer is given up only while there is no room for it.
GiveUp == /\ pending # <<>>
          /\ ~HasRoom(pending[1])
          /\ pending' = <<>>
          /\ UNCHANGED <<queue, taken>>

\* The consumer takes the oldest message, never in the middle of an offer.
Take == /\ pending = <<>> /\ queue # <<>>
        /\ taken' = <<Head(queue)>>
        /\ queue' = Tail(queue)
        /\ UNCHANGED pending

Next == \/ \E m \in Messages : Offer(m)
        \/ DropOldest \/ Accept \/ GiveUp
        \/ Take

Spec == Init /\ [][Next]_fifoVars
=============================================================================
