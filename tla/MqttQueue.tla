----------------------------- MODULE MqttQueue -----------------------------
(***************************************************************************)
(* The outgoing queue of the MQTT client: a ring buffer of bytes           *)
(* (ringbuf.c) holding framed packets (proto.c), the saving and restoring  *)
(* of its pointers around an insertion (queue.c), and the loops of         *)
(* MQTT_Publish, MQTT_Subscribe and MQTT_Task that use it (mqtt.c).        *)
(*                                                                         *)
(* One step moves one byte, so that a partly written frame and a partly    *)
(* read one are states.  Here the operations run one at a time, as they do *)
(* in the products whose interrupt handlers do not publish.                *)
(***************************************************************************)
EXTENDS Integers, Sequences, FiniteSets

CONSTANTS Size,       \* QUEUE_BUFFER_SIZE, the bytes of the ring
          BufSize,    \* MQTT_BUF_SIZE, the bytes of the packet buffers
          Messages    \* the packets mqtt_msg.c builds

Byte == 0..255

ASSUME RingAssumption == Size \in Nat /\ Size >= 2
ASSUME BufAssumption == BufSize \in Nat
ASSUME MessagesAssumption ==
  /\ Messages \subseteq Seq(Byte)
  /\ \A m \in Messages : Len(m) <= BufSize

VARIABLES buf, p_r, p_w, fill_cnt,  \* RINGBUF, pointers as offsets from p_o
          last,       \* last_rb_p_r, last_rb_p_w, last_fill_cnt of queue.c
          pc,         \* what the running operation does next
          caller,     \* the function that runs: Publish, Subscribe, Recv, Task
          msg, pos,   \* packet and index of PROTO_AddRb
          proto,      \* the PROTO_PARSER of PROTO_ParseRb
          ret,        \* what the last MQTT_Publish / MQTT_Subscribe returned
          out         \* the last packet MQTT_Task passed to espconn_send

ring == <<buf, p_r, p_w, fill_cnt>>
vars == <<buf, p_r, p_w, fill_cnt, last, pc, caller, msg, pos, proto, ret, out>>

-----------------------------------------------------------------------------
(* Frames.  A frame is 7E, the bytes of the packet, 7F; a byte of the      *)
(* packet that is one of 7D 7E 7F is sent as 7D and the byte ^ 0x20.       *)

Esc == 125
Begin == 126
End == 127

\* Faulty: the delimiter 7E is not escaped.
SpecialWithoutBegin == {Esc, End}

Special == {Esc, Begin, End}

\* b ^ 0x20
Flip(b) == IF (b \div 32) % 2 = 1 THEN b - 32 ELSE b + 32

\* The parser as PROTO_Init leaves it: isBegin is not initialised.
FreshParser == [isBegin |-> "unset", isEsc |-> FALSE, data |-> <<>>]
NoRead == [isBegin |-> "no", isEsc |-> FALSE, data |-> <<>>]

\* Faulty: isEsc is left set after the escaped byte.
PROTO_ParseByteStaysEscaped(p, b) ==
  CASE b = Esc -> {[p EXCEPT !.isEsc = TRUE]}
    [] b = Begin -> {[isBegin |-> "yes", isEsc |-> FALSE, data |-> <<>>]}
    [] OTHER -> {[p EXCEPT !.data = Append(@, IF p.isEsc THEN Flip(b) ELSE b)]}

\* What PROTO_ParseByte may leave of the parser p on a byte that does not end
\* the frame.  It tests isBegin on the bytes of the packet: a value that was
\* never written can test either way.
PROTO_ParseByte(p, b) ==
  LET data == IF Len(p.data) < BufSize
                THEN Append(p.data, IF p.isEsc THEN Flip(b) ELSE b)
                ELSE p.data
      stored == [p EXCEPT !.data = data, !.isEsc = FALSE]
  IN CASE b = Esc -> {[p EXCEPT !.isEsc = TRUE]}
       [] b = Begin -> {[isBegin |-> "yes", isEsc |-> FALSE, data |-> <<>>]}
       [] OTHER -> (IF p.isBegin = "no" THEN {} ELSE {stored})
                     \cup (IF p.isBegin = "yes" THEN {} ELSE {p})

-----------------------------------------------------------------------------
(* The ring.                                                               *)

\* Faulty: the pointer wraps one byte too late.
WrapLate(p) == IF p > Size THEN p - Size ELSE p

\* Back to the start of the buffer at its physical end.
Wrap(p) == IF p >= Size THEN p - Size ELSE p

\* The bytes held, oldest first.
Held == [i \in 0..fill_cnt - 1 |-> buf[Wrap(p_r + i)]]

RINGBUF_Put(c) ==
  /\ fill_cnt < Size
  /\ fill_cnt' = fill_cnt + 1
  /\ buf' = [buf EXCEPT ![p_w] = c]
  /\ p_w' = Wrap(p_w + 1)
  /\ p_r' = p_r

RINGBUF_Get ==
  /\ fill_cnt > 0
  /\ fill_cnt' = fill_cnt - 1
  /\ p_r' = Wrap(p_r + 1)
  /\ UNCHANGED <<buf, p_w>>

-----------------------------------------------------------------------------
(* How an operation goes on: start of QUEUE_Puts, start of QUEUE_Gets,     *)
(* return.                                                                 *)

StartPuts(m) ==
  /\ last' = [p_r |-> p_r', p_w |-> p_w', fill_cnt |-> fill_cnt']
  /\ pc' = "begin" /\ msg' = m /\ pos' = 1
  /\ proto' = NoRead

StartGets ==
  /\ pc' = "get" /\ proto' = FreshParser

Return(r) ==
  /\ pc' = "idle" /\ caller' = "none" /\ ret' = r
  /\ msg' = <<>> /\ pos' = 0 /\ proto' = NoRead

\* What the caller's caller gets: only two of the four return a result.
Result(r) == IF caller \in {"Publish", "Subscribe"} THEN r ELSE ret

-----------------------------------------------------------------------------
(* The functions that use the queue.                                       *)

\* MQTT_Publish: an empty outbound message is refused, a packet goes
\* through the loop that makes room.
MQTT_Publish(m) ==
  /\ pc = "idle"
  /\ \/ /\ m = <<>> /\ Return(FALSE)
     \/ /\ m # <<>>
        /\ caller' = "Publish" /\ pc' = "fit" /\ msg' = m
        /\ UNCHANGED <<pos, proto, ret>>
  /\ UNCHANGED <<ring, last, out>>

\* The loop of MQTT_Publish: room is counted without the escapes.
Fit ==
  /\ pc = "fit"
  /\ UNCHANGED ring
  /\ \/ /\ Size - fill_cnt < Len(msg) + 2
        /\ StartGets /\ UNCHANGED <<last, msg, pos>>
     \/ /\ Size - fill_cnt >= Len(msg) + 2
        /\ StartPuts(msg)
  /\ UNCHANGED <<caller, ret, out>>

\* MQTT_Subscribe, MQTT_UnSubscribe and MQTT_Ping: the same loop around
\* QUEUE_Puts, without the test of the length.
MQTT_Subscribe(m) ==
  /\ pc = "idle"
  /\ caller' = "Subscribe"
  /\ UNCHANGED ring
  /\ StartPuts(m)
  /\ UNCHANGED <<ret, out>>

\* mqtt_tcpclient_recv: the answer to a packet of the broker (PUBACK, PUBREC,
\* PUBREL, PUBCOMP, PINGRESP) is queued if it fits.
mqtt_tcpclient_recv(m) ==
  /\ pc = "idle"
  /\ caller' = "Recv"
  /\ UNCHANGED ring
  /\ StartPuts(m)
  /\ UNCHANGED <<ret, out>>

\* MQTT_Task in state MQTT_DATA with sendTimeout = 0.
MQTT_Task ==
  /\ pc = "idle"
  /\ fill_cnt > 0
  /\ caller' = "Task" /\ StartGets
  /\ UNCHANGED <<ring, last, msg, pos, ret, out>>

-----------------------------------------------------------------------------
(* QUEUE_Puts and PROTO_AddRb, one byte a step.                            *)

Adding == pc \in {"begin", "body", "esc"}

AddBegin ==
  /\ pc = "begin" /\ RINGBUF_Put(Begin)
  /\ pc' = "body"
  /\ UNCHANGED <<last, caller, msg, pos, proto, ret, out>>

AddPlain ==
  /\ pc = "body" /\ pos <= Len(msg) /\ msg[pos] \notin Special
  /\ RINGBUF_Put(msg[pos])
  /\ pos' = pos + 1
  /\ UNCHANGED <<last, pc, caller, msg, proto, ret, out>>

AddEsc ==
  /\ pc = "body" /\ pos <= Len(msg) /\ msg[pos] \in Special
  /\ RINGBUF_Put(Esc)
  /\ pc' = "esc"
  /\ UNCHANGED <<last, caller, msg, pos, proto, ret, out>>

AddEscaped ==
  /\ pc = "esc" /\ RINGBUF_Put(Flip(msg[pos]))
  /\ pc' = "body" /\ pos' = pos + 1
  /\ UNCHANGED <<last, caller, msg, proto, ret, out>>

\* The frame is complete and the function returns TRUE.
AddEnd ==
  /\ pc = "body" /\ pos > Len(msg)
  /\ RINGBUF_Put(End)
  /\ Return(Result(TRUE))
  /\ UNCHANGED <<last, out>>

\* Faulty: the rollback forgets the write pointer.
PutsFailsKeepingPointer ==
  /\ Adding /\ fill_cnt >= Size
  /\ p_r' = last.p_r /\ fill_cnt' = last.fill_cnt
  /\ \/ /\ caller # "Subscribe" /\ Return(Result(TRUE))
     \/ /\ caller = "Subscribe" /\ StartGets
        /\ UNCHANGED <<caller, msg, pos, ret>>
  /\ UNCHANGED <<buf, p_w, last, out>>

\* Faulty: QUEUE_Puts without the rollback.
PutsFailsWithoutRollback ==
  /\ Adding /\ fill_cnt >= Size
  /\ \/ /\ caller # "Subscribe" /\ Return(Result(TRUE))
     \/ /\ caller = "Subscribe" /\ StartGets
        /\ UNCHANGED <<caller, msg, pos, ret>>
  /\ UNCHANGED <<ring, last, out>>

\* A byte does not fit: QUEUE_Puts puts the pointers back and returns -1.
\* MQTT_Publish and mqtt_tcpclient_recv ignore it, MQTT_Subscribe drops the
\* oldest message and tries again.
PutsFails ==
  /\ Adding /\ fill_cnt >= Size
  /\ p_r' = last.p_r /\ p_w' = last.p_w /\ fill_cnt' = last.fill_cnt
  /\ \/ /\ caller # "Subscribe" /\ Return(Result(TRUE))
     \/ /\ caller = "Subscribe" /\ StartGets
        /\ UNCHANGED <<caller, msg, pos, ret>>
  /\ UNCHANGED <<buf, last, out>>

-----------------------------------------------------------------------------
(* QUEUE_Gets and PROTO_ParseRb, one byte a step.                          *)

\* Faulty: an empty ring sends MQTT_Publish and MQTT_Subscribe back to their
\* loops instead of making them return.
GetsFailsStaysInLoop ==
  /\ pc = "get" /\ fill_cnt <= 0
  /\ UNCHANGED <<ring, out>>
  /\ \/ caller = "Task" /\ Return(ret) /\ UNCHANGED last
     \/ caller = "Publish" /\ pc' = "fit" /\ proto' = NoRead
        /\ UNCHANGED <<last, caller, msg, pos, ret>>
     \/ caller = "Subscribe" /\ StartPuts(msg) /\ UNCHANGED <<caller, ret>>

\* The ring is empty before a frame ended: QUEUE_Gets returns -1.
GetsFails ==
  /\ pc = "get" /\ fill_cnt <= 0
  /\ Return(Result(FALSE))
  /\ UNCHANGED <<ring, last, out>>

ParseByte ==
  /\ pc = "get" /\ fill_cnt > 0 /\ Held[0] # End
  /\ RINGBUF_Get
  /\ proto' \in PROTO_ParseByte(proto, Held[0])
  /\ UNCHANGED <<last, pc, caller, msg, pos, ret, out>>

\* The frame is complete.  MQTT_Task sends its packet, the others drop it
\* and go back to the head of their loop.
ParseEnd ==
  /\ pc = "get" /\ fill_cnt > 0 /\ Held[0] = End
  /\ RINGBUF_Get
  /\ \/ /\ caller = "Task" /\ Return(Result(TRUE))
        /\ out' = <<proto.data>>
        /\ UNCHANGED last
     \/ /\ caller = "Publish"
        /\ pc' = "fit" /\ proto' = NoRead
        /\ UNCHANGED <<last, caller, msg, pos, ret, out>>
     \/ /\ caller = "Subscribe"
        /\ StartPuts(msg)
        /\ UNCHANGED <<caller, ret, out>>

-----------------------------------------------------------------------------
\* QUEUE_Init and RINGBUF_Init: os_zalloc clears the buffer.
Init ==
  /\ buf = [i \in 0..Size - 1 |-> 0]
  /\ p_r = 0 /\ p_w = 0 /\ fill_cnt = 0
  /\ last = [p_r |-> 0, p_w |-> 0, fill_cnt |-> 0]
  /\ pc = "idle" /\ caller = "none"
  /\ msg = <<>> /\ pos = 0 /\ proto = NoRead
  /\ ret = TRUE /\ out = <<>>

Step == \/ Fit
        \/ AddBegin \/ AddPlain \/ AddEsc \/ AddEscaped \/ AddEnd \/ PutsFails
        \/ GetsFails \/ ParseByte \/ ParseEnd

Next == \/ \E m \in Messages :
             MQTT_Publish(m) \/ MQTT_Subscribe(m) \/ mqtt_tcpclient_recv(m)
        \/ MQTT_Task
        \/ Step

Spec == Init /\ [][Next]_vars

\* A function of the firmware that has been called runs to its end: the task
\* level of the SDK is not preempted by another task.
FairSpec == Spec /\ WF_vars(Step)

-----------------------------------------------------------------------------
(* Properties.                                                             *)

Reading == pc = "get"

\* Every variable has its type; the pointers stay inside the buffer and
\* fill_cnt between 0 and size (ringbuf.c).
TypeOK ==
  /\ buf \in [0..Size - 1 -> Byte]
  /\ p_r \in 0..Size - 1 /\ p_w \in 0..Size - 1 /\ fill_cnt \in 0..Size
  /\ last \in [p_r : 0..Size - 1, p_w : 0..Size - 1, fill_cnt : 0..Size]
  /\ pc \in {"idle", "fit", "begin", "body", "esc", "get"}
  /\ caller \in {"none", "Publish", "Subscribe", "Recv", "Task"}
  /\ msg \in Seq(Byte) /\ pos \in Nat
  /\ proto \in [isBegin : {"unset", "no", "yes"}, isEsc : BOOLEAN, data : Seq(Byte)]
  /\ ret \in BOOLEAN
  /\ out \in Seq(Seq(Byte)) /\ Len(out) <= 1

\* The three redundant pieces of RINGBUF agree: the write pointer is fill_cnt
\* bytes after the read pointer, across every wrap and every restore of
\* last_rb_p_w by QUEUE_Puts.
RingInv == p_w = Wrap(p_r + fill_cnt)

\* Which byte may follow which in the ring.
Follows(a, b) ==
  CASE a = End -> b = Begin
    [] a = Esc -> b \in {Flip(s) : s \in Special}
    [] OTHER -> b # Begin

\* Nothing but whole frames, one after the other, and at most one partial
\* frame at the end while QUEUE_Puts runs or at the front while QUEUE_Gets
\* does: a failed insertion leaves no trace and a reader never loses step.
WellFramed ==
  /\ \A i \in 0..fill_cnt - 2 : Follows(Held[i], Held[i + 1])
  /\ fill_cnt > 0 =>
       /\ Held[0] = Begin \/ (Reading /\ proto.isBegin = "yes")
       /\ (pc # "body" /\ pc # "esc") => Held[fill_cnt - 1] = End

\* The frame PROTO_ParseRb looks for is always there: it never runs the ring
\* dry in the middle of a packet, and it never tests the isBegin that
\* PROTO_Init forgets to set.
ReaderFindsFrame ==
  Reading => /\ fill_cnt = 0 => proto.isBegin = "unset"
             /\ fill_cnt > 0 /\ proto.isBegin = "unset" => Held[0] = Begin

\* A parser and the packets it has found, after the byte b.
Parse(r, b) ==
  IF b = End THEN [p |-> NoRead, found |-> Append(r.found, r.p.data)]
             ELSE [r EXCEPT !.p = CHOOSE q \in PROTO_ParseByte(r.p, b) : TRUE]

\* The same for the parser p after each of the n bytes h.
Parsed(h, n, p) ==
  LET run[i \in 0..n] == IF i = 0 THEN [p |-> p, found |-> <<>>]
                                  ELSE Parse(run[i - 1], h[i - 1])
  IN run

\* The packets the parser would still find in the ring from where it is.
Queue == Parsed(Held, fill_cnt, proto)[fill_cnt].found

Fifo == INSTANCE MsgFifo
          WITH Capacity <- Size,
               queue <- Queue,
               pending <- IF caller \in {"Publish", "Subscribe", "Recv"} THEN <<msg>> ELSE <<>>,
               taken <- out

\* The ring, its framing and the drop-oldest loops are a FIFO of whole packets
\* that loses only its oldest ones, and only for want of room.
ImplementsFifo == Fifo!Spec

\* A call never loops for ever: each round of the drop loops of MQTT_Publish
\* and MQTT_Subscribe removes a frame or returns.
CallsReturn == pc # "idle" ~> pc = "idle"
=============================================================================
