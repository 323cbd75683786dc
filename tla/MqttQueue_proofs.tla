-------------------------- MODULE MqttQueue_proofs --------------------------
(***************************************************************************)
(* Proofs about MqttQueue, for every size of the ring, every size of the   *)
(* packet buffers and every set of packets.                                *)
(***************************************************************************)
EXTENDS MqttQueue, TLAPS, FiniteSetTheorems, SequenceTheorems, WellFoundedInduction

-----------------------------------------------------------------------------
(* The inductive invariant: what the properties of MqttQueue need about    *)
(* the middle of an insertion and the middle of an extraction.             *)

Escaped == {Flip(s) : s \in Special}

\* While QUEUE_Puts runs, last_rb_* are the ring as it was, with only whole
\* frames, and the byte last written tells where PROTO_AddRb is in the packet.
PutsInv ==
  Adding =>
    /\ last.p_r = p_r
    /\ last.p_w = Wrap(p_r + last.fill_cnt)
    /\ last.fill_cnt <= fill_cnt
    /\ last.fill_cnt > 0 => Held[last.fill_cnt - 1] = End
    /\ pos > 0
    /\ pc = "begin" => fill_cnt = last.fill_cnt
    /\ pc = "body" => fill_cnt > 0 /\ Held[fill_cnt - 1] \notin {Esc, End}
    /\ pc = "esc" => /\ fill_cnt > 0 /\ Held[fill_cnt - 1] = Esc
                     /\ pos <= Len(msg) /\ msg[pos] \in Special

\* While QUEUE_Gets runs, the parser and the oldest byte agree.
GetsInv ==
  Reading =>
    /\ proto.isBegin = "unset" =>
         ~proto.isEsc /\ (fill_cnt > 0 => Held[0] = Begin)
    /\ proto.isBegin = "yes" =>
         fill_cnt > 0 /\ Held[0] # Begin /\ (proto.isEsc => Held[0] \in Escaped)
    /\ proto.isBegin # "no"

IInv == TypeOK /\ RingInv /\ WellFramed /\ PutsInv /\ GetsInv

-----------------------------------------------------------------------------
(* Bytes.                                                                  *)

\* The escaped forms of 7D, 7E and 7F are the plain bytes 5D, 5E and 5F.
LEMMA EscapedBytes == Escaped = {93, 94, 95}
BY DEF Escaped, Flip, Special, Esc, Begin, End

\* Flipping bit 5 of a byte gives a byte.
LEMMA FlipType == \A b \in Byte : Flip(b) \in Byte
<1> SUFFICES ASSUME NEW b \in Byte PROVE Flip(b) \in Byte
  OBVIOUS
<1>1. CASE (b \div 32) % 2 = 1
  <2>1. b >= 32
    BY <1>1 DEF Byte
  <2> QED BY <1>1, <2>1 DEF Flip, Byte
<1>2. CASE (b \div 32) % 2 # 1
  <2>1. b < 224
    BY <1>2 DEF Byte
  <2> QED BY <1>2, <2>1 DEF Flip, Byte
<1> QED BY <1>1, <1>2

-----------------------------------------------------------------------------
(* What the primitives of the ring do to the bytes held.                   *)

LEMMA WrapType == \A p \in 0..2 * Size - 1 : Wrap(p) \in 0..Size - 1
BY RingAssumption DEF Wrap

LEMMA PutHeld ==
  ASSUME TypeOK, RingInv, NEW c, RINGBUF_Put(c)
  PROVE  /\ RingInv'
         /\ fill_cnt' = fill_cnt + 1
         /\ fill_cnt' \in 0..Size
         /\ p_w' \in 0..Size - 1
         /\ Held' = [i \in 0..fill_cnt |-> IF i = fill_cnt THEN c ELSE Held[i]]
<1> USE RingAssumption DEF TypeOK, RingInv, RINGBUF_Put, Wrap
<1>1. fill_cnt' = fill_cnt + 1 /\ fill_cnt' \in 0..Size /\ p_w' \in 0..Size - 1
  OBVIOUS
<1>2. RingInv'
  OBVIOUS
<1>3. ASSUME NEW i \in 0..fill_cnt
      PROVE  buf'[Wrap(p_r' + i)] = IF i = fill_cnt THEN c ELSE Held[i]
  BY DEF Held
<1> QED BY <1>1, <1>2, <1>3 DEF Held

LEMMA PutType ==
  ASSUME TypeOK, NEW c \in Byte, RINGBUF_Put(c)
  PROVE  /\ buf' \in [0..Size - 1 -> Byte]
         /\ p_r' \in 0..Size - 1 /\ p_w' \in 0..Size - 1
         /\ fill_cnt' \in 0..Size
BY RingAssumption DEF TypeOK, RINGBUF_Put, Wrap

LEMMA GetHeld ==
  ASSUME TypeOK, RingInv, RINGBUF_Get
  PROVE  /\ RingInv'
         /\ fill_cnt' = fill_cnt - 1
         /\ fill_cnt' \in 0..Size
         /\ p_r' \in 0..Size - 1
         /\ Held' = [i \in 0..fill_cnt - 2 |-> Held[i + 1]]
<1> USE RingAssumption DEF TypeOK, RingInv, RINGBUF_Get, Wrap
<1>1. fill_cnt' = fill_cnt - 1 /\ fill_cnt' \in 0..Size /\ p_r' \in 0..Size - 1
  OBVIOUS
<1>2. RingInv'
  OBVIOUS
<1>3. ASSUME NEW i \in 0..fill_cnt - 2
      PROVE  buf'[Wrap(p_r' + i)] = Held[i + 1]
  BY DEF Held
<1> QED BY <1>1, <1>2, <1>3 DEF Held

LEMMA SameHeld == ASSUME UNCHANGED ring PROVE Held' = Held /\ (RingInv => RingInv')
BY DEF ring, Held, RingInv, Wrap

-----------------------------------------------------------------------------
(* Preservation, one action at a time.                                     *)

LEMMA InitIInv == Init => IInv
<1> SUFFICES ASSUME Init PROVE IInv
  OBVIOUS
<1> USE RingAssumption DEF Init
<1>1. TypeOK
  BY DEF TypeOK, Byte, NoRead
<1>2. RingInv
  BY DEF RingInv, Wrap
<1>3. WellFramed /\ PutsInv /\ GetsInv
  BY DEF WellFramed, PutsInv, GetsInv, Adding, Reading
<1> QED BY <1>1, <1>2, <1>3 DEF IInv

\* The locals of a function that has returned.
LEMMA NoReadType ==
  /\ <<>> \in Seq(Byte)
  /\ NoRead \in [isBegin : {"unset", "no", "yes"}, isEsc : BOOLEAN, data : Seq(Byte)]
BY DEF NoRead

LEMMA FreshParserType ==
  FreshParser \in [isBegin : {"unset", "no", "yes"}, isEsc : BOOLEAN, data : Seq(Byte)]
BY DEF FreshParser

\* Between two operations: the ring is left alone.
LEMMA PublishStep ==
  ASSUME IInv, NEW m \in Messages, MQTT_Publish(m)
  PROVE  IInv'
<1> USE DEF IInv, MQTT_Publish, Return
<1>1. Held' = Held /\ RingInv'
  BY SameHeld
<1>2. m \in Seq(Byte)
  BY MessagesAssumption
<1>3. TypeOK'
  <2>1. CASE m = <<>> /\ Return(FALSE)
    BY <2>1, NoReadType DEF TypeOK, ring
  <2>2. CASE m # <<>> /\ caller' = "Publish" /\ pc' = "fit" /\ msg' = m
             /\ UNCHANGED <<pos, proto, ret>>
    BY <1>2, <2>2 DEF TypeOK, ring
  <2> QED BY <2>1, <2>2
<1>4. WellFramed' /\ PutsInv' /\ GetsInv'
  BY <1>1 DEF WellFramed, PutsInv, GetsInv, Adding, Reading, ring
<1> QED BY <1>1, <1>3, <1>4

\* QUEUE_Puts starts on a ring of whole frames.
LEMMA StartPutsStep ==
  ASSUME IInv, NEW m \in Seq(Byte), pc \in {"idle", "fit"},
         UNCHANGED <<ring, ret, out>>, StartPuts(m),
         caller' \in {"none", "Publish", "Subscribe", "Recv", "Task"}
  PROVE  IInv'
<1> USE DEF IInv, StartPuts
<1>1. Held' = Held /\ RingInv'
  BY SameHeld
<1>2. TypeOK'
  BY DEF TypeOK, ring, NoRead
<1>3. WellFramed' /\ GetsInv'
  BY <1>1 DEF WellFramed, GetsInv, Reading, ring
<1>4. PutsInv'
  BY <1>1 DEF PutsInv, WellFramed, TypeOK, RingInv, Wrap, Adding, Reading, ring
<1> QED BY <1>1, <1>2, <1>3, <1>4

\* QUEUE_Gets starts on a ring of whole frames.
LEMMA StartGetsStep ==
  ASSUME IInv, pc \in {"idle", "fit"},
         UNCHANGED <<ring, last, msg, pos, ret, out>>, StartGets,
         caller' \in {"none", "Publish", "Subscribe", "Recv", "Task"}
  PROVE  IInv'
<1> USE DEF IInv, StartGets
<1>1. Held' = Held /\ RingInv'
  BY SameHeld
<1>2. TypeOK'
  BY DEF TypeOK, ring, FreshParser
<1>3. WellFramed' /\ GetsInv' /\ PutsInv'
  BY <1>1 DEF WellFramed, GetsInv, PutsInv, Adding, Reading, FreshParser, ring
<1> QED BY <1>1, <1>2, <1>3

\* The ring after PROTO_AddRb has put the byte c.
PutDone(c) ==
  /\ RingInv'
  /\ \A i \in 0..fill_cnt' - 2 : Follows(Held'[i], Held'[i + 1])
  /\ fill_cnt' > 0
  /\ fill_cnt' = fill_cnt + 1
  /\ Held'[0] = Begin
  /\ Held'[fill_cnt' - 1] = c
  /\ last'.p_r = p_r' /\ last'.p_w = Wrap(p_r' + last'.fill_cnt)
  /\ last'.fill_cnt <= fill_cnt'
  /\ last'.fill_cnt > 0 => Held'[last'.fill_cnt - 1] = End

\* A byte that may follow the newest one keeps the frames well formed and the
\* saved pointers valid.
LEMMA PutFramed ==
  ASSUME IInv, Adding, NEW c, RINGBUF_Put(c), UNCHANGED last,
         fill_cnt > 0 => Follows(Held[fill_cnt - 1], c),
         fill_cnt = 0 => c = Begin
  PROVE  PutDone(c)
<1> USE DEF IInv
<1> DEFINE h == Held
<1>1. /\ RingInv'
      /\ fill_cnt' = fill_cnt + 1
      /\ Held' = [i \in 0..fill_cnt |-> IF i = fill_cnt THEN c ELSE h[i]]
  BY PutHeld
<1>2. fill_cnt \in Nat /\ last.fill_cnt \in Nat
  BY RingAssumption DEF TypeOK
<1>3. Held'[0] = Begin /\ Held'[fill_cnt' - 1] = c /\ fill_cnt' > 0
  BY <1>1, <1>2 DEF WellFramed, Adding, Reading
<1>4. ASSUME NEW i \in 0..fill_cnt' - 2
      PROVE  Follows(Held'[i], Held'[i + 1])
  <2>1. CASE i = fill_cnt - 1
    BY <1>1, <1>2, <2>1
  <2>2. CASE i # fill_cnt - 1
    <3>1. i \in 0..fill_cnt - 2
      BY <1>1, <1>2, <2>2
    <3>2. Held'[i] = h[i] /\ Held'[i + 1] = h[i + 1]
      BY <1>1, <1>2, <3>1
    <3> QED BY <3>1, <3>2 DEF WellFramed
  <2> QED BY <2>1, <2>2
<1>5. /\ last'.p_r = p_r' /\ last'.p_w = Wrap(p_r' + last'.fill_cnt)
      /\ last'.fill_cnt <= fill_cnt'
      /\ last'.fill_cnt > 0 => Held'[last'.fill_cnt - 1] = End
  BY <1>1, <1>2 DEF PutsInv, RINGBUF_Put
<1> QED BY <1>1, <1>3, <1>4, <1>5 DEF PutDone

\* PROTO_AddRb: 7E starts the frame.
LEMMA AddBeginStep == ASSUME IInv, AddBegin PROVE IInv'
<1> USE DEF IInv, AddBegin
<1>1. fill_cnt > 0 => Follows(Held[fill_cnt - 1], Begin)
  BY DEF WellFramed, Follows, Begin, End, Esc
<1>2. Adding
  BY DEF Adding
<1>3. TypeOK'
  <2>1. Begin \in Byte
    BY DEF Byte, Begin
  <2>2. /\ buf' \in [0..Size - 1 -> Byte]
        /\ p_r' \in 0..Size - 1 /\ p_w' \in 0..Size - 1
        /\ fill_cnt' \in 0..Size
    BY <2>1, PutType
  <2> QED BY <2>2 DEF TypeOK
<1>4. PutDone(Begin)
  BY PutFramed, <1>1, <1>2
<1>5. WellFramed' /\ PutsInv' /\ GetsInv' /\ RingInv'
  BY <1>4 DEF PutDone, WellFramed, PutsInv, GetsInv, Adding, Reading, Begin, End, Esc,
           TypeOK
<1> QED BY <1>3, <1>5

LEMMA AddPlainStep == ASSUME IInv, AddPlain PROVE IInv'
<1> USE DEF IInv, AddPlain
<1>1. /\ fill_cnt > 0 => Follows(Held[fill_cnt - 1], msg[pos])
      /\ fill_cnt > 0 /\ pos > 0
  BY DEF PutsInv, Adding, Follows, Special, Esc, Begin, End
<1>2. Adding /\ msg[pos] \in Byte
  BY <1>1 DEF Adding, TypeOK
<1>3. TypeOK'
  <2>1. msg[pos] \in Byte
    BY <1>2 DEF Byte, Special
  <2>2. /\ buf' \in [0..Size - 1 -> Byte]
        /\ p_r' \in 0..Size - 1 /\ p_w' \in 0..Size - 1
        /\ fill_cnt' \in 0..Size
    BY <2>1, PutType
  <2> QED BY <2>2 DEF TypeOK
<1>4. PutDone(msg[pos])
  BY PutFramed, <1>1, <1>2
<1>5. WellFramed' /\ PutsInv' /\ GetsInv' /\ RingInv'
  BY <1>4, <1>1 DEF PutDone, WellFramed, PutsInv, GetsInv, Adding, Reading, Special,
           TypeOK
<1> QED BY <1>3, <1>5

LEMMA AddEscStep == ASSUME IInv, AddEsc PROVE IInv'
<1> USE DEF IInv, AddEsc
<1>1. /\ fill_cnt > 0 => Follows(Held[fill_cnt - 1], Esc)
      /\ fill_cnt > 0
  BY DEF PutsInv, Adding, Follows, Esc, Begin, End
<1>2. Adding
  BY DEF Adding
<1>3. TypeOK'
  <2>1. Esc \in Byte
    BY DEF Byte, Esc
  <2>2. /\ buf' \in [0..Size - 1 -> Byte]
        /\ p_r' \in 0..Size - 1 /\ p_w' \in 0..Size - 1
        /\ fill_cnt' \in 0..Size
    BY <2>1, PutType
  <2> QED BY <2>2 DEF TypeOK
<1>4. PutDone(Esc)
  BY PutFramed, <1>1, <1>2
<1>5. WellFramed' /\ PutsInv' /\ GetsInv' /\ RingInv'
  BY <1>4 DEF PutDone, WellFramed, PutsInv, GetsInv, Adding, Reading, TypeOK
<1> QED BY <1>3, <1>5

LEMMA AddEscapedStep == ASSUME IInv, AddEscaped PROVE IInv'
<1> USE DEF IInv, AddEscaped
<1>1. fill_cnt > 0 /\ Held[fill_cnt - 1] = Esc /\ pos > 0 /\ msg[pos] \in Special
  BY DEF PutsInv, Adding
<1>2. Flip(msg[pos]) \in {93, 94, 95}
  BY <1>1, EscapedBytes DEF Escaped
<1>3. fill_cnt > 0 => Follows(Held[fill_cnt - 1], Flip(msg[pos]))
  BY <1>1 DEF Follows, Esc, End
<1>4. Adding
  BY DEF Adding
<1>5. TypeOK'
  <2>1. Flip(msg[pos]) \in Byte
    BY <1>2 DEF Byte, Special
  <2>2. /\ buf' \in [0..Size - 1 -> Byte]
        /\ p_r' \in 0..Size - 1 /\ p_w' \in 0..Size - 1
        /\ fill_cnt' \in 0..Size
    BY <2>1, PutType
  <2> QED BY <2>2 DEF TypeOK
<1>6. PutDone(Flip(msg[pos]))
  BY PutFramed, <1>1, <1>3, <1>4
<1>7. Flip(msg[pos]) \notin {Esc, End}
  BY <1>2 DEF Esc, End
<1>8. pc' = "body" /\ pos' = pos + 1
  OBVIOUS
<1>9. pos' > 0
  BY <1>1, <1>8 DEF TypeOK
<1>10. WellFramed' /\ RingInv'
  BY <1>6, <1>7, <1>8 DEF PutDone, WellFramed, Adding, Reading
<1>11. PutsInv' /\ GetsInv'
  BY <1>6, <1>7, <1>8, <1>9 DEF PutDone, PutsInv, GetsInv, Reading
<1> QED BY <1>5, <1>10, <1>11

LEMMA AddEndStep == ASSUME IInv, AddEnd PROVE IInv'
<1> USE DEF IInv, AddEnd, Return, Result
<1>1. /\ fill_cnt > 0 => Follows(Held[fill_cnt - 1], End)
      /\ fill_cnt > 0
  BY DEF PutsInv, Adding, Follows, Esc, Begin, End
<1>2. Adding
  BY DEF Adding
<1>3. TypeOK'
  <2>1. End \in Byte
    BY DEF Byte, End
  <2>2. /\ buf' \in [0..Size - 1 -> Byte]
        /\ p_r' \in 0..Size - 1 /\ p_w' \in 0..Size - 1
        /\ fill_cnt' \in 0..Size
    BY <2>1, PutType
  <2> QED BY <2>2, NoReadType DEF TypeOK
<1>4. PutDone(End)
  BY PutFramed, <1>1, <1>2
<1>5. WellFramed' /\ PutsInv' /\ GetsInv' /\ RingInv'
  BY <1>4 DEF PutDone, WellFramed, PutsInv, GetsInv, Adding, Reading, TypeOK
<1> QED BY <1>3, <1>5

\* QUEUE_Puts has failed: what was there before it is what is left.
LEMMA PutsFailsStep == ASSUME IInv, PutsFails PROVE IInv'
<1> USE DEF IInv, PutsFails, Result
<1> DEFINE h == Held
<1>1. /\ last \in [p_r : 0..Size - 1, p_w : 0..Size - 1, fill_cnt : 0..Size]
      /\ last.fill_cnt \in 0..Size /\ last.p_r \in 0..Size - 1
      /\ last.p_w \in 0..Size - 1 /\ fill_cnt \in 0..Size
  BY DEF TypeOK
<1>2. /\ last.p_r = p_r /\ last.p_w = Wrap(p_r + last.fill_cnt)
      /\ last.fill_cnt <= fill_cnt
      /\ last.fill_cnt > 0 => Held[last.fill_cnt - 1] = End
  BY DEF PutsInv
<1>3. Held' = [i \in 0..last.fill_cnt - 1 |-> h[i]]
  <2>1. \A i \in 0..last.fill_cnt - 1 : h[i] = buf[Wrap(p_r + i)]
    BY <1>1, <1>2, RingAssumption DEF Held
  <2> QED BY <1>2, <2>1 DEF Held, Wrap
<1>4. TypeOK'
  <2>1. CASE Return(Result(TRUE))
    BY <1>1, <2>1, NoReadType DEF TypeOK, Return
  <2>2. CASE StartGets /\ UNCHANGED <<caller, msg, pos, ret>>
    BY <1>1, <2>2, FreshParserType DEF TypeOK, StartGets
  <2> QED BY <2>1, <2>2
<1>5. RingInv'
  BY <1>2 DEF RingInv, Wrap
<1>6. ~Reading
  BY DEF Adding, Reading
<1>7. WellFramed'
  <2>1. \A i \in 0..fill_cnt' - 2 : Follows(Held'[i], Held'[i + 1])
    BY <1>1, <1>2, <1>3, RingAssumption DEF WellFramed
  <2>2. fill_cnt' > 0 => Held'[0] = Begin /\ Held'[fill_cnt' - 1] = End
    BY <1>1, <1>2, <1>3, <1>6, RingAssumption DEF WellFramed
  <2> QED BY <2>1, <2>2 DEF WellFramed
<1>8. PutsInv' /\ GetsInv'
  <2>1. fill_cnt' > 0 => Held'[0] = Begin
    BY <1>1, <1>2, <1>3, <1>6, RingAssumption DEF WellFramed
  <2>2. CASE pc' = "idle"
    BY <2>2 DEF PutsInv, GetsInv, Adding, Reading
  <2>3. CASE pc' = "get" /\ proto' = FreshParser
    BY <2>1, <2>3 DEF PutsInv, GetsInv, Adding, Reading, FreshParser
  <2> QED BY <2>2, <2>3 DEF Return, StartGets
<1> QED BY <1>4, <1>5, <1>7, <1>8

\* QUEUE_Gets on an empty ring.
LEMMA GetsFailsStep == ASSUME IInv, GetsFails PROVE IInv'
<1> USE DEF IInv, GetsFails, Return, Result
<1>1. Held' = Held /\ RingInv'
  BY SameHeld
<1>2. TypeOK'
  BY NoReadType DEF TypeOK, ring
<1>3. WellFramed' /\ PutsInv' /\ GetsInv'
  BY <1>1, RingAssumption DEF TypeOK, WellFramed, PutsInv, GetsInv, Adding, Reading, ring
<1> QED BY <1>1, <1>2, <1>3

-----------------------------------------------------------------------------
(* Taking the oldest byte.                                                 *)

LEMMA HeldType == TypeOK => \A i \in 0..fill_cnt - 1 : Held[i] \in Byte
BY RingAssumption DEF TypeOK, Held, Wrap

\* The ring after PROTO_ParseRb has taken its oldest byte.
GetDone ==
  /\ RingInv'
  /\ fill_cnt' = fill_cnt - 1
  /\ \A i \in 0..fill_cnt' - 2 : Follows(Held'[i], Held'[i + 1])
  /\ fill_cnt' > 0 => /\ Follows(Held[0], Held'[0])
                      /\ Held'[fill_cnt' - 1] = End
  /\ Held[0] # End => fill_cnt' > 0

LEMMA GetFramed == ASSUME IInv, Reading, RINGBUF_Get PROVE GetDone
<1> USE DEF IInv
<1> DEFINE h == Held
<1>1. /\ RingInv'
      /\ fill_cnt' = fill_cnt - 1
      /\ Held' = [i \in 0..fill_cnt - 2 |-> h[i + 1]]
  BY GetHeld
<1>2. fill_cnt \in 1..Size
  BY RingAssumption DEF TypeOK, RINGBUF_Get
<1>3. h[fill_cnt - 1] = End /\ \A i \in 0..fill_cnt - 2 : Follows(h[i], h[i + 1])
  BY <1>2 DEF WellFramed, Reading
<1>4. \A i \in 0..fill_cnt' - 2 : Follows(Held'[i], Held'[i + 1])
  BY <1>1, <1>2, <1>3, RingAssumption
<1>5. fill_cnt' > 0 => Follows(h[0], Held'[0]) /\ Held'[fill_cnt' - 1] = End
  BY <1>1, <1>2, <1>3, RingAssumption
<1>6. h[0] # End => fill_cnt' > 0
  BY <1>1, <1>2, <1>3, RingAssumption
<1> QED BY <1>1, <1>4, <1>5, <1>6 DEF GetDone

\* PROTO_ParseByte on a byte of the frame.  isBegin is set whenever it is
\* tested, so that the outcome is the one the parser means.
LEMMA ParseByteStep == ASSUME IInv, ParseByte PROVE IInv'
<1> USE DEF IInv, ParseByte
<1> DEFINE b == Held[0]
<1>1. Reading /\ b # End /\ proto' \in PROTO_ParseByte(proto, b)
  BY DEF Reading
<1>2. GetDone
  BY GetFramed, <1>1
<1>3. /\ buf' = buf /\ p_w' = p_w
      /\ p_r' \in 0..Size - 1 /\ fill_cnt' \in 0..Size
  BY GetHeld DEF RINGBUF_Get
<1>4. b \in Byte
  BY HeldType, RingAssumption DEF TypeOK
<1>5. /\ proto.isBegin \in {"unset", "yes"}
      /\ proto.isBegin = "unset" => b = Begin
      /\ proto.isBegin = "yes" => b # Begin /\ (proto.isEsc => b \in Escaped)
  BY <1>1 DEF TypeOK, GetsInv
<1> DEFINE p == proto
           data == IF Len(p.data) < BufSize
                     THEN Append(p.data, IF p.isEsc THEN Flip(b) ELSE b)
                     ELSE p.data
<1>6. data \in Seq(Byte)
  <2>1. Flip(b) \in Byte
    BY <1>4, FlipType
  <2>2. p.data \in Seq(Byte)
    BY DEF TypeOK
  <2> QED BY <1>4, <2>1, <2>2
<1>7. /\ proto' \in [isBegin : {"unset", "no", "yes"}, isEsc : BOOLEAN, data : Seq(Byte)]
      /\ proto'.isBegin = "yes"
      /\ proto'.isEsc <=> b = Esc
  <2>1. p \in [isBegin : {"unset", "no", "yes"}, isEsc : BOOLEAN, data : Seq(Byte)]
    BY DEF TypeOK
  <2>2. CASE b = Esc
    <3>1. p.isBegin = "yes"
      BY <1>5, <2>2 DEF Esc, Begin
    <3>2. proto' = [p EXCEPT !.isEsc = TRUE]
      BY <1>1, <2>2 DEF PROTO_ParseByte, Esc, Begin
    <3> QED BY <2>1, <2>2, <3>1, <3>2
  <2>3. CASE b = Begin
    <3>1. proto' = [isBegin |-> "yes", isEsc |-> FALSE, data |-> <<>>]
      BY <1>1, <2>3 DEF PROTO_ParseByte, Esc, Begin
    <3> QED BY <2>3, <3>1, NoReadType DEF Esc, Begin
  <2>4. CASE b # Esc /\ b # Begin
    <3>1. p.isBegin = "yes"
      BY <1>5, <2>4
    <3>2. proto' = [p EXCEPT !.data = data, !.isEsc = FALSE]
      BY <1>1, <2>4, <3>1 DEF PROTO_ParseByte
    <3> HIDE DEF data
    <3> QED BY <1>6, <2>1, <2>4, <3>1, <3>2
  <2> QED BY <2>2, <2>3, <2>4
<1>8. TypeOK'
  BY <1>3, <1>7 DEF TypeOK
<1>9. fill_cnt' > 0 /\ Follows(b, Held'[0])
  BY <1>1, <1>2 DEF GetDone
<1>10. WellFramed' /\ PutsInv'
  BY <1>1, <1>2, <1>7 DEF GetDone, WellFramed, PutsInv, Adding, Reading
<1>11. GetsInv'
  <2>1. b = Esc => Held'[0] \in Escaped
    BY <1>9 DEF Follows, Escaped, Esc, End
  <2>2. Held'[0] # Begin
    BY <1>1, <1>9, <2>1, EscapedBytes DEF Follows, Esc, End, Begin
  <2> QED BY <1>7, <1>9, <2>1, <2>2 DEF GetsInv
<1>12. RingInv'
  BY <1>2 DEF GetDone
<1> QED BY <1>8, <1>10, <1>11, <1>12

\* The end of the oldest frame: the next byte, if any, starts another one.
LEMMA ParseEndStep == ASSUME IInv, ParseEnd PROVE IInv'
<1> USE DEF IInv, ParseEnd, Result
<1>1. Reading /\ Held[0] = End
  BY DEF Reading
<1>2. GetDone
  BY GetFramed, <1>1
<1>3. /\ buf' = buf /\ p_w' = p_w
      /\ p_r' \in 0..Size - 1 /\ p_w' \in 0..Size - 1 /\ fill_cnt' \in 0..Size
  BY GetHeld DEF RINGBUF_Get, TypeOK
<1>4. fill_cnt' > 0 => Held'[0] = Begin /\ Held'[fill_cnt' - 1] = End
  BY <1>1, <1>2 DEF GetDone, Follows, Begin, End, Esc
<1>5. TypeOK'
  <2>1. CASE Return(Result(TRUE)) /\ out' = <<proto.data>> /\ UNCHANGED last
    <3>1. <<proto.data>> \in Seq(Seq(Byte)) /\ Len(<<proto.data>>) <= 1
      BY DEF TypeOK
    <3> QED BY <1>3, <2>1, <3>1, NoReadType DEF TypeOK, Return
  <2>2. CASE pc' = "fit" /\ proto' = NoRead
             /\ UNCHANGED <<last, caller, msg, pos, ret, out>>
    BY <1>3, <2>2, NoReadType DEF TypeOK
  <2>3. CASE StartPuts(msg) /\ UNCHANGED <<caller, ret, out>>
    BY <1>3, <2>3, NoReadType DEF TypeOK, StartPuts
  <2> QED BY <2>1, <2>2, <2>3
<1>6. WellFramed' /\ GetsInv'
  BY <1>2, <1>4 DEF GetDone, WellFramed, GetsInv, Reading, Return, StartPuts
<1>7. PutsInv'
  <2>1. CASE StartPuts(msg)
    BY <1>2, <1>3, <1>4, <2>1
       DEF GetDone, PutsInv, RingInv, StartPuts, Adding
  <2>2. CASE pc' \in {"idle", "fit"}
    BY <2>2 DEF PutsInv, Adding
  <2> QED BY <2>1, <2>2 DEF Return
<1> QED BY <1>2, <1>5, <1>6, <1>7 DEF GetDone

-----------------------------------------------------------------------------
(* The theorems.                                                           *)

LEMMA NextIInv == IInv /\ [Next]_vars => IInv'
<1> SUFFICES ASSUME IInv, [Next]_vars PROVE IInv'
  OBVIOUS
<1>1. ASSUME NEW m \in Messages, MQTT_Publish(m) PROVE IInv'
  BY <1>1, PublishStep
<1>2. ASSUME NEW m \in Messages, MQTT_Subscribe(m) PROVE IInv'
  <2>1. m \in Seq(Byte)
    BY MessagesAssumption
  <2> QED BY <1>2, <2>1, StartPutsStep DEF MQTT_Subscribe
<1>3. ASSUME NEW m \in Messages, mqtt_tcpclient_recv(m) PROVE IInv'
  <2>1. m \in Seq(Byte)
    BY MessagesAssumption
  <2> QED BY <1>3, <2>1, StartPutsStep DEF mqtt_tcpclient_recv
<1>4. CASE MQTT_Task
  BY <1>4, StartGetsStep DEF MQTT_Task, ring
<1>5. CASE Fit
  <2>1. msg \in Seq(Byte) /\ caller \in {"none", "Publish", "Subscribe", "Recv", "Task"}
    BY DEF IInv, TypeOK
  <2> QED BY <1>5, <2>1, StartGetsStep, StartPutsStep DEF Fit
<1>6. CASE AddBegin \/ AddPlain \/ AddEsc \/ AddEscaped \/ AddEnd \/ PutsFails
  BY <1>6, AddBeginStep, AddPlainStep, AddEscStep, AddEscapedStep, AddEndStep,
     PutsFailsStep
<1>7. CASE GetsFails \/ ParseByte \/ ParseEnd
  BY <1>7, GetsFailsStep, ParseByteStep, ParseEndStep
<1>8. CASE UNCHANGED vars
  <2>1. Held' = Held
    BY <1>8, SameHeld DEF vars, ring
  <2> QED
    BY <1>8, <2>1 DEF vars, IInv, TypeOK, RingInv, WellFramed, PutsInv, GetsInv,
                      Adding, Reading, Wrap
<1> QED BY <1>1, <1>2, <1>3, <1>4, <1>5, <1>6, <1>7, <1>8 DEF Next, Step

\* The firmware never leaves the inductive invariant.
THEOREM InductiveInvariant == Spec => []IInv
<1>1. Init => IInv
  BY InitIInv
<1>2. IInv /\ [Next]_vars => IInv'
  BY NextIInv
<1> QED BY <1>1, <1>2, PTL DEF Spec

\* The pointers of the ring stay inside its buffer and the count between zero
\* and its size (RINGBUF_Put, RINGBUF_Get, the restore in QUEUE_Puts).
THEOREM TypeCorrect == Spec => []TypeOK
<1>1. IInv => TypeOK
  BY DEF IInv
<1> QED BY <1>1, InductiveInvariant, PTL

\* The pointers and the count of the ring always agree, a failed QUEUE_Puts
\* included.
THEOREM RingConsistent == Spec => []RingInv
<1>1. IInv => RingInv
  BY DEF IInv
<1> QED BY <1>1, InductiveInvariant, PTL

\* The ring holds whole frames in order, for every packet and every size.
THEOREM AlwaysWellFramed == Spec => []WellFramed
<1>1. IInv => WellFramed
  BY DEF IInv
<1> QED BY <1>1, InductiveInvariant, PTL

\* PROTO_ParseRb always finds the frame it looks for and never tests the
\* isBegin that PROTO_Init leaves unset.
THEOREM ReaderNeverLost == Spec => []ReaderFindsFrame
<1>1. IInv => ReaderFindsFrame
  BY RingAssumption DEF IInv, ReaderFindsFrame, GetsInv, TypeOK
<1> QED BY <1>1, InductiveInvariant, PTL

-----------------------------------------------------------------------------
(* The refinement.  The ring buffer of framed packets implements the FIFO  *)
(* of messages MsgFifo.  The queue is what PROTO_ParseRb would still find  *)
(* in the ring, so that the proof is about the parse of the whole ring:    *)
(* how one more byte at its tail, or one less at its head, changes it.     *)
(*                                                                         *)
(* Induction over the naturals.                                            *)

\* The order of the naturals as a set of pairs.
Less == {z \in Nat \X Nat : z[1] < z[2]}

\* It is well founded.
LEMMA LessIsWellFounded == IsWellFoundedOn(Less, Nat)
BY NatLessThanWellFounded DEF OpToRel, Less

\* Induction over the naturals, for a set in place of a predicate.
LEMMA InductionOnSet ==
  ASSUME NEW S, 0 \in S, \A n \in Nat : n \in S => n + 1 \in S
  PROVE  Nat \subseteq S
<1> DEFINE T == Nat \ S
<1> SUFFICES ASSUME T # {} PROVE FALSE
  OBVIOUS
<1>1. \E x \in T : \A y \in T : ~(<<y, x>> \in Less)
  <2>1. T \subseteq Nat
    OBVIOUS
  <2> HIDE DEF T
  <2> QED BY <2>1, LessIsWellFounded, WFMin
<1>2. PICK x \in T : \A y \in T : ~(<<y, x>> \in Less)
  BY <1>1
<1>3. x # 0 /\ x - 1 \in Nat /\ x - 1 < x
  OBVIOUS
<1>4. x - 1 \notin T
  BY <1>2, <1>3 DEF Less
<1> QED BY <1>3, <1>4

-----------------------------------------------------------------------------
(* The parser over several bytes.                                          *)

\* The equations of Parsed.
ParsedBy(g, h, n, p) ==
  g = [i \in 0..n |-> IF i = 0 THEN [p |-> p, found |-> <<>>]
                               ELSE Parse(g[i - 1], h[i - 1])]

\* The recursion of Parsed has a solution, for any bytes.
LEMMA ParsedExists == ASSUME NEW h, NEW p PROVE \A n \in Nat : \E g : ParsedBy(g, h, n, p)
<1> DEFINE S == {n \in Nat : \E g : ParsedBy(g, h, n, p)}
<1>1. 0 \in S
  <2> DEFINE g == [i \in 0..0 |-> [p |-> p, found |-> <<>>]]
  <2>1. ParsedBy(g, h, 0, p)
    BY DEF ParsedBy
  <2> QED BY <2>1
<1>2. ASSUME NEW n \in Nat, n \in S PROVE n + 1 \in S
  <2>1. PICK g : ParsedBy(g, h, n, p)
    BY <1>2
  <2> DEFINE k == [i \in 0..n + 1 |-> IF i = n + 1 THEN Parse(g[n], h[n]) ELSE g[i]]
  <2>2. \A i \in 0..n : g[i] = IF i = 0 THEN [p |-> p, found |-> <<>>]
                                     ELSE Parse(g[i - 1], h[i - 1])
    BY <2>1 DEF ParsedBy
  <2>3. ASSUME NEW i \in 0..n + 1
        PROVE  k[i] = IF i = 0 THEN [p |-> p, found |-> <<>>]
                               ELSE Parse(k[i - 1], h[i - 1])
    <3>1. CASE i = n + 1
      <4>1. i # 0 /\ k[i] = Parse(g[n], h[n]) /\ k[i - 1] = g[n] /\ i - 1 = n
        BY <3>1
      <4> QED BY <4>1
    <3>2. CASE i = 0
      BY <2>2, <3>2
    <3>3. CASE i \in 1..n
      <4>1. k[i] = g[i] /\ k[i - 1] = g[i - 1] /\ i # 0 /\ i \in 0..n
        BY <3>3
      <4> QED BY <4>1, <2>2
    <3> QED BY <3>1, <3>2, <3>3
  <2>4. ParsedBy(k, h, n + 1, p)
    BY <2>3 DEF ParsedBy
  <2> QED BY <2>4
<1> HIDE DEF S
<1>3. Nat \subseteq S
  BY <1>1, <1>2, InductionOnSet
<1> QED BY <1>3 DEF S

\* What Parsed is without its recursion.
LEMMA ParsedDef ==
  ASSUME NEW h, NEW n \in Nat, NEW p
  PROVE  /\ Parsed(h, n, p)[0] = [p |-> p, found |-> <<>>]
         /\ \A i \in 0..n - 1 :
              Parsed(h, n, p)[i + 1] = Parse(Parsed(h, n, p)[i], h[i])
<1> DEFINE run == Parsed(h, n, p)
<1>1. run = CHOOSE g : ParsedBy(g, h, n, p)
  BY DEF Parsed, ParsedBy
<1>2. ParsedBy(run, h, n, p)
  BY <1>1, ParsedExists
<1> HIDE DEF run
<1>3. \A i \in 0..n : run[i] = IF i = 0 THEN [p |-> p, found |-> <<>>]
                                        ELSE Parse(run[i - 1], h[i - 1])
  BY <1>2 DEF ParsedBy
<1>4. run[0] = [p |-> p, found |-> <<>>]
  BY <1>3
<1>5. ASSUME NEW i \in 0..n - 1 PROVE run[i + 1] = Parse(run[i], h[i])
  <2>1. i + 1 \in 0..n /\ i + 1 # 0 /\ (i + 1) - 1 = i
    OBVIOUS
  <2> QED BY <1>3, <2>1
<1> QED BY <1>4, <1>5 DEF run

-----------------------------------------------------------------------------
(* The invariant of the refinement.                                        *)

\* The callers of QUEUE_Puts.
Callers == {"Publish", "Subscribe", "Recv"}

\* The bytes of d that a frame spends two bytes on.
Specials(d) == Cardinality({i \in DOMAIN d : d[i] \in Special})

\* The bytes of the ring that the parser p has read of the frame it is in.
Begun(p) ==
  IF p.isBegin = "yes"
    THEN 1 + Len(p.data) + Specials(p.data) + (IF p.isEsc THEN 1 ELSE 0)
    ELSE 0

\* The bytes of the ring that have become r.
Weight(r) == Fifo!Used(r.found) + Begun(r.p)

\* What PROTO_ParseByte makes of the ring, byte by byte.
Run == Parsed(Held, fill_cnt, proto)

\* Who runs, and with what: only QUEUE_Gets has a parser that has begun.
ControlInv ==
  /\ ~Reading => proto = NoRead
  /\ pc = "idle" => caller = "none"
  /\ pc = "fit" => caller = "Publish"
  /\ Adding => caller \in Callers
  /\ Reading => caller \in {"Publish", "Subscribe", "Task"}
  /\ caller \in Callers => msg \in Messages

\* Every byte of the ring is in a packet found or in the frame being read: the
\* bytes a packet takes in the FIFO are those its frame takes in the ring.
CountInv == \A i \in 0..fill_cnt : Weight(Run[i]) = Begun(proto) + i

\* While QUEUE_Puts runs, the ring is the packets that were there, followed by
\* the beginning of the frame of msg, up to pos.
PartInv ==
  Adding =>
    /\ pos <= Len(msg) + 1
    /\ pc = "begin" => pos = 1
    /\ Run[fill_cnt].found = Run[last.fill_cnt].found
    /\ pc # "begin" => Run[fill_cnt].p = [isBegin |-> "yes", isEsc |-> pc = "esc",
                                          data |-> SubSeq(msg, 1, pos - 1)]

\* A caller of QUEUE_Puts only takes the oldest packet out when its own does not
\* fit.
DropInv ==
  Reading /\ caller # "Task" => Fifo!Used(Queue) + Fifo!Cost(msg) > Size

\* What the refinement needs of the middle of the operations.
RefInv == ControlInv /\ CountInv /\ PartInv /\ DropInv

-----------------------------------------------------------------------------
(* The bytes that the packets of a queue take.                             *)

\* The equations of Used, up to the packet n.
UsedUpTo(g, q, n) ==
  g = [i \in 0..n |-> IF i = 0 THEN 0 ELSE g[i - 1] + Fifo!Cost(q[i])]

\* They have a solution, for any packets.
LEMMA UsedUpToExists == ASSUME NEW q PROVE \A n \in Nat : \E g : UsedUpTo(g, q, n)
<1> DEFINE S == {n \in Nat : \E g : UsedUpTo(g, q, n)}
<1>1. 0 \in S
  <2> DEFINE g == [i \in 0..0 |-> 0]
  <2>1. UsedUpTo(g, q, 0)
    BY DEF UsedUpTo
  <2> QED BY <2>1
<1>2. ASSUME NEW n \in Nat, n \in S PROVE n + 1 \in S
  <2>1. PICK g : UsedUpTo(g, q, n)
    BY <1>2
  <2> DEFINE k == [i \in 0..n + 1 |-> IF i = n + 1 THEN g[n] + Fifo!Cost(q[n + 1]) ELSE g[i]]
  <2>2. \A i \in 0..n : g[i] = IF i = 0 THEN 0 ELSE g[i - 1] + Fifo!Cost(q[i])
    BY <2>1 DEF UsedUpTo
  <2>3. ASSUME NEW i \in 0..n + 1
        PROVE  k[i] = IF i = 0 THEN 0 ELSE k[i - 1] + Fifo!Cost(q[i])
    <3>1. CASE i = n + 1
      <4>1. i # 0 /\ k[i] = g[n] + Fifo!Cost(q[n + 1]) /\ k[i - 1] = g[n] /\ i - 1 = n
        BY <3>1
      <4> QED BY <4>1, <3>1
    <3>2. CASE i = 0
      BY <2>2, <3>2
    <3>3. CASE i \in 1..n
      <4>1. k[i] = g[i] /\ k[i - 1] = g[i - 1] /\ i # 0 /\ i \in 0..n
        BY <3>3
      <4> QED BY <4>1, <2>2
    <3> QED BY <3>1, <3>2, <3>3
  <2>4. UsedUpTo(k, q, n + 1)
    BY <2>3 DEF UsedUpTo
  <2> QED BY <2>4
<1> HIDE DEF S
<1>3. Nat \subseteq S
  BY <1>1, <1>2, InductionOnSet
<1> QED BY <1>3 DEF S

\* What Used is without its recursion.
LEMMA UsedDef ==
  ASSUME NEW q \in Seq(Seq(Byte))
  PROVE  \E g : UsedUpTo(g, q, Len(q)) /\ Fifo!Used(q) = g[Len(q)]
<1> DEFINE u == CHOOSE g : UsedUpTo(g, q, Len(q))
<1>1. \E g : UsedUpTo(g, q, Len(q))
  <2>1. Len(q) \in Nat
    OBVIOUS
  <2> QED BY <2>1, UsedUpToExists
<1>2. UsedUpTo(u, q, Len(q))
  BY <1>1
<1>3. Fifo!Used(q) = u[Len(q)]
  BY DEF Fifo!Used, UsedUpTo
<1> QED BY <1>2, <1>3

\* The bytes of a frame are a number.
LEMMA CostType ==
  ASSUME NEW m \in Seq(Byte)
  PROVE  /\ Specials(m) \in Nat
         /\ Fifo!Cost(m) = Len(m) + 2 + Specials(m)
         /\ Fifo!Cost(m) \in Nat
<1>1. IsFiniteSet({i \in DOMAIN m : m[i] \in Special})
  <2>1. IsFiniteSet(1..Len(m))
    BY FS_Interval
  <2> QED BY <2>1, FS_Subset
<1>2. Specials(m) \in Nat /\ Len(m) \in Nat
  BY <1>1, FS_CardinalityType DEF Specials
<1>3. Fifo!Cost(m) = Len(m) + 2 + Specials(m)
  BY DEF Specials, Fifo!Cost, Cardinality, Fifo!Cardinality
<1> QED BY <1>2, <1>3

\* No packet takes no byte.
LEMMA UsedEmpty == Fifo!Used(<<>>) = 0
<1>1. <<>> \in Seq(Seq(Byte)) /\ Len(<<>>) = 0
  OBVIOUS
<1>2. PICK g : UsedUpTo(g, <<>>, 0) /\ Fifo!Used(<<>>) = g[0]
  BY <1>1, UsedDef
<1> QED BY <1>2 DEF UsedUpTo

\* Two prefixes of the recursion agree, and their values are numbers.
LEMMA UsedAgree ==
  ASSUME NEW q \in Seq(Seq(Byte)), NEW r \in Seq(Seq(Byte)), NEW g, NEW h,
         UsedUpTo(g, q, Len(q)), UsedUpTo(h, r, Len(r)),
         Len(q) <= Len(r), \A i \in 1..Len(q) : q[i] = r[i]
  PROVE  \A i \in 0..Len(q) : g[i] = h[i] /\ g[i] \in Nat
<1> DEFINE S == {i \in Nat : i \in 0..Len(q) => g[i] = h[i] /\ g[i] \in Nat}
<1>0. /\ \A i \in 0..Len(q) : g[i] = IF i = 0 THEN 0 ELSE g[i - 1] + Fifo!Cost(q[i])
      /\ \A i \in 0..Len(r) : h[i] = IF i = 0 THEN 0 ELSE h[i - 1] + Fifo!Cost(r[i])
  BY DEF UsedUpTo
<1>1. 0 \in S
  BY <1>0
<1>2. ASSUME NEW i \in Nat, i \in S PROVE i + 1 \in S
  <2> SUFFICES ASSUME i + 1 \in 0..Len(q)
               PROVE  g[i + 1] = h[i + 1] /\ g[i + 1] \in Nat
    OBVIOUS
  <2>1. g[i] = h[i] /\ g[i] \in Nat /\ (i + 1) - 1 = i /\ i + 1 \in 1..Len(q) /\ i + 1 \in 0..Len(r)
    BY <1>2
  <2>2. g[i + 1] = g[i] + Fifo!Cost(q[i + 1]) /\ h[i + 1] = h[i] + Fifo!Cost(r[i + 1])
    BY <1>0, <2>1
  <2>3. Fifo!Cost(q[i + 1]) \in Nat
    <3>1. q[i + 1] \in Seq(Byte)
      BY <2>1
    <3> QED BY <3>1, CostType
  <2> QED BY <2>1, <2>2, <2>3
<1> HIDE DEF S
<1>3. Nat \subseteq S
  BY <1>1, <1>2, InductionOnSet
<1> QED BY <1>3 DEF S

\* The newest packet adds the bytes of its frame.
LEMMA UsedAppend ==
  ASSUME NEW q \in Seq(Seq(Byte)), NEW m \in Seq(Byte)
  PROVE  /\ Fifo!Used(q) \in Nat
         /\ Fifo!Used(Append(q, m)) = Fifo!Used(q) + Fifo!Cost(m)
<1> DEFINE r == Append(q, m)
<1>1. /\ r \in Seq(Seq(Byte)) /\ Len(r) = Len(q) + 1 /\ Len(q) \in Nat
      /\ r[Len(q) + 1] = m /\ \A i \in 1..Len(q) : q[i] = r[i]
  OBVIOUS
<1> HIDE DEF r
<1>2. PICK g : UsedUpTo(g, q, Len(q)) /\ Fifo!Used(q) = g[Len(q)]
  BY UsedDef
<1>3. PICK h : UsedUpTo(h, r, Len(r)) /\ Fifo!Used(r) = h[Len(r)]
  BY <1>1, UsedDef
<1>4. g[Len(q)] = h[Len(q)] /\ g[Len(q)] \in Nat
  <2>1. Len(q) <= Len(r) /\ Len(q) \in 0..Len(q)
    BY <1>1
  <2> QED BY <1>1, <1>2, <1>3, <2>1, UsedAgree
<1>5. h[Len(q) + 1] = h[Len(q)] + Fifo!Cost(m)
  <2>1. /\ Len(q) + 1 \in 0..Len(r) /\ Len(q) + 1 # 0 /\ (Len(q) + 1) - 1 = Len(q)
    BY <1>1
  <2> QED BY <1>1, <1>3, <2>1 DEF UsedUpTo
<1> QED BY <1>1, <1>2, <1>3, <1>4, <1>5 DEF r

\* The oldest message counts like any other.
LEMMA UsedCons ==
  ASSUME NEW q \in Seq(Seq(Byte)), NEW m \in Seq(Byte)
  PROVE  Fifo!Used(<<m>> \o q) = Fifo!Cost(m) + Fifo!Used(q)
<1> DEFINE r == <<m>> \o q
<1>1. /\ r \in Seq(Seq(Byte)) /\ Len(r) = Len(q) + 1 /\ Len(q) \in Nat
      /\ r[1] = m /\ \A i \in 1..Len(q) : r[i + 1] = q[i]
  OBVIOUS
<1> HIDE DEF r
<1>2. PICK g : UsedUpTo(g, q, Len(q)) /\ Fifo!Used(q) = g[Len(q)]
  BY UsedDef
<1>3. PICK h : UsedUpTo(h, r, Len(r)) /\ Fifo!Used(r) = h[Len(r)]
  BY <1>1, UsedDef
<1>4. /\ \A i \in 0..Len(q) : g[i] = IF i = 0 THEN 0 ELSE g[i - 1] + Fifo!Cost(q[i])
      /\ \A i \in 0..Len(r) : h[i] = IF i = 0 THEN 0 ELSE h[i - 1] + Fifo!Cost(r[i])
  BY <1>2, <1>3 DEF UsedUpTo
<1>5. \A i \in 0..Len(q) : g[i] \in Nat
  BY <1>2, UsedAgree
<1>6. Fifo!Cost(m) \in Nat
  BY CostType
<1> DEFINE S == {i \in Nat : i \in 0..Len(q) => h[i + 1] = Fifo!Cost(m) + g[i]}
<1>7. 0 \in S
  <2>1. 1 \in 0..Len(r) /\ 0 \in 0..Len(r) /\ 0 \in 0..Len(q) /\ 1 - 1 = 0
    BY <1>1
  <2>2. h[1] = h[0] + Fifo!Cost(r[1]) /\ h[0] = 0 /\ g[0] = 0
    BY <1>4, <2>1
  <2> QED BY <1>1, <1>6, <2>2
<1>8. ASSUME NEW i \in Nat, i \in S PROVE i + 1 \in S
  <2> SUFFICES ASSUME i + 1 \in 0..Len(q)
               PROVE  h[i + 2] = Fifo!Cost(m) + g[i + 1]
    OBVIOUS
  <2>1. /\ i \in 0..Len(q) /\ (i + 1) - 1 = i /\ i + 1 # 0 /\ i + 1 \in 1..Len(q)
        /\ i + 2 \in 0..Len(r) /\ i + 2 # 0 /\ (i + 2) - 1 = i + 1
        /\ (i + 1) + 1 = i + 2
    BY <1>1
  <2>2. h[i + 1] = Fifo!Cost(m) + g[i]
    BY <1>8, <2>1
  <2>3. g[i + 1] = g[i] + Fifo!Cost(q[i + 1]) /\ h[i + 2] = h[i + 1] + Fifo!Cost(r[i + 2])
    BY <1>4, <2>1
  <2>4. r[i + 2] = q[i + 1]
    BY <1>1, <2>1
  <2>5. Fifo!Cost(q[i + 1]) \in Nat /\ g[i] \in Nat
    <3>1. q[i + 1] \in Seq(Byte)
      BY <2>1
    <3> QED BY <3>1, <1>5, <2>1, CostType
  <2> QED BY <1>6, <2>2, <2>3, <2>4, <2>5
<1> HIDE DEF S
<1>9. Nat \subseteq S
  BY <1>7, <1>8, InductionOnSet
<1>10. h[Len(q) + 1] = Fifo!Cost(m) + g[Len(q)]
  BY <1>1, <1>9 DEF S
<1> QED BY <1>1, <1>2, <1>3, <1>10 DEF r

-----------------------------------------------------------------------------
(* The parser, byte by byte and over a whole ring.                         *)

\* What PROTO_PARSER can hold.
Parser == [isBegin : {"unset", "no", "yes"}, isEsc : BOOLEAN, data : Seq(Byte)]
Found == [p : Parser, found : Seq(Seq(Byte))]

\* Appending to a concatenation.
LEMMA AppendToConcat ==
  ASSUME NEW s \in Seq(Seq(Byte)), NEW t \in Seq(Seq(Byte)), NEW e \in Seq(Byte)
  PROVE  Append(s \o t, e) = s \o Append(t, e)
<1> DEFINE S == Seq(Byte)
<1> HIDE DEF S
<1>0. s \in Seq(S) /\ t \in Seq(S) /\ e \in S
  BY DEF S
<1> DEFINE a == Append(s \o t, e)
           b == s \o Append(t, e)
<1>1. /\ s \o t \in Seq(S) /\ Len(s \o t) = Len(s) + Len(t)
      /\ Len(s) \in Nat /\ Len(t) \in Nat
      /\ Append(t, e) \in Seq(S) /\ Len(Append(t, e)) = Len(t) + 1
  BY <1>0
<1>2. /\ a \in Seq(S) /\ b \in Seq(S)
      /\ Len(a) = Len(s) + Len(t) + 1 /\ Len(b) = Len(s) + Len(t) + 1
  BY <1>0, <1>1
<1>3. ASSUME NEW i \in 1..Len(a) PROVE a[i] = b[i]
  <2>1. CASE i <= Len(s)
    BY <1>0, <1>1, <1>2, <2>1
  <2>2. CASE i > Len(s) /\ i <= Len(s) + Len(t)
    BY <1>0, <1>1, <1>2, <2>2
  <2>3. CASE i = Len(s) + Len(t) + 1
    BY <1>0, <1>1, <1>2, <2>3
  <2>4. i \in 1..Len(s) + Len(t) + 1
    BY <1>2
  <2> HIDE DEF a, b
  <2> QED BY <1>1, <2>1, <2>2, <2>3, <2>4
<1> HIDE DEF a, b
<1>4. a = b
  BY <1>2, <1>3, SeqEqual
<1> QED BY <1>4 DEF a, b

\* PROTO_ParseByte always leaves something, a parser.
LEMMA ParseByteType ==
  ASSUME NEW p \in Parser, NEW b \in Byte
  PROVE  PROTO_ParseByte(p, b) # {} /\ PROTO_ParseByte(p, b) \subseteq Parser
<1> DEFINE data == IF Len(p.data) < BufSize
                     THEN Append(p.data, IF p.isEsc THEN Flip(b) ELSE b)
                     ELSE p.data
           stored == [p EXCEPT !.data = data, !.isEsc = FALSE]
<1>1. data \in Seq(Byte)
  <2>1. Flip(b) \in Byte
    BY FlipType
  <2> QED BY <2>1 DEF Parser
<1>2. /\ stored \in Parser /\ [p EXCEPT !.isEsc = TRUE] \in Parser
      /\ [isBegin |-> "yes", isEsc |-> FALSE, data |-> <<>>] \in Parser
  <2> HIDE DEF data
  <2> QED BY <1>1, NoReadType DEF Parser
<1> HIDE DEF stored
<1>3. PROTO_ParseByte(p, b) =
        CASE b = Esc -> {[p EXCEPT !.isEsc = TRUE]}
          [] b = Begin -> {[isBegin |-> "yes", isEsc |-> FALSE, data |-> <<>>]}
          [] OTHER -> (IF p.isBegin = "no" THEN {} ELSE {stored})
                        \cup (IF p.isBegin = "yes" THEN {} ELSE {p})
  BY DEF PROTO_ParseByte, stored
<1>4. CASE b = Esc
  BY <1>2, <1>3, <1>4
<1>5. CASE b = Begin
  BY <1>2, <1>3, <1>5 DEF Esc, Begin
<1>6. CASE b # Esc /\ b # Begin
  <2>1. PROTO_ParseByte(p, b) = (IF p.isBegin = "no" THEN {} ELSE {stored})
                                  \cup (IF p.isBegin = "yes" THEN {} ELSE {p})
    BY <1>3, <1>6
  <2> QED BY <1>2, <2>1 DEF Parser
<1> QED BY <1>4, <1>5, <1>6

\* What the byte b makes of a parser does not depend on the packets found before.
LEMMA ParseStep ==
  ASSUME NEW r \in Found, NEW b \in Byte
  PROVE  /\ Parse(r, b) \in Found
         /\ b = End => /\ Parse(r, b).p = NoRead
                       /\ Parse(r, b).found = Append(r.found, r.p.data)
         /\ b # End => Parse(r, b).found = r.found
         /\ b # End => Parse(r, b).p \in PROTO_ParseByte(r.p, b)
<1> DEFINE c == CHOOSE q \in PROTO_ParseByte(r.p, b) : TRUE
<1>1. r.p \in Parser /\ r.found \in Seq(Seq(Byte)) /\ r.p.data \in Seq(Byte)
  BY DEF Found, Parser
<1>2. c \in PROTO_ParseByte(r.p, b) /\ c \in Parser
  BY <1>1, ParseByteType
<1> HIDE DEF c
<1>3. CASE b = End
  <2>1. Append(r.found, r.p.data) \in Seq(Seq(Byte))
    BY <1>1
  <2>2. Parse(r, b) = [p |-> NoRead, found |-> Append(r.found, r.p.data)]
    BY <1>3 DEF Parse
  <2> QED BY <1>3, <2>1, <2>2, NoReadType DEF Found, Parser
<1>4. CASE b # End
  <2>1. Parse(r, b) = [r EXCEPT !.p = c]
    BY <1>4 DEF Parse, c
  <2> QED BY <1>2, <1>4, <2>1 DEF Found, c
<1> QED BY <1>3, <1>4

\* The parser after a byte depends on nothing but the parser before it.
LEMMA ParseSame ==
  ASSUME NEW r \in Found, NEW s \in Found, r.p = s.p, NEW b \in Byte
  PROVE  Parse(r, b).p = Parse(s, b).p
<1> DEFINE c == CHOOSE q \in PROTO_ParseByte(r.p, b) : TRUE
<1>1. c = CHOOSE q \in PROTO_ParseByte(s.p, b) : TRUE
  OBVIOUS
<1> HIDE DEF c
<1>2. CASE b = End
  BY <1>2 DEF Parse
<1>3. CASE b # End
  <2>1. Parse(r, b) = [r EXCEPT !.p = c] /\ Parse(s, b) = [s EXCEPT !.p = c]
    BY <1>1, <1>3 DEF Parse, c
  <2> QED BY <2>1 DEF Found
<1> QED BY <1>2, <1>3

\* Every step of the parse of a ring is a parser and the packets found.
LEMMA ParsedType ==
  ASSUME NEW h, NEW n \in Nat, NEW p \in Parser, \A i \in 0..n - 1 : h[i] \in Byte
  PROVE  \A i \in 0..n : Parsed(h, n, p)[i] \in Found
<1> DEFINE run == Parsed(h, n, p)
           S == {i \in Nat : i <= n => run[i] \in Found}
<1>1. run[0] = [p |-> p, found |-> <<>>]
      /\ \A i \in 0..n - 1 : run[i + 1] = Parse(run[i], h[i])
  BY ParsedDef
<1> HIDE DEF run
<1>2. 0 \in S
  <2>1. <<>> \in Seq(Seq(Byte)) /\ p \in Parser
    OBVIOUS
  <2>2. [p |-> p, found |-> <<>>] \in Found
    BY <2>1 DEF Found
  <2> QED BY <1>1, <2>2
<1>3. ASSUME NEW i \in Nat, i \in S PROVE i + 1 \in S
  <2> SUFFICES ASSUME i + 1 <= n PROVE run[i + 1] \in Found
    OBVIOUS
  <2>1. i \in 0..n - 1 /\ run[i] \in Found /\ h[i] \in Byte
    BY <1>3
  <2>2. run[i + 1] = Parse(run[i], h[i])
    BY <1>1, <2>1
  <2> QED BY <2>1, <2>2, ParseStep
<1> HIDE DEF S
<1>4. Nat \subseteq S
  BY <1>2, <1>3, InductionOnSet
<1> QED BY <1>4 DEF S, run

\* Where two parsers that have come to the same state read the same bytes, they
\* find the same packets from there on.
SameFrom(h, m, p, k, n, q, d, f) ==
  \A i \in 0..n : /\ Parsed(h, m, p)[d + i].p = Parsed(k, n, q)[i].p
                  /\ Parsed(h, m, p)[d + i].found = f \o Parsed(k, n, q)[i].found

\* A ring parsed from its byte d on gives what the whole gives from there.
LEMMA ParsedFrom ==
  ASSUME NEW h, NEW m \in Nat, NEW p \in Parser, \A i \in 0..m - 1 : h[i] \in Byte,
         NEW k, NEW n \in Nat, NEW q \in Parser,
         NEW d \in Nat, d + n <= m, \A i \in 0..n - 1 : k[i] = h[d + i],
         NEW f, Parsed(h, m, p)[d] = [p |-> q, found |-> f]
  PROVE  SameFrom(h, m, p, k, n, q, d, f)
<1> DEFINE run == Parsed(h, m, p)
           sub == Parsed(k, n, q)
           S == {i \in Nat : i <= n => /\ run[d + i].p = sub[i].p
                                       /\ run[d + i].found = f \o sub[i].found}
<1>0. \A i \in 0..m - 1 : run[i + 1] = Parse(run[i], h[i])
  BY ParsedDef
<1>1. /\ sub[0] = [p |-> q, found |-> <<>>]
      /\ \A i \in 0..n - 1 : sub[i + 1] = Parse(sub[i], k[i])
  BY ParsedDef
<1>2. \A i \in 0..m : run[i] \in Found
  BY ParsedType
<1>3. \A i \in 0..n - 1 : k[i] \in Byte
  <2> TAKE i \in 0..n - 1
  <2>1. d + i \in 0..m - 1
    OBVIOUS
  <2> QED BY <2>1
<1>4. \A i \in 0..n : sub[i] \in Found
  BY <1>3, ParsedType
<1>5. run[d] = [p |-> q, found |-> f] /\ f \in Seq(Seq(Byte))
  <2>1. d \in 0..m
    OBVIOUS
  <2> QED BY <1>2, <2>1 DEF Found
<1> HIDE DEF run, sub
<1>6. 0 \in S
  <2>1. d + 0 = d /\ f \o <<>> = f
    BY <1>5
  <2>2. run[d + 0].p = sub[0].p /\ run[d + 0].found = f \o sub[0].found
    BY <1>1, <1>5, <2>1
  <2> QED BY <2>2
<1>7. ASSUME NEW i \in Nat, i \in S PROVE i + 1 \in S
  <2> SUFFICES ASSUME i + 1 <= n
               PROVE  /\ run[d + (i + 1)].p = sub[i + 1].p
                      /\ run[d + (i + 1)].found = f \o sub[i + 1].found
    OBVIOUS
  <2>1. /\ i \in 0..n - 1 /\ i \in 0..n /\ d + i \in 0..m - 1 /\ d + i \in 0..m
        /\ d + (i + 1) = (d + i) + 1
    OBVIOUS
  <2>2. run[d + i].p = sub[i].p /\ run[d + i].found = f \o sub[i].found
    BY <1>7, <2>1
  <2>3. /\ run[d + (i + 1)] = Parse(run[d + i], h[d + i])
        /\ sub[i + 1] = Parse(sub[i], h[d + i])
        /\ h[d + i] \in Byte
    BY <1>0, <1>1, <2>1
  <2>4. run[d + i] \in Found /\ sub[i] \in Found
    BY <1>2, <1>4, <2>1
  <2>5. run[d + (i + 1)].p = sub[i + 1].p
    BY <2>2, <2>3, <2>4, ParseSame
  <2>6. CASE h[d + i] = End
    <3>0. /\ run[d + (i + 1)].found = Append(run[d + i].found, run[d + i].p.data)
          /\ sub[i + 1].found = Append(sub[i].found, sub[i].p.data)
      <4>1. \A r \in Found : Parse(r, End).found = Append(r.found, r.p.data)
        <5>1. End \in Byte
          BY DEF End, Byte
        <5> QED BY <5>1, ParseStep
      <4> QED BY <2>3, <2>4, <2>6, <4>1
    <3>1. run[d + (i + 1)].found = Append(f \o sub[i].found, sub[i].p.data)
      BY <2>2, <3>0
    <3>2. f \in Seq(Seq(Byte)) /\ sub[i].found \in Seq(Seq(Byte)) /\ sub[i].p.data \in Seq(Byte)
      BY <1>5, <2>4 DEF Found, Parser
    <3>4. Append(f \o sub[i].found, sub[i].p.data)
            = f \o Append(sub[i].found, sub[i].p.data)
      BY <3>2, AppendToConcat
    <3> QED BY <2>5, <3>0, <3>1, <3>4
  <2>7. CASE h[d + i] # End
    <3>1. run[d + (i + 1)].found = run[d + i].found /\ sub[i + 1].found = sub[i].found
      BY <2>3, <2>4, <2>7, ParseStep
    <3> QED BY <2>2, <2>5, <3>1
  <2> QED BY <2>6, <2>7
<1> HIDE DEF S
<1>8. Nat \subseteq S
  BY <1>6, <1>7, InductionOnSet
<1> QED BY <1>8 DEF S, run, sub, SameFrom

\* PROTO_ParseByte leaves one parser, whichever it is, unless it tests an
\* isBegin that was not set.
LEMMA ParseOne ==
  ASSUME NEW r \in Found, NEW b \in Byte, NEW q,
         b # End, PROTO_ParseByte(r.p, b) = {q}
  PROVE  Parse(r, b) = [p |-> q, found |-> r.found]
<1>1. Parse(r, b) \in Found /\ Parse(r, b).found = r.found /\ Parse(r, b).p = q
  BY ParseStep
<1> QED BY <1>1 DEF Found

\* Two results with the same parts are the same.
LEMMA FoundEqual ==
  ASSUME NEW r \in Found, NEW s \in Found, r.p = s.p, r.found = s.found
  PROVE  r = s
BY DEF Found

\* The parser behind the byte that begins a frame.
Opened == [isBegin |-> "yes", isEsc |-> FALSE, data |-> <<>>]

\* PROTO_ParseByte starts over at 0x7E, whatever it was in.
LEMMA ParseBegin ==
  ASSUME NEW r \in Found
  PROVE  Parse(r, Begin) = [p |-> Opened, found |-> r.found]
<1>1. Begin # End /\ Begin \in Byte
  BY DEF Begin, End, Byte
<1>2. PROTO_ParseByte(r.p, Begin) = {Opened}
  BY DEF PROTO_ParseByte, Opened, Begin, Esc
<1> QED BY <1>1, <1>2, ParseOne

\* A parser that waits for a frame finds the same packets, isBegin set or not.
LEMMA ParsedStart ==
  ASSUME NEW h, NEW n \in Nat, \A i \in 0..n - 1 : h[i] \in Byte,
         n > 0 => h[0] = Begin,
         NEW p \in {NoRead, FreshParser}, NEW q \in {NoRead, FreshParser}
  PROVE  /\ \A i \in 0..n : Parsed(h, n, p)[i].found = Parsed(h, n, q)[i].found
         /\ \A i \in 1..n : Parsed(h, n, p)[i] = Parsed(h, n, q)[i]
<1>1. p \in Parser /\ q \in Parser
  BY NoReadType, FreshParserType DEF Parser
<1> DEFINE a == Parsed(h, n, p)
           b == Parsed(h, n, q)
<1>2. /\ a[0] = [p |-> p, found |-> <<>>] /\ b[0] = [p |-> q, found |-> <<>>]
      /\ \A i \in 0..n - 1 : a[i + 1] = Parse(a[i], h[i]) /\ b[i + 1] = Parse(b[i], h[i])
  BY ParsedDef
<1>3. \A i \in 0..n : a[i] \in Found /\ b[i] \in Found
  BY <1>1, ParsedType
<1>4. CASE n = 0
  <2> HIDE DEF a, b
  <2>1. \A i \in 0..n : a[i].found = b[i].found
    BY <1>2, <1>4
  <2>2. \A i \in 1..n : a[i] = b[i]
    BY <1>4
  <2> QED BY <2>1, <2>2 DEF a, b
<1>5. CASE n > 0
  <2> DEFINE k == [i \in 0..n - 2 |-> h[i + 1]]
             c == Parsed(k, n - 1, Opened)
  <2>1. a[1] = [p |-> Opened, found |-> <<>>] /\ b[1] = [p |-> Opened, found |-> <<>>]
    <3> HIDE DEF a, b
    <3>1. 0 \in 0..n - 1 /\ 0 \in 0..n /\ 0 + 1 = 1
      BY <1>5
    <3>2. a[1] = Parse(a[0], Begin) /\ b[1] = Parse(b[0], Begin)
      BY <1>2, <1>5, <3>1
    <3>3. a[0] \in Found /\ b[0] \in Found /\ a[0].found = <<>> /\ b[0].found = <<>>
      BY <1>2, <1>3, <3>1
    <3> QED BY <3>2, <3>3, ParseBegin
  <2>2. Opened \in Parser /\ n - 1 \in Nat /\ 1 + (n - 1) <= n
    BY <1>5, NoReadType DEF Opened, Parser
  <2>3. \A i \in 0..(n - 1) - 1 : k[i] = h[1 + i]
    BY <1>5
  <2> HIDE DEF k
  <2>8. /\ SameFrom(h, n, p, k, n - 1, Opened, 1, <<>>)
        /\ SameFrom(h, n, q, k, n - 1, Opened, 1, <<>>)
    BY <1>1, <2>1, <2>2, <2>3, ParsedFrom
  <2>4. \A i \in 0..n - 1 : a[1 + i].p = c[i].p /\ a[1 + i].found = <<>> \o c[i].found
    BY <2>8 DEF SameFrom
  <2>5. \A i \in 0..n - 1 : b[1 + i].p = c[i].p /\ b[1 + i].found = <<>> \o c[i].found
    BY <2>8 DEF SameFrom
  <2> HIDE DEF a, b, c
  <2>6. ASSUME NEW i \in 1..n PROVE a[i] = b[i]
    <3>1. i - 1 \in 0..n - 1 /\ 1 + (i - 1) = i /\ i \in 0..n
      OBVIOUS
    <3>2. a[i].p = b[i].p /\ a[i].found = b[i].found
      BY <2>4, <2>5, <3>1
    <3>3. a[i] \in Found /\ b[i] \in Found
      BY <1>3, <3>1
    <3> QED BY <3>2, <3>3, FoundEqual
  <2>7. ASSUME NEW i \in 0..n PROVE a[i].found = b[i].found
    BY <1>2, <2>6
  <2> QED BY <2>6, <2>7 DEF a, b
<1> QED BY <1>4, <1>5

-----------------------------------------------------------------------------
(* The packets in the ring, as it changes.                                 *)

\* The parse of the ring is well formed.
RunOK ==
  /\ fill_cnt \in Nat /\ proto \in Parser
  /\ \A i \in 0..fill_cnt - 1 : Held[i] \in Byte
  /\ Run[0] = [p |-> proto, found |-> <<>>]
  /\ \A i \in 0..fill_cnt : Run[i] \in Found
  /\ \A i \in 0..fill_cnt - 1 : Run[i + 1] = Parse(Run[i], Held[i])
  /\ Queue = Run[fill_cnt].found
  /\ Queue \in Seq(Seq(Byte))

\* It is, in every state with the right types.
LEMMA RunType == TypeOK => RunOK
<1> SUFFICES ASSUME TypeOK PROVE RunOK
  OBVIOUS
<1>1. fill_cnt \in Nat /\ proto \in Parser
  BY RingAssumption DEF TypeOK, Parser
<1>2. \A i \in 0..fill_cnt - 1 : Held[i] \in Byte
  BY HeldType
<1>3. \A i \in 0..fill_cnt : Run[i] \in Found
  BY <1>1, <1>2, ParsedType DEF Run
<1>4. Queue = Run[fill_cnt].found
  BY DEF Queue, Run
<1>5. Queue \in Seq(Seq(Byte))
  <2>1. Run[fill_cnt] \in Found
    BY <1>1, <1>3
  <2> QED BY <1>4, <2>1 DEF Found
<1>6. /\ Run[0] = [p |-> proto, found |-> <<>>]
      /\ \A i \in 0..fill_cnt - 1 : Run[i + 1] = Parse(Run[i], Held[i])
  BY <1>1, ParsedDef DEF Run
<1> QED BY <1>1, <1>2, <1>3, <1>4, <1>5, <1>6 DEF RunOK

\* The same bytes and the same parser find the same packets.
SamePrefix(h, m, k, n, p) == \A i \in 0..n : Parsed(h, m, p)[i] = Parsed(k, n, p)[i]

\* The first bytes of a ring are parsed the same without the last ones.
LEMMA RunPrefix ==
  ASSUME NEW h, NEW m \in Nat, NEW p \in Parser, \A i \in 0..m - 1 : h[i] \in Byte,
         NEW k, NEW n \in Nat, n <= m, \A i \in 0..n - 1 : k[i] = h[i]
  PROVE  SamePrefix(h, m, k, n, p)
<1> DEFINE run == Parsed(h, m, p)
           sub == Parsed(k, n, p)
<1>1. run[0] = [p |-> p, found |-> <<>>]
  BY ParsedDef
<1>2. \A i \in 0..n - 1 : k[i] = h[0 + i]
  OBVIOUS
<1>3. \A i \in 0..n : run[0 + i].p = sub[i].p /\ run[0 + i].found = <<>> \o sub[i].found
  <2>1. 0 + n <= m
    OBVIOUS
  <2>2. SameFrom(h, m, p, k, n, p, 0, <<>>)
    BY <1>1, <1>2, <2>1, ParsedFrom
  <2> QED BY <2>2 DEF SameFrom
<1>4. \A i \in 0..n - 1 : k[i] \in Byte
  OBVIOUS
<1>5. \A i \in 0..m : run[i] \in Found
  BY ParsedType
<1>6. \A i \in 0..n : sub[i] \in Found
  BY <1>4, ParsedType
<1> HIDE DEF run, sub
<1>7. ASSUME NEW i \in 0..n PROVE run[i] = sub[i]
  <2>1. i \in 0..m /\ 0 + i = i
    OBVIOUS
  <2>2. run[i].p = sub[i].p /\ run[i].found = <<>> \o sub[i].found
    BY <1>3, <2>1
  <2>3. run[i] \in Found /\ sub[i] \in Found
    BY <1>5, <1>6, <2>1
  <2>4. run[i].found = sub[i].found
    BY <2>2, <2>3 DEF Found
  <2> QED BY <2>2, <2>3, <2>4 DEF Found
<1> QED BY <1>7 DEF run, sub, SamePrefix

\* One byte more, read after the others.
LEMMA PutRun ==
  ASSUME TypeOK, RingInv, NEW c \in Byte, RINGBUF_Put(c), UNCHANGED proto
  PROVE  /\ \A i \in 0..fill_cnt : Run'[i] = Run[i]
         /\ Run'[fill_cnt + 1] = Parse(Run[fill_cnt], c)
         /\ Queue' = Run'[fill_cnt + 1].found
<1>1. fill_cnt' = fill_cnt + 1
      /\ Held' = [i \in 0..fill_cnt |-> IF i = fill_cnt THEN c ELSE Held[i]]
  BY PutHeld
<1>2. fill_cnt \in Nat /\ proto \in Parser /\ \A i \in 0..fill_cnt - 1 : Held[i] \in Byte
  BY RunType DEF RunOK
<1>3. Run' = Parsed(Held', fill_cnt + 1, proto)
  BY <1>1 DEF Run
<1>4. \A i \in 0..(fill_cnt + 1) - 1 : Held'[i] \in Byte
  BY <1>1, <1>2
<1>5. \A i \in 0..fill_cnt - 1 : Held[i] = Held'[i]
  BY <1>1, <1>2
<1>6. \A i \in 0..fill_cnt : Run'[i] = Run[i]
  <2>1. fill_cnt + 1 \in Nat /\ fill_cnt <= fill_cnt + 1
    BY <1>2
  <2>2. SamePrefix(Held', fill_cnt + 1, Held, fill_cnt, proto)
    BY <1>2, <1>4, <1>5, <2>1, RunPrefix
  <2> QED BY <1>3, <2>2 DEF SamePrefix, Run
<1>7. Run'[fill_cnt + 1] = Parse(Run'[fill_cnt], Held'[fill_cnt])
  <2>1. fill_cnt + 1 \in Nat /\ fill_cnt \in 0..(fill_cnt + 1) - 1
    BY <1>2
  <2> QED BY <1>3, <2>1, ParsedDef
<1>8. Run'[fill_cnt + 1] = Parse(Run[fill_cnt], c)
  <2>1. fill_cnt \in 0..fill_cnt
    BY <1>2
  <2>2. Held'[fill_cnt] = c /\ Run'[fill_cnt] = Run[fill_cnt]
    BY <1>1, <1>6, <2>1
  <2> QED BY <1>7, <2>2
<1>9. Queue' = Run'[fill_cnt + 1].found
  BY <1>1, <1>3 DEF Queue
<1> QED BY <1>6, <1>8, <1>9

\* One byte less: the parser has read it.
LEMMA GetRun ==
  ASSUME TypeOK, RingInv, RINGBUF_Get,
         proto' = Run[1].p
  PROVE  /\ \A i \in 0..fill_cnt - 1 :
              /\ Run[i + 1].p = Run'[i].p
              /\ Run[i + 1].found = Run[1].found \o Run'[i].found
         /\ Queue = Run[1].found \o Queue'
<1>1. /\ fill_cnt' = fill_cnt - 1
      /\ Held' = [i \in 0..fill_cnt - 2 |-> Held[i + 1]]
  BY GetHeld
<1>2. /\ fill_cnt \in Nat /\ proto \in Parser /\ fill_cnt > 0
      /\ \A i \in 0..fill_cnt - 1 : Held[i] \in Byte
      /\ \A i \in 0..fill_cnt : Run[i] \in Found
      /\ Queue = Run[fill_cnt].found
  BY RunType DEF RunOK, RINGBUF_Get
<1>3. Run' = Parsed(Held', fill_cnt - 1, Run[1].p) /\ Queue' = Run'[fill_cnt - 1].found
  BY <1>1 DEF Run, Queue
<1>4. Run[1] \in Found
  BY <1>2
<1> DEFINE q == Run[1].p
           f == Run[1].found
<1>5. /\ Run[1] = [p |-> q, found |-> f] /\ q \in Parser
      /\ fill_cnt - 1 \in Nat /\ 1 + (fill_cnt - 1) <= fill_cnt
      /\ \A i \in 0..(fill_cnt - 1) - 1 : Held'[i] = Held[1 + i]
  BY <1>1, <1>2, <1>4 DEF Found
<1>6. Run' = Parsed(Held', fill_cnt - 1, q)
  BY <1>3
<1> HIDE DEF q, f
<1>7. \A i \in 0..fill_cnt - 1 : /\ Run[1 + i].p = Run'[i].p
                                 /\ Run[1 + i].found = f \o Run'[i].found
  <2>1. SameFrom(Held, fill_cnt, proto, Held', fill_cnt - 1, q, 1, f)
    BY <1>2, <1>5, ParsedFrom DEF Run
  <2> QED BY <1>6, <2>1 DEF SameFrom, Run
<1>8. \A i \in 0..fill_cnt - 1 : 1 + i = i + 1
  OBVIOUS
<1>9. \A i \in 0..fill_cnt - 1 : /\ Run[i + 1].p = Run'[i].p
                                 /\ Run[i + 1].found = f \o Run'[i].found
  BY <1>7, <1>8
<1>10. Queue = f \o Queue'
  <2>1. fill_cnt - 1 \in 0..fill_cnt - 1 /\ (fill_cnt - 1) + 1 = fill_cnt
    BY <1>2
  <2> QED BY <1>2, <1>3, <1>9, <2>1
<1> QED BY <1>9, <1>10 DEF f

-----------------------------------------------------------------------------
(* The bytes of the ring are all accounted for.                            *)

\* One more byte to escape, or none.
LEMMA SpecialsAppend ==
  ASSUME NEW d \in Seq(Byte), NEW b \in Byte
  PROVE  Specials(Append(d, b)) = Specials(d) + (IF b \in Special THEN 1 ELSE 0)
<1> DEFINE S == {i \in DOMAIN d : d[i] \in Special}
           T == {i \in DOMAIN Append(d, b) : Append(d, b)[i] \in Special}
<1>1. /\ DOMAIN d = 1..Len(d) /\ DOMAIN Append(d, b) = 1..Len(d) + 1 /\ Len(d) \in Nat
      /\ \A i \in 1..Len(d) : Append(d, b)[i] = d[i]
      /\ Append(d, b)[Len(d) + 1] = b
  OBVIOUS
<1>2. IsFiniteSet(S)
  <2>1. IsFiniteSet(1..Len(d))
    BY <1>1, FS_Interval
  <2> QED BY <1>1, <2>1, FS_Subset
<1>3. CASE b \in Special
  <2>1. T = S \cup {Len(d) + 1} /\ Len(d) + 1 \notin S
    BY <1>1, <1>3
  <2> HIDE DEF S, T
  <2>2. Cardinality(T) = Cardinality(S) + 1
    BY <1>2, <2>1, FS_AddElement
  <2> QED BY <1>3, <2>2 DEF S, T, Specials
<1>4. CASE b \notin Special
  <2>1. T = S
    BY <1>1, <1>4
  <2>2. Specials(Append(d, b)) = Specials(d)
    BY <2>1 DEF Specials
  <2> QED BY <1>4, <2>2, CostType
<1> QED BY <1>3, <1>4

\* The beginning of a packet has no more bytes to escape than the packet.
LEMMA SpecialsPrefix ==
  ASSUME NEW d \in Seq(Byte), NEW k \in 0..Len(d)
  PROVE  /\ SubSeq(d, 1, k) \in Seq(Byte) /\ Len(SubSeq(d, 1, k)) = k
         /\ Specials(SubSeq(d, 1, k)) \in Nat
         /\ Specials(SubSeq(d, 1, k)) <= Specials(d)
<1> DEFINE e == SubSeq(d, 1, k)
           S == {i \in DOMAIN e : e[i] \in Special}
           T == {i \in DOMAIN d : d[i] \in Special}
<1>1. /\ e \in Seq(Byte) /\ Len(e) = k /\ \A i \in 1..k : e[i] = d[i]
      /\ DOMAIN e = 1..k /\ DOMAIN d = 1..Len(d) /\ Len(d) \in Nat
  OBVIOUS
<1>2. Specials(e) \in Nat
  BY <1>1, CostType
<1>3. S \subseteq T /\ T \subseteq 1..Len(d)
  BY <1>1
<1>4. IsFiniteSet(T)
  <2>1. IsFiniteSet(1..Len(d))
    BY <1>1, FS_Interval
  <2> HIDE DEF T
  <2> QED BY <1>3, <2>1, FS_Subset
<1>5. Cardinality(S) <= Cardinality(T)
  <2> HIDE DEF S, T
  <2> QED BY <1>3, <1>4, FS_Subset
<1>6. Specials(e) <= Specials(d)
  BY <1>5 DEF Specials
<1> QED BY <1>1, <1>2, <1>6

\* The bytes read of a frame are a number,
LEMMA BegunType == \A p \in Parser : Begun(p) \in Nat
<1> SUFFICES ASSUME NEW p \in Parser PROVE Begun(p) \in Nat
  OBVIOUS
<1>1. p.data \in Seq(Byte) /\ Len(p.data) \in Nat
  BY DEF Parser
<1>2. Specials(p.data) \in Nat
  BY <1>1, CostType
<1> QED BY <1>1, <1>2 DEF Begun

\* which is 0 before a frame begins and 1 behind its first byte.
LEMMA NoneBegun == Begun(NoRead) = 0 /\ Begun(FreshParser) = 0 /\ Begun(Opened) = 1
<1>1. Specials(<<>>) = 0
  <2>1. {i \in DOMAIN <<>> : <<>>[i] \in Special} = {}
    OBVIOUS
  <2> QED BY <2>1, FS_EmptySet DEF Specials
<1>2. Len(<<>>) = 0
  OBVIOUS
<1> QED BY <1>1, <1>2 DEF Begun, NoRead, FreshParser, Opened

\* The bytes of the ring that were parsed are a number.
LEMMA WeightType ==
  ASSUME NEW r \in Found
  PROVE  Fifo!Used(r.found) \in Nat /\ Begun(r.p) \in Nat /\ Weight(r) \in Nat
<1>1. r.found \in Seq(Seq(Byte)) /\ r.p \in Parser
  BY DEF Found
<1>2. <<>> \in Seq(Byte)
  OBVIOUS
<1>3. Fifo!Used(r.found) \in Nat
  BY <1>1, <1>2, UsedAppend
<1> QED BY <1>1, <1>3, BegunType DEF Weight

-----------------------------------------------------------------------------
\* A ring that lost its newest bytes is read the same up to there, with a fresh
\* parser too: QUEUE_Puts that puts the pointers back forgets nothing else.
LEMMA SameRun ==
  ASSUME TypeOK, TypeOK', CountInv, proto = NoRead, proto' \in {NoRead, FreshParser},
         fill_cnt' <= fill_cnt, \A i \in 0..fill_cnt' - 1 : Held'[i] = Held[i],
         fill_cnt' > 0 => Held[0] = Begin
  PROVE  CountInv' /\ \A i \in 0..fill_cnt' : Run'[i].found = Run[i].found
<1> DEFINE mid == Parsed(Held', fill_cnt', NoRead)
<1>1. /\ fill_cnt \in Nat /\ NoRead \in Parser
      /\ \A i \in 0..fill_cnt - 1 : Held[i] \in Byte
      /\ Run = Parsed(Held, fill_cnt, NoRead)
  BY RunType DEF RunOK, Run
<1>2. /\ fill_cnt' \in Nat /\ Run' = Parsed(Held', fill_cnt', proto')
      /\ \A i \in 0..fill_cnt' - 1 : Held'[i] \in Byte
      /\ Run'[0] = [p |-> proto', found |-> <<>>]
  <2>1. RunOK'
    BY RunType, PTL
  <2> QED BY <2>1 DEF RunOK, Run
<1>3. \A i \in 0..fill_cnt' : Run[i] = mid[i]
  <2>1. SamePrefix(Held, fill_cnt, Held', fill_cnt', NoRead)
    BY <1>1, <1>2, RunPrefix
  <2> QED BY <1>1, <2>1 DEF SamePrefix
<1>4. fill_cnt' > 0 => Held'[0] = Begin
  <2> SUFFICES ASSUME fill_cnt' > 0 PROVE Held'[0] = Begin
    OBVIOUS
  <2>0. fill_cnt' \in Nat
    BY <1>2
  <2>1. 0 \in 0..fill_cnt' - 1
    BY <2>0
  <2> QED BY <2>1
<1>5. /\ \A i \in 0..fill_cnt' : mid[i].found = Run'[i].found
      /\ \A i \in 1..fill_cnt' : mid[i] = Run'[i]
  <2>1. NoRead \in {NoRead, FreshParser}
    OBVIOUS
  <2> QED BY <1>2, <1>4, <2>1, ParsedStart
<1> HIDE DEF mid
<1>6. ASSUME NEW i \in 0..fill_cnt'
      PROVE  Weight(Run'[i]) = Begun(proto') + i
  <2>1. CASE i = 0
    <3>1. Weight(Run'[0]) = Begun(proto')
      BY <1>2, UsedEmpty, NoneBegun DEF Weight
    <3> QED BY <2>1, <3>1, NoneBegun
  <2>2. CASE i # 0
    <3>1. i \in 1..fill_cnt' /\ i \in 0..fill_cnt
      BY <1>1, <1>2, <2>2
    <3>2. Run'[i] = Run[i]
      BY <1>3, <1>5, <3>1
    <3>3. Weight(Run[i]) = Begun(NoRead) + i
      BY <3>1 DEF CountInv
    <3> QED BY <3>2, <3>3, NoneBegun
  <2> QED BY <2>1, <2>2
<1> QED BY <1>3, <1>5, <1>6 DEF CountInv

\* RINGBUF_Put keeps the count, if the parser takes the byte in.
LEMMA PutCount ==
  ASSUME TypeOK, RingInv, CountInv, NEW c \in Byte, RINGBUF_Put(c), UNCHANGED proto,
         Weight(Run'[fill_cnt + 1]) = Weight(Run[fill_cnt]) + 1
  PROVE  CountInv'
<1>1. /\ \A i \in 0..fill_cnt : Run'[i] = Run[i]
      /\ fill_cnt' = fill_cnt + 1 /\ fill_cnt \in Nat /\ proto \in Parser
  BY PutRun, PutHeld, RunType DEF RunOK
<1>2. ASSUME NEW i \in 0..fill_cnt'
      PROVE  Weight(Run'[i]) = Begun(proto') + i
  <2>1. CASE i = fill_cnt + 1
    <3>1. Weight(Run[fill_cnt]) = Begun(proto) + fill_cnt
      BY <1>1 DEF CountInv
    <3> QED BY <1>1, <2>1, <3>1, BegunType
  <2>2. CASE i # fill_cnt + 1
    <3>1. i \in 0..fill_cnt
      BY <1>1, <2>2
    <3> QED BY <1>1, <3>1 DEF CountInv
  <2> QED BY <2>1, <2>2
<1> QED BY <1>2 DEF CountInv

\* RINGBUF_Get keeps the count.
LEMMA GetCount ==
  ASSUME TypeOK, TypeOK', RingInv, CountInv, RINGBUF_Get, proto' = Run[1].p,
         Run[1].found = <<>> \/ \E m \in Seq(Byte) : Run[1].found = <<m>>
  PROVE  CountInv'
<1> DEFINE f == Run[1].found
<1>1. /\ \A i \in 0..fill_cnt - 1 : /\ Run[i + 1].p = Run'[i].p
                                    /\ Run[i + 1].found = f \o Run'[i].found
      /\ fill_cnt' = fill_cnt - 1
  BY GetRun, GetHeld
<1>2. /\ fill_cnt \in Nat /\ fill_cnt > 0 /\ proto \in Parser
      /\ \A i \in 0..fill_cnt : Run[i] \in Found
  BY RunType DEF RunOK, RINGBUF_Get
<1>3. /\ \A i \in 0..fill_cnt' : Run'[i] \in Found
      /\ proto' \in Parser
  <2>1. RunOK'
    BY RunType, PTL
  <2> QED BY <2>1 DEF RunOK
<1>4. ASSUME NEW s \in Seq(Seq(Byte))
      PROVE  /\ Fifo!Used(f \o s) = Fifo!Used(f) + Fifo!Used(s)
             /\ Fifo!Used(f) \in Nat /\ Fifo!Used(s) \in Nat
  <2>0. <<>> \in Seq(Byte) /\ <<>> \in Seq(Seq(Byte))
    OBVIOUS
  <2>1. Fifo!Used(s) \in Nat
    BY <2>0, UsedAppend
  <2>2. CASE f = <<>>
    <3> HIDE DEF f
    <3>1. f \o s = s
      BY <2>2
    <3> QED BY <2>1, <2>2, <3>1, UsedEmpty
  <2>3. ASSUME NEW m \in Seq(Byte), f = <<m>>
        PROVE  Fifo!Used(f \o s) = Fifo!Used(f) + Fifo!Used(s) /\ Fifo!Used(f) \in Nat
    <3> HIDE DEF f
    <3>1. Fifo!Used(f \o s) = Fifo!Cost(m) + Fifo!Used(s)
      BY <2>3, UsedCons
    <3>2. Fifo!Used(f) = Fifo!Cost(m)
      <4>1. <<m>> \o <<>> = <<m>>
        OBVIOUS
      <4>2. Fifo!Used(<<m>> \o <<>>) = Fifo!Cost(m) + Fifo!Used(<<>>)
        BY <2>0, UsedCons
      <4> QED BY <2>3, <4>1, <4>2, UsedEmpty, CostType
    <3> QED BY <3>1, <3>2, CostType
  <2> QED BY <2>1, <2>2, <2>3
<1> HIDE DEF f
<1>5. ASSUME NEW i \in 0..fill_cnt'
      PROVE  Weight(Run'[i]) = Begun(proto') + i
  <2>1. /\ i \in 0..fill_cnt - 1 /\ i + 1 \in 0..fill_cnt /\ 1 \in 0..fill_cnt
        /\ i \in Nat
    BY <1>1, <1>2
  <2>2. /\ Weight(Run[i + 1]) = Begun(proto) + (i + 1)
        /\ Weight(Run[1]) = Begun(proto) + 1
    BY <2>1 DEF CountInv
  <2>3. Run'[i] \in Found /\ Run'[i].found \in Seq(Seq(Byte)) /\ Run'[i].p \in Parser
    BY <1>3 DEF Found
  <2>4. Weight(Run[i + 1]) = Fifo!Used(f) + Fifo!Used(Run'[i].found) + Begun(Run'[i].p)
    BY <1>1, <1>4, <2>1, <2>3 DEF Weight
  <2>5. Weight(Run[1]) = Fifo!Used(f) + Begun(proto')
    BY DEF Weight, f
  <2>6. /\ Fifo!Used(f) \in Nat /\ Fifo!Used(Run'[i].found) \in Nat
        /\ Begun(Run'[i].p) \in Nat /\ Begun(proto') \in Nat /\ Begun(proto) \in Nat
    BY <1>2, <1>3, <1>4, <2>3, BegunType
  <2>7. Weight(Run'[i]) = Fifo!Used(Run'[i].found) + Begun(Run'[i].p)
    BY DEF Weight
  <2>8. \A a, b, c, d, e, j \in Nat :
          (a + b + c = d + (j + 1) /\ a + e = d + 1) => b + c = e + j
    OBVIOUS
  <2>9. /\ Fifo!Used(f) + Fifo!Used(Run'[i].found) + Begun(Run'[i].p)
             = Begun(proto) + (i + 1)
        /\ Fifo!Used(f) + Begun(proto') = Begun(proto) + 1
    BY <2>2, <2>4, <2>5
  <2>10. Fifo!Used(Run'[i].found) + Begun(Run'[i].p) = Begun(proto') + i
    BY <2>1, <2>6, <2>8, <2>9
  <2> QED BY <2>7, <2>10
<1> QED BY <1>5 DEF CountInv

\* Where only whole frames are in the ring, their cost is its content.
LEMMA CleanEnd ==
  ASSUME TypeOK, CountInv, proto \in {NoRead, FreshParser},
         fill_cnt > 0 => Held[fill_cnt - 1] = End
  PROVE  Begun(Run[fill_cnt].p) = 0 /\ Fifo!Used(Queue) = fill_cnt
<1>1. /\ fill_cnt \in Nat /\ \A i \in 0..fill_cnt : Run[i] \in Found
      /\ Run[0] = [p |-> proto, found |-> <<>>]
      /\ \A i \in 0..fill_cnt - 1 : Run[i + 1] = Parse(Run[i], Held[i])
      /\ Queue = Run[fill_cnt].found
  BY RunType DEF RunOK
<1>2. Begun(Run[fill_cnt].p) = 0
  <2>1. CASE fill_cnt = 0
    BY <1>1, <2>1, NoneBegun
  <2>2. CASE fill_cnt > 0
    <3>1. fill_cnt - 1 \in 0..fill_cnt - 1 /\ (fill_cnt - 1) + 1 = fill_cnt
      BY <1>1, <2>2
    <3>2. Run[fill_cnt] = Parse(Run[fill_cnt - 1], End) /\ Run[fill_cnt - 1] \in Found
      BY <1>1, <2>2, <3>1
    <3>3. End \in Byte
      BY DEF End, Byte
    <3>4. Run[fill_cnt].p = NoRead
      BY <3>2, <3>3, ParseStep
    <3> QED BY <3>4, NoneBegun
  <2> QED BY <1>1, <2>1, <2>2
<1>3. Weight(Run[fill_cnt]) = fill_cnt
  BY <1>1, NoneBegun DEF CountInv
<1>4. Run[fill_cnt] \in Found
  BY <1>1
<1> QED BY <1>1, <1>2, <1>3, <1>4, WeightType DEF Weight

-----------------------------------------------------------------------------
(* The steps that do not write to the ring.                                *)

\* The packet being offered.
Pending == IF caller \in Callers THEN <<msg>> ELSE <<>>

\* What a step of the firmware is for the FIFO.
FifoStep == Fifo!Next \/ UNCHANGED <<Queue, Pending, out>>

\* A step that leaves the ring alone leaves the queue alone.
LEMMA KeepRun ==
  ASSUME IInv, IInv', RefInv, ~Reading, UNCHANGED ring,
         proto' \in {NoRead, FreshParser}
  PROVE  CountInv' /\ Queue' = Queue
<1>1. Held' = Held /\ fill_cnt' = fill_cnt
  BY SameHeld DEF ring
<1>2. TypeOK /\ TypeOK' /\ CountInv /\ proto = NoRead
  BY DEF IInv, RefInv, ControlInv
<1>3. RunOK /\ RunOK'
  BY <1>2, RunType, PTL
<1>4. fill_cnt \in Nat
  BY <1>3 DEF RunOK
<1>5. fill_cnt' > 0 => Held[0] = Begin
  BY <1>1 DEF IInv, WellFramed
<1>6. CountInv' /\ \A i \in 0..fill_cnt' : Run'[i].found = Run[i].found
  <2>1. fill_cnt' <= fill_cnt /\ \A i \in 0..fill_cnt' - 1 : Held'[i] = Held[i]
    BY <1>1, <1>4
  <2> QED BY <1>2, <1>5, <2>1, SameRun
<1>7. Queue' = Queue
  <2>1. Queue = Run[fill_cnt].found /\ Queue' = Run'[fill_cnt'].found
    BY <1>3 DEF RunOK
  <2>2. fill_cnt \in 0..fill_cnt'
    BY <1>1, <1>4
  <2> QED BY <1>1, <1>6, <2>1, <2>2
<1> QED BY <1>6, <1>7

\* QUEUE_Puts starts.
LEMMA StartPutsRef ==
  ASSUME IInv, IInv', RefInv, ~Reading, UNCHANGED ring,
         NEW m \in Messages, StartPuts(m), caller' \in Callers
  PROVE  RefInv' /\ Queue' = Queue
<1>1. CountInv' /\ Queue' = Queue
  BY KeepRun DEF StartPuts
<1>2. m \in Seq(Byte)
  BY MessagesAssumption
<1>3. ControlInv' /\ DropInv'
  BY DEF ControlInv, DropInv, StartPuts, Reading, Adding
<1>4. PartInv'
  <2>1. Len(m) \in Nat
    BY <1>2
  <2>2. last'.fill_cnt = fill_cnt' /\ pos' = 1 /\ msg' = m /\ pc' = "begin"
    BY DEF StartPuts
  <2> QED BY <2>1, <2>2 DEF PartInv
<1> QED BY <1>1, <1>3, <1>4 DEF RefInv

\* The frame is dropped or given up only where it does not fit.
LEMMA CostBound ==
  ASSUME NEW m \in Messages
  PROVE  /\ m \in Seq(Byte) /\ Len(m) \in Nat /\ Len(m) <= BufSize
         /\ Specials(m) \in Nat /\ Fifo!Cost(m) = Len(m) + 2 + Specials(m)
<1>1. m \in Seq(Byte)
  BY MessagesAssumption
<1> QED BY <1>1, CostType, MessagesAssumption

\* MQTT_Publish offers its packet, or refuses it before the queue sees it.
LEMMA PublishRef ==
  ASSUME IInv, IInv', RefInv, NEW m \in Messages, MQTT_Publish(m)
  PROVE  RefInv' /\ FifoStep
<1>1. ~Reading /\ caller = "none" /\ proto = NoRead /\ UNCHANGED ring
  BY DEF MQTT_Publish, Reading, RefInv, ControlInv
<1>2. CASE m = <<>> /\ Return(FALSE)
  <2>1. CountInv' /\ Queue' = Queue
    BY <1>1, <1>2, KeepRun DEF Return
  <2>2. ControlInv' /\ DropInv' /\ PartInv'
    BY <1>2 DEF Return, ControlInv, DropInv, PartInv, Reading, Adding, Callers
  <2>3. Pending' = Pending /\ out' = out
    BY <1>1, <1>2 DEF Return, Pending, Callers, MQTT_Publish
  <2> QED BY <2>1, <2>2, <2>3 DEF RefInv, FifoStep
<1>3. CASE m # <<>> /\ caller' = "Publish" /\ pc' = "fit" /\ msg' = m
           /\ UNCHANGED <<pos, proto, ret>>
  <2>1. CountInv' /\ Queue' = Queue
    BY <1>1, <1>3, KeepRun
  <2>2. ControlInv' /\ DropInv' /\ PartInv'
    BY <1>1, <1>3 DEF ControlInv, DropInv, PartInv, Reading, Adding, Callers
  <2>3. out' = out
    BY DEF MQTT_Publish
  <2>4. Fifo!Offer(m)
    BY <1>1, <1>3, <2>1, <2>3 DEF Fifo!Offer
  <2> QED BY <2>1, <2>2, <2>4 DEF RefInv, FifoStep, Fifo!Next
<1> QED BY <1>2, <1>3 DEF MQTT_Publish

\* MQTT_Subscribe and the answers of mqtt_tcpclient_recv offer theirs.
LEMMA SubscribeRef ==
  ASSUME IInv, IInv', RefInv, NEW m \in Messages,
         MQTT_Subscribe(m) \/ mqtt_tcpclient_recv(m)
  PROVE  RefInv' /\ FifoStep
<1>1. /\ ~Reading /\ caller = "none" /\ UNCHANGED ring /\ out' = out
      /\ StartPuts(m) /\ caller' \in {"Subscribe", "Recv"}
  BY DEF MQTT_Subscribe, mqtt_tcpclient_recv, Reading, RefInv, ControlInv
<1>2. RefInv' /\ Queue' = Queue
  BY <1>1, StartPutsRef DEF Callers
<1>3. Fifo!Offer(m)
  BY <1>1, <1>2 DEF Fifo!Offer, StartPuts
<1> QED BY <1>2, <1>3 DEF FifoStep, Fifo!Next

\* MQTT_Task starts to read: nothing has left the queue.
LEMMA TaskRef ==
  ASSUME IInv, IInv', RefInv, MQTT_Task
  PROVE  RefInv' /\ FifoStep
<1>1. /\ ~Reading /\ caller = "none" /\ UNCHANGED <<ring, out>>
      /\ StartGets /\ caller' = "Task"
  BY DEF MQTT_Task, Reading, RefInv, ControlInv
<1>2. CountInv' /\ Queue' = Queue
  BY <1>1, KeepRun DEF StartGets
<1>3. ControlInv' /\ DropInv' /\ PartInv'
  BY <1>1 DEF ControlInv, DropInv, PartInv, StartGets, Reading, Adding, Callers
<1>4. Pending' = Pending
  BY <1>1 DEF Pending, Callers
<1> QED BY <1>1, <1>2, <1>3, <1>4 DEF RefInv, FifoStep

\* The loop of MQTT_Publish: the frame is tried, or nothing is left to drop.
LEMMA FitRef ==
  ASSUME IInv, IInv', RefInv, Fit
  PROVE  RefInv' /\ FifoStep
<1>1. /\ ~Reading /\ pc = "fit" /\ caller = "Publish" /\ proto = NoRead
      /\ UNCHANGED <<ring, caller, ret, out>> /\ msg \in Messages
  BY DEF Fit, Reading, RefInv, ControlInv, Callers
<1>2. CASE Size - fill_cnt < Len(msg) + 2 /\ StartGets /\ UNCHANGED <<last, msg, pos>>
  <2>1. CountInv' /\ Queue' = Queue
    BY <1>1, <1>2, KeepRun DEF StartGets
  <2>2. ControlInv' /\ PartInv'
    BY <1>1, <1>2 DEF ControlInv, PartInv, StartGets, Reading, Adding, Callers
  <2>3. Fifo!Used(Queue) = fill_cnt
    BY <1>1, CleanEnd DEF IInv, WellFramed, RefInv
  <2>4. Fifo!Used(Queue) + Fifo!Cost(msg) > Size
    <3>1. fill_cnt \in Int /\ Size \in Int
      BY RingAssumption DEF IInv, TypeOK
    <3> QED BY <1>1, <1>2, <2>3, <3>1, CostBound
  <2>5. DropInv'
    BY <1>2, <2>1, <2>4 DEF DropInv
  <2>6. Pending' = Pending
    BY <1>1, <1>2 DEF Pending
  <2> QED BY <1>1, <2>1, <2>2, <2>5, <2>6 DEF RefInv, FifoStep
<1>3. CASE StartPuts(msg)
  <2>1. RefInv' /\ Queue' = Queue
    BY <1>1, <1>3, StartPutsRef DEF Callers
  <2>2. Pending' = Pending
    BY <1>1, <1>3 DEF Pending, StartPuts
  <2> QED BY <1>1, <2>1, <2>2 DEF FifoStep
<1> QED BY <1>2, <1>3 DEF Fit

\* QUEUE_Gets on an empty ring takes nothing.
LEMMA GetsFailsRef ==
  ASSUME IInv, IInv', RefInv, GetsFails
  PROVE  RefInv' /\ FifoStep
<1>1. /\ Reading /\ UNCHANGED <<ring, out>> /\ fill_cnt = 0
      /\ proto' = NoRead /\ pc' = "idle" /\ caller' = "none"
  BY RingAssumption DEF GetsFails, Reading, Return, IInv, TypeOK
<1>2. RunOK /\ RunOK'
  <2>1. TypeOK /\ TypeOK'
    BY DEF IInv
  <2> QED BY <2>1, RunType, PTL
<1>3. fill_cnt' = 0
  BY <1>1 DEF ring
<1>4. Queue = <<>> /\ Queue' = <<>>
  BY <1>1, <1>2, <1>3 DEF RunOK
<1>5. CountInv'
  <2>1. Run'[0] = [p |-> NoRead, found |-> <<>>]
    BY <1>1, <1>2 DEF RunOK
  <2>2. \A i \in 0..fill_cnt' : i = 0
    BY <1>3
  <2>3. Weight(Run'[0]) = 0 + Begun(NoRead)
    BY <2>1, UsedEmpty DEF Weight
  <2>4. Weight(Run'[0]) = Begun(proto') + 0
    BY <1>1, <2>3, NoneBegun
  <2> QED BY <2>2, <2>4 DEF CountInv
<1>6. ControlInv' /\ PartInv' /\ DropInv'
  BY <1>1 DEF ControlInv, PartInv, DropInv, Reading, Adding, Callers
<1>7. CASE caller = "Task"
  <2>1. Pending' = Pending
    BY <1>1, <1>7 DEF Pending, Callers
  <2> QED BY <1>1, <1>4, <1>5, <1>6, <2>1 DEF RefInv, FifoStep
<1>8. CASE caller \in {"Publish", "Subscribe"}
  <2>1. Fifo!Used(Queue) + Fifo!Cost(msg) > Size
    BY <1>1, <1>8 DEF RefInv, DropInv
  <2>2. Fifo!Used(Queue) + Fifo!Cost(msg) \in Int
    <3>1. msg \in Messages
      BY <1>8 DEF RefInv, ControlInv, Callers
    <3> QED BY <3>1, <1>4, CostBound, UsedEmpty
  <2>3. ~Fifo!HasRoom(<<msg>>[1])
    BY <2>1, <2>2, RingAssumption DEF Fifo!HasRoom
  <2>4. Fifo!GiveUp
    BY <1>1, <1>4, <1>8, <2>3 DEF Fifo!GiveUp
  <2> QED BY <1>5, <1>6, <2>4 DEF RefInv, FifoStep, Fifo!Next
<1> QED BY <1>1, <1>7, <1>8 DEF RefInv, ControlInv

-----------------------------------------------------------------------------
(* The steps of PROTO_AddRb.                                               *)

\* Where PROTO_AddRb is in the frame, read back from the ring.
LEMMA AddingAt ==
  ASSUME IInv, RefInv, Adding
  PROVE  /\ caller \in Callers /\ proto = NoRead /\ fill_cnt \in Nat
         /\ msg \in Messages /\ pos \in 1..Len(msg) + 1
         /\ Run[fill_cnt] \in Found /\ Queue = Run[fill_cnt].found
         /\ Queue \in Seq(Seq(Byte)) /\ Fifo!Used(Queue) \in Nat
         /\ Fifo!Used(Queue) + Begun(Run[fill_cnt].p) = fill_cnt
         /\ pc = "begin" => Begun(Run[fill_cnt].p) = 0
         /\ pc # "begin" =>
              Run[fill_cnt].p = [isBegin |-> "yes", isEsc |-> pc = "esc",
                                 data |-> SubSeq(msg, 1, pos - 1)]
<1>1. RunOK
  BY RunType DEF IInv
<1>2. /\ caller \in Callers /\ proto = NoRead /\ msg \in Messages
  BY DEF RefInv, ControlInv, Adding, Reading
<1>3. /\ Run[fill_cnt] \in Found /\ Queue = Run[fill_cnt].found /\ fill_cnt \in Nat
      /\ Queue \in Seq(Seq(Byte))
  BY <1>1 DEF RunOK
<1>4. Fifo!Used(Queue) \in Nat /\ Fifo!Used(Queue) + Begun(Run[fill_cnt].p) = fill_cnt
  <2>1. Weight(Run[fill_cnt]) = Begun(NoRead) + fill_cnt
    BY <1>2, <1>3 DEF RefInv, CountInv
  <2> QED BY <1>3, <2>1, NoneBegun, WeightType DEF Weight
<1>5. pos \in 1..Len(msg) + 1
  BY <1>2, CostBound DEF IInv, TypeOK, PutsInv, RefInv, PartInv
<1>6. pc = "begin" => Begun(Run[fill_cnt].p) = 0
  BY <1>2, CleanEnd DEF IInv, WellFramed, RefInv
<1>7. pc # "begin" =>
        Run[fill_cnt].p = [isBegin |-> "yes", isEsc |-> pc = "esc",
                           data |-> SubSeq(msg, 1, pos - 1)]
  BY DEF RefInv, PartInv
<1> QED BY <1>2, <1>3, <1>4, <1>5, <1>6, <1>7

\* A partial frame takes less than the frame.
LEMMA PartLess ==
  ASSUME IInv, RefInv, Adding
  PROVE  Begun(Run[fill_cnt].p) < Fifo!Cost(msg)
<1>1. /\ msg \in Seq(Byte) /\ Len(msg) \in Nat /\ Specials(msg) \in Nat
      /\ Fifo!Cost(msg) = Len(msg) + 2 + Specials(msg)
  BY AddingAt, CostBound
<1>2. CASE pc = "begin"
  BY <1>1, <1>2, AddingAt
<1>3. CASE pc # "begin"
  <2> DEFINE d == SubSeq(msg, 1, pos - 1)
  <2>1. pos \in 1..Len(msg) + 1 /\ pos - 1 \in 0..Len(msg)
    BY <1>1, AddingAt
  <2>2. Len(d) = pos - 1 /\ Specials(d) \in Nat /\ Specials(d) <= Specials(msg)
    BY <1>1, <2>1, SpecialsPrefix
  <2>3. Run[fill_cnt].p = [isBegin |-> "yes", isEsc |-> pc = "esc", data |-> d]
    BY <1>3, AddingAt
  <2> HIDE DEF d
  <2>4. Begun(Run[fill_cnt].p) = 1 + Len(d) + Specials(d) + (IF pc = "esc" THEN 1 ELSE 0)
    <3>1. /\ Run[fill_cnt].p.isBegin = "yes" /\ Run[fill_cnt].p.data = d
          /\ Run[fill_cnt].p.isEsc = (pc = "esc")
      BY <2>3
    <3> QED BY <3>1 DEF Begun
  <2>5. pc = "esc" => pos <= Len(msg)
    BY DEF IInv, PutsInv, Adding
  <2> QED BY <1>1, <2>1, <2>2, <2>4, <2>5
<1> QED BY <1>2, <1>3

\* A byte of the frame is added: the packets before it are the same.
LEMMA PutRef ==
  ASSUME IInv, RefInv, Adding, NEW c \in Byte, RINGBUF_Put(c),
         UNCHANGED <<last, caller, msg, proto, out>>,
         pc' \in {"body", "esc"}, pos' \in Nat, pos' <= Len(msg) + 1,
         Parse(Run[fill_cnt], c) = [p |-> [isBegin |-> "yes", isEsc |-> pc' = "esc",
                                           data |-> SubSeq(msg, 1, pos' - 1)],
                                    found |-> Run[fill_cnt].found],
         Begun(Parse(Run[fill_cnt], c).p) = Begun(Run[fill_cnt].p) + 1
  PROVE  RefInv' /\ FifoStep
<1>1. TypeOK /\ RingInv /\ CountInv
  BY DEF IInv, RefInv
<1>2. /\ \A i \in 0..fill_cnt : Run'[i] = Run[i]
      /\ Run'[fill_cnt + 1] = Parse(Run[fill_cnt], c)
      /\ Queue' = Run'[fill_cnt + 1].found
      /\ fill_cnt' = fill_cnt + 1
  BY <1>1, PutRun, PutHeld
<1>3. Queue' = Queue /\ Run'[fill_cnt + 1].found = Run[fill_cnt].found
  BY <1>2, AddingAt
<1>4. CountInv'
  <2>1. /\ Weight(Run'[fill_cnt + 1])
             = Fifo!Used(Run[fill_cnt].found) + (Begun(Run[fill_cnt].p) + 1)
        /\ Weight(Run[fill_cnt]) = Fifo!Used(Run[fill_cnt].found) + Begun(Run[fill_cnt].p)
    BY <1>2, <1>3 DEF Weight
  <2>2. Fifo!Used(Run[fill_cnt].found) \in Nat /\ Begun(Run[fill_cnt].p) \in Nat
    BY AddingAt, WeightType
  <2>3. Weight(Run'[fill_cnt + 1]) = Weight(Run[fill_cnt]) + 1
    BY <2>1, <2>2
  <2> QED BY <1>1, <2>3, PutCount
<1>5. ControlInv' /\ DropInv'
  BY AddingAt DEF RefInv, ControlInv, DropInv, Reading, Adding, Callers
<1>6. PartInv'
  <2>1. last.fill_cnt \in 0..fill_cnt
    BY RingAssumption DEF IInv, TypeOK, PutsInv
  <2>2. Run'[last.fill_cnt].found = Run[last.fill_cnt].found
    BY <1>2, <2>1
  <2>3. Run[fill_cnt].found = Run[last.fill_cnt].found
    BY DEF RefInv, PartInv
  <2>4. Run'[fill_cnt + 1].found = Run'[last.fill_cnt].found
    BY <1>3, <2>2, <2>3
  <2>5. Run'[fill_cnt + 1].p = [isBegin |-> "yes", isEsc |-> pc' = "esc",
                                data |-> SubSeq(msg, 1, pos' - 1)]
    BY <1>2
  <2> QED BY <1>2, <2>4, <2>5 DEF PartInv
<1>7. Pending' = Pending
  BY DEF Pending
<1> QED BY <1>3, <1>4, <1>5, <1>6, <1>7 DEF RefInv, FifoStep

\* The first byte of a frame shows the reader nothing.
LEMMA AddBeginRef == ASSUME IInv, RefInv, AddBegin PROVE RefInv' /\ FifoStep
<1>1. Adding /\ Begin \in Byte /\ pc = "begin"
  BY DEF AddBegin, Adding, Begin, Byte
<1>2. Parse(Run[fill_cnt], Begin) = [p |-> Opened, found |-> Run[fill_cnt].found]
  BY <1>1, AddingAt, ParseBegin
<1>3. pos = 1
  BY <1>1 DEF RefInv, PartInv
<1>4. SubSeq(msg, 1, pos - 1) = <<>>
  BY <1>3
<1>5. Begun(Parse(Run[fill_cnt], Begin).p) = Begun(Run[fill_cnt].p) + 1
  BY <1>1, <1>2, AddingAt, NoneBegun
<1>6. /\ RINGBUF_Put(Begin) /\ UNCHANGED <<last, caller, msg, proto, out>>
      /\ pc' = "body" /\ pos' = pos
  BY DEF AddBegin
<1>7. Opened = [isBegin |-> "yes", isEsc |-> pc' = "esc", data |-> SubSeq(msg, 1, pos' - 1)]
  BY <1>4, <1>6 DEF Opened
<1>8. pos' \in Nat /\ pos' <= Len(msg) + 1
  BY <1>1, <1>6, AddingAt, CostBound
<1> QED BY <1>1, <1>2, <1>5, <1>6, <1>7, <1>8, PutRef

\* The parser in a frame.
In(isEsc, data) == [isBegin |-> "yes", isEsc |-> isEsc, data |-> data]

\* It is a parser, with these parts.
LEMMA InType ==
  ASSUME NEW esc \in BOOLEAN, NEW d \in Seq(Byte)
  PROVE  /\ In(esc, d) \in Parser
         /\ In(esc, d).isBegin = "yes" /\ In(esc, d).isEsc = esc /\ In(esc, d).data = d
BY DEF In, Parser

\* Two parsers with the same parts are the same.
LEMMA ParserEqual ==
  ASSUME NEW p \in Parser, NEW q \in Parser,
         p.isBegin = q.isBegin, p.isEsc = q.isEsc, p.data = q.data
  PROVE  p = q
BY DEF Parser

\* An ordinary byte of a packet.
LEMMA ParseBody ==
  ASSUME NEW r \in Found, NEW esc \in BOOLEAN, NEW d \in Seq(Byte), r.p = In(esc, d),
         NEW b \in Byte, b \notin Special, Len(d) < BufSize
  PROVE  Parse(r, b) = [p |-> In(FALSE, Append(d, IF esc THEN Flip(b) ELSE b)),
                        found |-> r.found]
<1> DEFINE x == Append(d, IF esc THEN Flip(b) ELSE b)
           s == [r.p EXCEPT !.data = x, !.isEsc = FALSE]
<1>1. r.p.isBegin = "yes" /\ r.p.isEsc = esc /\ r.p.data = d /\ r.p \in Parser
  BY InType
<1>2. PROTO_ParseByte(r.p, b) = {s}
  BY <1>1 DEF PROTO_ParseByte, Special
<1>3. x \in Seq(Byte)
  BY FlipType
<1>4. s = In(FALSE, x)
  <2> HIDE DEF x
  <2>1. s \in Parser /\ s.isBegin = "yes" /\ s.isEsc = FALSE /\ s.data = x
    BY <1>1, <1>3 DEF Parser
  <2> HIDE DEF s
  <2>2. /\ In(FALSE, x) \in Parser
        /\ In(FALSE, x).isBegin = "yes" /\ In(FALSE, x).isEsc = FALSE
        /\ In(FALSE, x).data = x
    BY <1>3, InType
  <2> QED BY <2>1, <2>2, ParserEqual
<1>5. b # End
  BY DEF Special
<1> HIDE DEF s, x
<1>6. Parse(r, b) = [p |-> s, found |-> r.found]
  BY <1>2, <1>5, ParseOne
<1> QED BY <1>4, <1>6 DEF x

\* The byte 0x7D: the parser waits for the one it announces.
LEMMA ParseEsc ==
  ASSUME NEW r \in Found, NEW esc \in BOOLEAN, NEW d \in Seq(Byte), r.p = In(esc, d)
  PROVE  Parse(r, Esc) = [p |-> In(TRUE, d), found |-> r.found]
<1> DEFINE s == [r.p EXCEPT !.isEsc = TRUE]
<1>1. r.p.isBegin = "yes" /\ r.p.data = d /\ r.p \in Parser
  BY InType
<1>2. PROTO_ParseByte(r.p, Esc) = {s}
  BY DEF PROTO_ParseByte, Esc, Begin
<1>3. s \in Parser /\ s.isBegin = "yes" /\ s.isEsc = TRUE /\ s.data = d
  BY <1>1 DEF Parser
<1> HIDE DEF s
<1>4. s = In(TRUE, d)
  <2>1. /\ In(TRUE, d) \in Parser
        /\ In(TRUE, d).isBegin = "yes" /\ In(TRUE, d).isEsc = TRUE
        /\ In(TRUE, d).data = d
    BY InType
  <2> QED BY <1>3, <2>1, ParserEqual
<1>5. Esc # End /\ Esc \in Byte
  BY DEF Esc, End, Byte
<1> QED BY <1>2, <1>4, <1>5, ParseOne

\* Escaping twice gives the byte back.
LEMMA FlipTwice == \A b \in Special : Flip(b) \in Byte \ Special /\ Flip(Flip(b)) = b
BY DEF Flip, Special, Byte, Esc, Begin, End

\* One more byte of the packet.
LEMMA PrefixNext ==
  ASSUME NEW d \in Seq(Byte), NEW k \in 1..Len(d)
  PROVE  /\ d[k] \in Byte /\ SubSeq(d, 1, k - 1) \in Seq(Byte)
         /\ Len(SubSeq(d, 1, k - 1)) = k - 1
         /\ Append(SubSeq(d, 1, k - 1), d[k]) = SubSeq(d, 1, k)
<1> DEFINE e == SubSeq(d, 1, k - 1)
           a == Append(e, d[k])
           c == SubSeq(d, 1, k)
<1>1. /\ d[k] \in Byte /\ e \in Seq(Byte) /\ Len(e) = k - 1
      /\ \A i \in 1..k - 1 : e[i] = d[i]
  OBVIOUS
<1>2. /\ c \in Seq(Byte) /\ Len(c) = k /\ \A i \in 1..k : c[i] = d[i]
  OBVIOUS
<1>3. a \in Seq(Byte) /\ Len(a) = k /\ \A i \in 1..k : a[i] = d[i]
  <2> HIDE DEF e
  <2>1. a \in Seq(Byte) /\ Len(a) = k
    BY <1>1
  <2>2. \A i \in 1..k : a[i] = d[i]
    BY <1>1
  <2> QED BY <2>1, <2>2
<1> HIDE DEF a, c
<1>4. a = c
  BY <1>2, <1>3, SeqEqual
<1> QED BY <1>1, <1>4 DEF a, c, e

\* The bytes read of a frame, from its parser.
LEMMA BegunIn ==
  ASSUME NEW d \in Seq(Byte)
  PROVE  /\ Len(d) \in Nat /\ Specials(d) \in Nat
         /\ Begun(In(FALSE, d)) = 1 + Len(d) + Specials(d)
         /\ Begun(In(TRUE, d)) = 1 + Len(d) + Specials(d) + 1
<1>1. Len(d) \in Nat /\ Specials(d) \in Nat
  BY CostType
<1> QED BY <1>1 DEF Begun, In

\* What the byte at pos is to the reader.
LEMMA AddingByte ==
  ASSUME IInv, RefInv, pc \in {"body", "esc"}, pos <= Len(msg)
  PROVE  /\ pos \in 1..Len(msg) /\ msg[pos] \in Byte /\ msg \in Seq(Byte)
         /\ Len(msg) \in Nat
         /\ pc = "body" => Run[fill_cnt].p = In(FALSE, SubSeq(msg, 1, pos - 1))
         /\ pc = "esc" => Run[fill_cnt].p = In(TRUE, SubSeq(msg, 1, pos - 1))
         /\ SubSeq(msg, 1, pos - 1) \in Seq(Byte)
         /\ Len(SubSeq(msg, 1, pos - 1)) < BufSize
         /\ Append(SubSeq(msg, 1, pos - 1), msg[pos]) = SubSeq(msg, 1, pos)
         /\ Specials(SubSeq(msg, 1, pos - 1)) \in Nat
         /\ msg[pos] \in Special =>
              Specials(SubSeq(msg, 1, pos)) = Specials(SubSeq(msg, 1, pos - 1)) + 1
         /\ msg[pos] \notin Special =>
              Specials(SubSeq(msg, 1, pos)) = Specials(SubSeq(msg, 1, pos - 1))
<1>1. Adding /\ pc # "begin"
  BY DEF Adding
<1>2. msg \in Seq(Byte) /\ Len(msg) \in Nat /\ Len(msg) <= BufSize /\ pos \in 1..Len(msg)
  BY <1>1, AddingAt, CostBound
<1>3. /\ pc = "body" => Run[fill_cnt].p = In(FALSE, SubSeq(msg, 1, pos - 1))
      /\ pc = "esc" => Run[fill_cnt].p = In(TRUE, SubSeq(msg, 1, pos - 1))
  BY <1>1, AddingAt DEF In
<1>4. /\ msg[pos] \in Byte /\ SubSeq(msg, 1, pos - 1) \in Seq(Byte)
      /\ Len(SubSeq(msg, 1, pos - 1)) = pos - 1
      /\ Append(SubSeq(msg, 1, pos - 1), msg[pos]) = SubSeq(msg, 1, pos)
  BY <1>2, PrefixNext
<1>5. Len(SubSeq(msg, 1, pos - 1)) < BufSize
  <2>1. pos - 1 < BufSize
    BY <1>2, BufAssumption
  <2> QED BY <1>4, <2>1
<1>6. Specials(SubSeq(msg, 1, pos - 1)) \in Nat
  BY <1>4, CostType
<1>7. /\ msg[pos] \in Special =>
           Specials(SubSeq(msg, 1, pos)) = Specials(SubSeq(msg, 1, pos - 1)) + 1
      /\ msg[pos] \notin Special =>
           Specials(SubSeq(msg, 1, pos)) = Specials(SubSeq(msg, 1, pos - 1))
  <2> DEFINE d == SubSeq(msg, 1, pos - 1)
             e == SubSeq(msg, 1, pos)
             c == msg[pos]
  <2>1. /\ Specials(Append(d, c)) = Specials(d) + (IF c \in Special THEN 1 ELSE 0)
        /\ Append(d, c) = e /\ Specials(d) \in Nat
    BY <1>4, <1>6, SpecialsAppend
  <2> HIDE DEF d, e, c
  <2>2. /\ c \in Special => Specials(e) = Specials(d) + 1
        /\ c \notin Special => Specials(e) = Specials(d)
    BY <2>1
  <2> QED BY <2>2 DEF d, e, c
<1> QED BY <1>2, <1>3, <1>4, <1>5, <1>6, <1>7

\* A byte of the packet that stands for itself.
LEMMA AddPlainRef == ASSUME IInv, RefInv, AddPlain PROVE RefInv' /\ FifoStep
<1> DEFINE d == SubSeq(msg, 1, pos - 1)
           r == Run[fill_cnt]
           c == msg[pos]
<1>1. /\ pc = "body" /\ pos <= Len(msg) /\ c \notin Special /\ RINGBUF_Put(c)
      /\ pos' = pos + 1 /\ pc' = "body" /\ UNCHANGED <<last, caller, msg, proto, out>>
  BY DEF AddPlain
<1>2. /\ pos \in 1..Len(msg) /\ c \in Byte /\ Len(msg) \in Nat
      /\ r.p = In(FALSE, d) /\ d \in Seq(Byte) /\ Len(d) < BufSize
      /\ Append(d, c) = SubSeq(msg, 1, pos)
      /\ Specials(d) \in Nat
      /\ Specials(SubSeq(msg, 1, pos)) = Specials(d)
  BY <1>1, AddingByte
<1>3. Adding /\ r \in Found
  <2>1. Adding
    BY <1>1 DEF Adding
  <2> QED BY <2>1, AddingAt
<1>4. Len(Append(d, c)) = Len(d) + 1 /\ Len(d) \in Nat
  BY <1>2
<1> HIDE DEF r, c, d
<1>5. Parse(r, c) = [p |-> In(FALSE, Append(d, c)), found |-> r.found]
  BY <1>1, <1>2, <1>3, ParseBody
<1>6. Begun(Parse(r, c).p) = Begun(r.p) + 1
  <2>1. /\ Begun(Parse(r, c).p) = 1 + Len(Append(d, c)) + Specials(Append(d, c))
        /\ Begun(r.p) = 1 + Len(d) + Specials(d)
    <3>1. Append(d, c) \in Seq(Byte)
      BY <1>2
    <3>2. Parse(r, c).p = In(FALSE, Append(d, c))
      BY <1>5
    <3> QED BY <1>2, <3>1, <3>2, BegunIn
  <2>2. Specials(Append(d, c)) = Specials(d)
    BY <1>2
  <2> DEFINE x == Append(d, c)
  <2>3. /\ Begun(Parse(r, c).p) = 1 + Len(x) + Specials(x)
        /\ Len(x) = Len(d) + 1 /\ Specials(x) = Specials(d)
    BY <1>4, <2>1, <2>2
  <2>4. /\ Begun(r.p) = 1 + Len(d) + Specials(d)
        /\ Len(d) \in Nat /\ Specials(d) \in Nat
    BY <1>2, <1>4, <2>1
  <2> HIDE DEF x
  <2> QED BY <2>3, <2>4
<1>7. Parse(r, c) = [p |-> [isBegin |-> "yes", isEsc |-> pc' = "esc",
                            data |-> SubSeq(msg, 1, pos' - 1)], found |-> r.found]
  <2>1. pos' - 1 = pos
    BY <1>1, <1>2
  <2>2. SubSeq(msg, 1, pos' - 1) = Append(d, c)
    BY <1>2, <2>1
  <2> QED BY <1>1, <1>5, <2>2 DEF In
<1>8. pos' \in Nat /\ pos' <= Len(msg) + 1 /\ pc' \in {"body", "esc"}
  BY <1>1, <1>2
<1> QED BY <1>1, <1>2, <1>3, <1>6, <1>7, <1>8, PutRef DEF r

\* The 0x7D before a byte that needs it.
LEMMA AddEscRef == ASSUME IInv, RefInv, AddEsc PROVE RefInv' /\ FifoStep
<1> DEFINE d == SubSeq(msg, 1, pos - 1)
           r == Run[fill_cnt]
<1>1. /\ pc = "body" /\ pos <= Len(msg) /\ RINGBUF_Put(Esc)
      /\ pos' = pos /\ pc' = "esc" /\ UNCHANGED <<last, caller, msg, proto, out>>
  BY DEF AddEsc
<1>2. /\ pos \in 1..Len(msg) /\ Len(msg) \in Nat
      /\ r.p = In(FALSE, d) /\ d \in Seq(Byte) /\ Specials(d) \in Nat
  BY <1>1, AddingByte
<1>3. Adding /\ r \in Found
  <2>1. Adding
    BY <1>1 DEF Adding
  <2> QED BY <2>1, AddingAt
<1>4. Len(d) \in Nat
  BY <1>2
<1> HIDE DEF r, d
<1>5. Parse(r, Esc) = [p |-> In(TRUE, d), found |-> r.found]
  BY <1>2, <1>3, ParseEsc
<1>6. Begun(Parse(r, Esc).p) = Begun(r.p) + 1
  <2>1. /\ Begun(Parse(r, Esc).p) = 1 + Len(d) + Specials(d) + 1
        /\ Begun(r.p) = 1 + Len(d) + Specials(d)
    <3>1. Parse(r, Esc).p = In(TRUE, d)
      BY <1>5
    <3> QED BY <1>2, <3>1, BegunIn
  <2> QED BY <1>2, <1>4, <2>1
<1>7. Parse(r, Esc) = [p |-> [isBegin |-> "yes", isEsc |-> pc' = "esc",
                              data |-> SubSeq(msg, 1, pos' - 1)], found |-> r.found]
  BY <1>1, <1>5 DEF In, d
<1>8. pos' \in Nat /\ pos' <= Len(msg) + 1 /\ pc' \in {"body", "esc"} /\ Esc \in Byte
  BY <1>1, <1>2 DEF Esc, Byte
<1> QED BY <1>1, <1>3, <1>6, <1>7, <1>8, PutRef DEF r

\* The byte behind it, flipped.
LEMMA AddEscapedRef == ASSUME IInv, RefInv, AddEscaped PROVE RefInv' /\ FifoStep
<1> DEFINE d == SubSeq(msg, 1, pos - 1)
           r == Run[fill_cnt]
           c == Flip(msg[pos])
<1>1. /\ pc = "esc" /\ RINGBUF_Put(c)
      /\ pos' = pos + 1 /\ pc' = "body" /\ UNCHANGED <<last, caller, msg, proto, out>>
  BY DEF AddEscaped
<1>2. pos <= Len(msg) /\ msg[pos] \in Special
  BY <1>1 DEF IInv, PutsInv, Adding
<1>3. /\ pos \in 1..Len(msg) /\ Len(msg) \in Nat
      /\ r.p = In(TRUE, d) /\ d \in Seq(Byte) /\ Len(d) < BufSize
      /\ Append(d, msg[pos]) = SubSeq(msg, 1, pos) /\ msg[pos] \in Byte
      /\ Specials(d) \in Nat
      /\ Specials(SubSeq(msg, 1, pos)) = Specials(d) + 1
  BY <1>1, <1>2, AddingByte
<1>4. c \in Byte /\ c \notin Special /\ Flip(c) = msg[pos]
  BY <1>2, FlipTwice
<1>5. Adding /\ r \in Found
  <2>1. Adding
    BY <1>1 DEF Adding
  <2> QED BY <2>1, AddingAt
<1>6. Len(SubSeq(msg, 1, pos)) = Len(d) + 1 /\ Len(d) \in Nat
  <2> HIDE DEF d
  <2>1. Len(Append(d, msg[pos])) = Len(d) + 1 /\ Len(d) \in Nat
    BY <1>3
  <2> QED BY <1>3, <2>1
<1> HIDE DEF r, c, d
<1>7. Parse(r, c) = [p |-> In(FALSE, SubSeq(msg, 1, pos)), found |-> r.found]
  <2>1. Parse(r, c) = [p |-> In(FALSE, Append(d, Flip(c))), found |-> r.found]
    BY <1>3, <1>4, <1>5, ParseBody
  <2> QED BY <1>3, <1>4, <2>1
<1>8. Begun(Parse(r, c).p) = Begun(r.p) + 1
  <2> DEFINE e == SubSeq(msg, 1, pos)
  <2> HIDE DEF e
  <2>1. /\ Begun(Parse(r, c).p) = 1 + Len(e) + Specials(e)
        /\ Begun(r.p) = 1 + Len(d) + Specials(d) + 1
    <3>1. e \in Seq(Byte)
      <4>1. Append(d, msg[pos]) \in Seq(Byte)
        BY <1>3
      <4> QED BY <1>3, <4>1 DEF e
    <3>2. Parse(r, c).p = In(FALSE, e)
      BY <1>7 DEF e
    <3> QED BY <1>3, <3>1, <3>2, BegunIn
  <2>2. Len(e) = Len(d) + 1 /\ Specials(e) = Specials(d) + 1
    BY <1>3, <1>6 DEF e
  <2>3. Len(d) \in Nat /\ Specials(d) \in Nat
    BY <1>3, <1>6
  <2> HIDE DEF e
  <2> QED BY <2>1, <2>2, <2>3
<1>9. Parse(r, c) = [p |-> [isBegin |-> "yes", isEsc |-> pc' = "esc",
                            data |-> SubSeq(msg, 1, pos' - 1)], found |-> r.found]
  <2>1. pos' - 1 = pos
    BY <1>1, <1>3
  <2> QED BY <1>1, <1>7, <2>1 DEF In
<1>10. pos' \in Nat /\ pos' <= Len(msg) + 1 /\ pc' \in {"body", "esc"}
  BY <1>1, <1>2, <1>3
<1> QED BY <1>1, <1>4, <1>5, <1>8, <1>9, <1>10, PutRef DEF r

\* The end of the frame: the packet is accepted, at the tail, unchanged.
LEMMA AddEndRef == ASSUME IInv, IInv', RefInv, AddEnd PROVE RefInv' /\ FifoStep
<1> DEFINE r == Run[fill_cnt]
<1>1. /\ pc = "body" /\ pos > Len(msg) /\ RINGBUF_Put(End) /\ Return(Result(TRUE))
      /\ out' = out
  BY DEF AddEnd
<1>2. Adding
  BY <1>1 DEF Adding
<1>3. /\ caller \in Callers /\ proto = NoRead /\ fill_cnt \in Nat
      /\ msg \in Messages /\ pos \in 1..Len(msg) + 1
      /\ r \in Found /\ Queue = r.found
      /\ Queue \in Seq(Seq(Byte)) /\ Fifo!Used(Queue) \in Nat
      /\ Fifo!Used(Queue) + Begun(r.p) = fill_cnt
      /\ r.p = [isBegin |-> "yes", isEsc |-> pc = "esc", data |-> SubSeq(msg, 1, pos - 1)]
  BY <1>1, <1>2, AddingAt
<1>4. /\ msg \in Seq(Byte) /\ Len(msg) \in Nat /\ Specials(msg) \in Nat
      /\ Fifo!Cost(msg) = Len(msg) + 2 + Specials(msg)
  BY <1>3, CostBound
<1>5. r.p = In(FALSE, msg)
  <2>1. pos - 1 = Len(msg)
    BY <1>1, <1>3, <1>4
  <2>2. SubSeq(msg, 1, pos - 1) = msg
    BY <1>4, <2>1
  <2> QED BY <1>1, <1>3, <2>2 DEF In
<1> HIDE DEF r
<1>6. r.p.data = msg /\ Begun(r.p) = 1 + Len(msg) + Specials(msg)
  BY <1>4, <1>5, InType, BegunIn
<1>7. Parse(r, End) = [p |-> NoRead, found |-> Append(Queue, msg)]
  BY <1>3, <1>6 DEF Parse
<1>8. /\ Fifo!Used(Append(Queue, msg)) = Fifo!Used(Queue) + Fifo!Cost(msg)
      /\ Fifo!Used(Queue) + Fifo!Cost(msg) = fill_cnt + 1
  <2>1. Fifo!Used(Append(Queue, msg)) = Fifo!Used(Queue) + Fifo!Cost(msg)
    BY <1>3, <1>4, UsedAppend
  <2>2. Fifo!Used(Queue) + Fifo!Cost(msg) = fill_cnt + 1
    <3>1. /\ Fifo!Used(Queue) \in Nat /\ Len(msg) \in Nat /\ Specials(msg) \in Nat
          /\ Fifo!Used(Queue) + (1 + Len(msg) + Specials(msg)) = fill_cnt
      BY <1>3, <1>4, <1>6
    <3>2. Fifo!Cost(msg) = Len(msg) + 2 + Specials(msg)
      BY <1>4
    <3> QED BY <3>1, <3>2
  <2> QED BY <2>1, <2>2
<1>9. proto' = NoRead /\ pc' = "idle" /\ caller' = "none"
  BY <1>1 DEF Return
<1>10. TypeOK /\ RingInv /\ CountInv /\ End \in Byte /\ proto' = proto
  BY <1>3, <1>9 DEF IInv, RefInv, End, Byte
<1>11. /\ Run'[fill_cnt + 1] = [p |-> NoRead, found |-> Append(Queue, msg)]
       /\ Queue' = Append(Queue, msg)
  BY <1>1, <1>7, <1>10, PutRun DEF r
<1>12. CountInv'
  <2>1. Weight(Run'[fill_cnt + 1]) = fill_cnt + 1
    <3>1. Weight(Run'[fill_cnt + 1]) = Fifo!Used(Append(Queue, msg)) + Begun(NoRead)
      BY <1>11 DEF Weight
    <3> QED BY <1>3, <1>8, <3>1, NoneBegun
  <2>2. Weight(Run[fill_cnt]) = fill_cnt
    BY <1>3 DEF Weight, r
  <2> QED BY <1>1, <1>10, <2>1, <2>2, PutCount
<1>13. ControlInv' /\ PartInv' /\ DropInv'
  BY <1>9 DEF ControlInv, PartInv, DropInv, Adding, Reading, Callers
<1>14. Fifo!Accept
  <2>1. fill_cnt + 1 <= Size
    BY <1>1, <1>3, RingAssumption DEF RINGBUF_Put
  <2>2. Fifo!HasRoom(<<msg>>[1])
    BY <1>8, <2>1 DEF Fifo!HasRoom
  <2> QED BY <1>1, <1>3, <1>9, <1>11, <2>2 DEF Fifo!Accept, Callers
<1> QED BY <1>12, <1>13, <1>14 DEF RefInv, FifoStep, Fifo!Next

\* No room: the pointers are put back, and the queue is what it was before.
LEMMA PutsFailsRef == ASSUME IInv, IInv', RefInv, PutsFails PROVE RefInv' /\ FifoStep
<1>1. /\ Adding /\ fill_cnt >= Size
      /\ p_r' = last.p_r /\ p_w' = last.p_w /\ fill_cnt' = last.fill_cnt
      /\ buf' = buf /\ out' = out
      /\ \/ caller # "Subscribe" /\ Return(Result(TRUE))
         \/ caller = "Subscribe" /\ StartGets /\ UNCHANGED <<caller, msg, pos, ret>>
  BY DEF PutsFails
<1>2. /\ last.fill_cnt \in 0..fill_cnt /\ fill_cnt \in Nat /\ p_r' = p_r
      /\ fill_cnt = Size /\ TypeOK /\ TypeOK' /\ CountInv
  <2>1. last.p_r = p_r /\ last.fill_cnt <= fill_cnt
    BY <1>1 DEF IInv, PutsInv
  <2>2. TypeOK /\ TypeOK' /\ CountInv
    BY DEF IInv, RefInv
  <2>3. last.fill_cnt \in Nat /\ fill_cnt \in 0..Size /\ Size \in Nat
    BY <2>2, RingAssumption DEF TypeOK
  <2> QED BY <1>1, <2>1, <2>2, <2>3
<1>3. \A i \in 0..fill_cnt' - 1 : Held'[i] = Held[i]
  BY <1>1, <1>2 DEF Held, Wrap
<1>4. proto = NoRead /\ proto' \in {NoRead, FreshParser}
  BY <1>1, AddingAt DEF Return, StartGets
<1>5. fill_cnt' > 0 => Held[0] = Begin
  <2>1. ~Reading
    BY <1>1 DEF Adding, Reading
  <2> QED BY <1>1, <1>2, <2>1 DEF IInv, WellFramed
<1>6. CountInv' /\ \A i \in 0..fill_cnt' : Run'[i].found = Run[i].found
  <2>1. fill_cnt' <= fill_cnt
    BY <1>1, <1>2
  <2> QED BY <1>2, <1>3, <1>4, <1>5, <2>1, SameRun
<1>7. Queue' = Queue
  <2>1. RunOK'
    BY <1>2, RunType, PTL
  <2>2. Queue' = Run'[fill_cnt'].found
    BY <2>1 DEF RunOK
  <2>3. Queue = Run[last.fill_cnt].found
    BY <1>1, AddingAt DEF RefInv, PartInv
  <2> QED BY <1>1, <1>2, <1>6, <2>2, <2>3
<1>8. Fifo!Used(Queue) + Fifo!Cost(msg) > Size
  <2>1. /\ Fifo!Used(Queue) \in Nat
        /\ Fifo!Used(Queue) + Begun(Run[fill_cnt].p) = fill_cnt
        /\ Begun(Run[fill_cnt].p) < Fifo!Cost(msg)
    BY <1>1, AddingAt, PartLess
  <2>2. Begun(Run[fill_cnt].p) \in Nat /\ Fifo!Cost(msg) \in Nat
    <3>1. msg \in Messages /\ Run[fill_cnt] \in Found
      BY <1>1, AddingAt
    <3>2. msg \in Seq(Byte)
      BY <3>1, CostBound
    <3> QED BY <3>1, <3>2, CostType, WeightType
  <2> QED BY <1>2, <2>1, <2>2
<1>9. caller \in Callers /\ msg \in Messages
  BY <1>1, AddingAt
<1>10. CASE caller # "Subscribe" /\ Return(Result(TRUE))
  <2>1. ControlInv' /\ PartInv' /\ DropInv'
    BY <1>10 DEF Return, ControlInv, PartInv, DropInv, Adding, Reading, Callers
  <2>2. ~Fifo!HasRoom(<<msg>>[1])
    <3>1. Fifo!Used(Queue) \in Nat /\ Fifo!Cost(msg) \in Nat
      <4>1. msg \in Seq(Byte)
        BY <1>9, CostBound
      <4> QED BY <1>1, <4>1, AddingAt, CostType
    <3> QED BY <1>8, <3>1, RingAssumption DEF Fifo!HasRoom
  <2>3. Fifo!GiveUp
    BY <1>1, <1>7, <1>9, <1>10, <2>2 DEF Fifo!GiveUp, Return, Callers
  <2> QED BY <1>6, <2>1, <2>3 DEF RefInv, FifoStep, Fifo!Next
<1>11. CASE caller = "Subscribe" /\ StartGets /\ UNCHANGED <<caller, msg, pos, ret>>
  <2>1. ControlInv' /\ PartInv'
    BY <1>9, <1>11 DEF StartGets, ControlInv, PartInv, Adding, Reading, Callers
  <2>2. DropInv'
    BY <1>7, <1>8, <1>11 DEF DropInv
  <2>3. Pending' = Pending
    BY <1>11 DEF Pending
  <2> QED BY <1>1, <1>6, <1>7, <2>1, <2>2, <2>3 DEF RefInv, FifoStep
<1> QED BY <1>1, <1>10, <1>11

-----------------------------------------------------------------------------
(* The steps of PROTO_ParseRb.                                             *)

\* The reader does not test an isBegin that is unset: one outcome.
LEMMA ReadOne ==
  ASSUME IInv, ParseByte
  PROVE  Run[1] = [p |-> proto', found |-> <<>>]
<1> DEFINE b == Held[0]
<1>1. /\ Reading /\ b # End /\ proto' \in PROTO_ParseByte(proto, b) /\ fill_cnt > 0
  BY DEF ParseByte, Reading
<1>2. RunOK
  BY RunType DEF IInv
<1>3. /\ proto \in Parser /\ Run[0] = [p |-> proto, found |-> <<>>] /\ Run[0] \in Found
      /\ b \in Byte /\ Run[1] = Parse(Run[0], b)
  <2>1. 0 \in 0..fill_cnt - 1 /\ 0 \in 0..fill_cnt /\ 0 + 1 = 1
    BY <1>1, <1>2 DEF RunOK
  <2> QED BY <1>2, <2>1 DEF RunOK
<1>4. proto.isBegin = "yes" \/ b = Begin
  BY <1>1, <1>3 DEF IInv, GetsInv, Parser
<1> HIDE DEF b
<1>5. PROTO_ParseByte(proto, b) = {proto'}
  <2> DEFINE x == IF Len(proto.data) < BufSize
                    THEN Append(proto.data, IF proto.isEsc THEN Flip(b) ELSE b)
                    ELSE proto.data
             s == [proto EXCEPT !.data = x, !.isEsc = FALSE]
             e == [proto EXCEPT !.isEsc = TRUE]
  <2>1. PROTO_ParseByte(proto, b) =
          CASE b = Esc -> {e}
            [] b = Begin -> {Opened}
            [] OTHER -> (IF proto.isBegin = "no" THEN {} ELSE {s})
                          \cup (IF proto.isBegin = "yes" THEN {} ELSE {proto})
    BY DEF PROTO_ParseByte, Opened
  <2> HIDE DEF s, e
  <2>2. \E q : PROTO_ParseByte(proto, b) = {q}
    <3>1. CASE b = Esc
      BY <2>1, <3>1 DEF Esc, Begin
    <3>2. CASE b = Begin
      BY <2>1, <3>2 DEF Esc, Begin
    <3>3. CASE b # Esc /\ b # Begin
      <4>1. PROTO_ParseByte(proto, b) = {s} \cup {}
        BY <1>4, <2>1, <3>3
      <4> QED BY <4>1
    <3> QED BY <3>1, <3>2, <3>3
  <2> QED BY <1>1, <2>2 DEF b
<1>6. Parse(Run[0], b) = [p |-> proto', found |-> <<>>]
  <2>1. b # End /\ Run[0].p = proto /\ Run[0].found = <<>>
    BY <1>1, <1>3
  <2>2. PROTO_ParseByte(Run[0].p, b) = {proto'}
    BY <1>5, <2>1
  <2>3. Parse(Run[0], b) = [p |-> proto', found |-> Run[0].found]
    BY <1>3, <2>1, <2>2, ParseOne
  <2> QED BY <2>1, <2>3
<1> QED BY <1>3, <1>6

\* PROTO_ParseRb reads on: the queue is the same, whatever it has read of it.
LEMMA ParseByteRef == ASSUME IInv, IInv', RefInv, ParseByte PROVE RefInv' /\ FifoStep
<1>1. /\ pc = "get" /\ RINGBUF_Get /\ UNCHANGED <<last, pc, caller, msg, pos, ret, out>>
  BY DEF ParseByte
<1>2. Run[1] = [p |-> proto', found |-> <<>>]
  BY ReadOne
<1>3. proto' = Run[1].p /\ Run[1].found = <<>>
  BY <1>2
<1>4. TypeOK /\ TypeOK' /\ RingInv /\ CountInv
  BY DEF IInv, RefInv
<1>5. CountInv'
  BY <1>1, <1>3, <1>4, GetCount
<1>6. Queue' = Queue
  <2>1. Queue = <<>> \o Queue'
    BY <1>1, <1>3, <1>4, GetRun
  <2>2. Queue' \in Seq(Seq(Byte))
    <3>1. RunOK'
      BY <1>4, RunType, PTL
    <3> QED BY <3>1 DEF RunOK
  <2> QED BY <2>1, <2>2
<1>7. ControlInv' /\ PartInv'
  BY <1>1 DEF RefInv, ControlInv, PartInv, Reading, Adding, Callers
<1>8. DropInv'
  BY <1>1, <1>6 DEF RefInv, DropInv, Reading
<1>9. Pending' = Pending
  BY <1>1 DEF Pending
<1> QED BY <1>1, <1>5, <1>6, <1>7, <1>8, <1>9 DEF RefInv, FifoStep

\* The end of a frame: the oldest packet leaves the queue, to MQTT_Task or
\* dropped for the packet that needs the room.
LEMMA ParseEndRef == ASSUME IInv, IInv', RefInv, ParseEnd PROVE RefInv' /\ FifoStep
<1>1. /\ Reading /\ Held[0] = End /\ RINGBUF_Get /\ fill_cnt > 0 /\ proto' = NoRead
  BY DEF ParseEnd, Reading, Return, StartPuts
<1>2. TypeOK /\ TypeOK' /\ RingInv /\ CountInv /\ RunOK /\ RunOK'
  <2>1. TypeOK /\ TypeOK' /\ RingInv /\ CountInv
    BY DEF IInv, RefInv
  <2> QED BY <2>1, RunType, PTL
<1>3. Run[1] = [p |-> NoRead, found |-> <<proto.data>>]
  <2>1. 0 \in 0..fill_cnt - 1 /\ 0 + 1 = 1
    BY <1>1, <1>2 DEF RunOK
  <2>2. Run[1] = Parse(Run[0], End) /\ Run[0] = [p |-> proto, found |-> <<>>]
    BY <1>1, <1>2, <2>1 DEF RunOK
  <2>3. Parse(Run[0], End) = [p |-> NoRead, found |-> Append(<<>>, proto.data)]
    BY <2>2 DEF Parse
  <2> QED BY <2>2, <2>3
<1>4. proto' = Run[1].p /\ Run[1].found = <<proto.data>> /\ proto.data \in Seq(Byte)
  <2>1. proto \in Parser
    BY <1>2 DEF RunOK
  <2> QED BY <1>1, <1>3, <2>1 DEF Parser
<1>5. CountInv'
  BY <1>1, <1>2, <1>4, GetCount
<1>6. /\ Queue # <<>> /\ Head(Queue) = proto.data /\ Tail(Queue) = Queue'
  <2>1. Queue = <<proto.data>> \o Queue'
    BY <1>1, <1>2, <1>4, GetRun
  <2>2. Queue' \in Seq(Seq(Byte))
    BY <1>2 DEF RunOK
  <2> DEFINE q == Queue'
             d == proto.data
  <2> HIDE DEF q, d
  <2>3. q \in Seq(Seq(Byte)) => /\ <<d>> \o q # <<>>
                                /\ Head(<<d>> \o q) = d /\ Tail(<<d>> \o q) = q
    OBVIOUS
  <2> QED BY <2>1, <2>2, <2>3 DEF q, d
<1>7. CASE caller = "Task" /\ Return(Result(TRUE)) /\ out' = <<proto.data>> /\ UNCHANGED last
  <2>1. ControlInv' /\ PartInv' /\ DropInv'
    BY <1>7 DEF Return, ControlInv, PartInv, DropInv, Adding, Reading, Callers
  <2>2. Fifo!Take
    BY <1>6, <1>7 DEF Fifo!Take, Return
  <2> QED BY <1>5, <2>1, <2>2 DEF RefInv, FifoStep, Fifo!Next
<1>8. ASSUME caller \in {"Publish", "Subscribe"}
      PROVE  /\ msg \in Messages /\ ~Fifo!HasRoom(<<msg>>[1])
  <2>1. msg \in Messages /\ Fifo!Used(Queue) + Fifo!Cost(msg) > Size
    BY <1>1, <1>8 DEF RefInv, ControlInv, DropInv, Callers
  <2>2. Fifo!Used(Queue) \in Nat /\ Fifo!Cost(msg) \in Nat
    <3>1. msg \in Seq(Byte) /\ Queue \in Seq(Seq(Byte))
      BY <1>2, <2>1, CostBound DEF RunOK
    <3> QED BY <3>1, CostType, UsedAppend
  <2> QED BY <2>1, <2>2, RingAssumption DEF Fifo!HasRoom
<1>9. CASE caller = "Publish" /\ pc' = "fit" /\ proto' = NoRead
             /\ UNCHANGED <<last, caller, msg, pos, ret, out>>
  <2>1. ControlInv' /\ PartInv' /\ DropInv'
    BY <1>8, <1>9 DEF ControlInv, PartInv, DropInv, Adding, Reading, Callers
  <2>2. Fifo!DropOldest
    BY <1>6, <1>8, <1>9 DEF Fifo!DropOldest
  <2> QED BY <1>5, <2>1, <2>2 DEF RefInv, FifoStep, Fifo!Next
<1>10. CASE caller = "Subscribe" /\ StartPuts(msg) /\ UNCHANGED <<caller, ret, out>>
  <2>1. ControlInv' /\ DropInv'
    BY <1>8, <1>10 DEF StartPuts, ControlInv, DropInv, Adding, Reading, Callers
  <2>2. PartInv'
    <3>1. Len(msg) \in Nat
      BY <1>8, <1>10, CostBound
    <3>2. last'.fill_cnt = fill_cnt' /\ pos' = 1 /\ msg' = msg /\ pc' = "begin"
      BY <1>10 DEF StartPuts
    <3> QED BY <3>1, <3>2 DEF PartInv
  <2>3. msg' = msg
    BY <1>10 DEF StartPuts
  <2>4. Fifo!DropOldest
    BY <1>6, <1>8, <1>10, <2>3 DEF Fifo!DropOldest
  <2> QED BY <1>5, <2>1, <2>2, <2>4 DEF RefInv, FifoStep, Fifo!Next
<1> QED BY <1>7, <1>9, <1>10 DEF ParseEnd

-----------------------------------------------------------------------------
\* At reset the ring is empty.
LEMMA InitRef == Init => RefInv /\ Fifo!Init
<1> SUFFICES ASSUME Init PROVE RefInv /\ Fifo!Init
  OBVIOUS
<1>1. RunOK
  BY InitIInv, RunType DEF IInv
<1>2. fill_cnt = 0 /\ proto = NoRead /\ caller = "none" /\ pc = "idle" /\ out = <<>>
  BY DEF Init
<1>3. Run[0] = [p |-> NoRead, found |-> <<>>] /\ Queue = <<>>
  BY <1>1, <1>2 DEF RunOK
<1>4. CountInv
  <2>1. Weight(Run[0]) = Begun(proto) + 0
    BY <1>2, <1>3, UsedEmpty, NoneBegun DEF Weight
  <2> QED BY <1>2, <2>1 DEF CountInv
<1>5. ControlInv /\ PartInv /\ DropInv
  BY <1>2 DEF ControlInv, PartInv, DropInv, Adding, Reading, Callers
<1>6. Fifo!Init
  BY <1>2, <1>3 DEF Fifo!Init
<1> QED BY <1>4, <1>5, <1>6 DEF RefInv

\* Every step of the firmware is a step of the FIFO, or none.
LEMMA NextRef == IInv /\ IInv' /\ RefInv /\ [Next]_vars => RefInv' /\ FifoStep
<1> SUFFICES ASSUME IInv, IInv', RefInv, [Next]_vars PROVE RefInv' /\ FifoStep
  OBVIOUS
<1>1. ASSUME NEW m \in Messages,
             MQTT_Publish(m) \/ MQTT_Subscribe(m) \/ mqtt_tcpclient_recv(m)
      PROVE  RefInv' /\ FifoStep
  BY <1>1, PublishRef, SubscribeRef
<1>2. CASE MQTT_Task \/ Fit \/ GetsFails
  BY <1>2, TaskRef, FitRef, GetsFailsRef
<1>3. CASE AddBegin \/ AddPlain \/ AddEsc \/ AddEscaped \/ AddEnd \/ PutsFails
  BY <1>3, AddBeginRef, AddPlainRef, AddEscRef, AddEscapedRef, AddEndRef, PutsFailsRef
<1>4. CASE ParseByte \/ ParseEnd
  BY <1>4, ParseByteRef, ParseEndRef
<1>5. CASE UNCHANGED vars
  <2>1. Held' = Held
    BY <1>5, SameHeld DEF vars, ring
  <2>2. UNCHANGED <<fill_cnt, last, pc, caller, msg, pos, proto, out>>
    BY <1>5 DEF vars
  <2>3. Run' = Run /\ Queue' = Queue
    BY <2>1, <2>2 DEF Run, Queue
  <2>4. RefInv'
    BY <2>2, <2>3 DEF RefInv, ControlInv, CountInv, PartInv, DropInv, Adding, Reading
  <2>5. UNCHANGED <<Queue, Pending, out>>
    BY <2>2, <2>3 DEF Pending
  <2> QED BY <2>4, <2>5 DEF FifoStep
<1> QED BY <1>1, <1>2, <1>3, <1>4, <1>5 DEF Next, Step

\* Publishing, subscribing, answering and sending in any order, MQTT_Task sends the
\* packets that QUEUE_Puts accepted, whole, unchanged and in order, and one is
\* dropped only from the head and only while there is no room for the new one.
THEOREM QueueIsFifo == Spec => ImplementsFifo
<1>1. Init => IInv /\ RefInv /\ Fifo!Init
  BY InitIInv, InitRef
<1>2. IInv /\ [Next]_vars => IInv'
  BY NextIInv
<1>3. IInv /\ IInv' /\ RefInv /\ [Next]_vars => RefInv' /\ [Fifo!Next]_(Fifo!fifoVars)
  <2>1. FifoStep => [Fifo!Next]_(Fifo!fifoVars)
    BY DEF FifoStep, Fifo!fifoVars, Pending, Callers
  <2> QED BY <2>1, NextRef
<1> QED BY <1>1, <1>2, <1>3, PTL DEF Spec, ImplementsFifo, Fifo!Spec
=============================================================================
