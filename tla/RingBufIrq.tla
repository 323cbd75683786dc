----------------------------- MODULE RingBufIrq ------------------------------
(***************************************************************************)
(* The ring of the outgoing queue with the two levels that use it: tasks,  *)
(* and the interrupts that publish (storeIRQ and pcf8885func, by way of    *)
(* send_paquet_sensor and MQTT_Publish).  MqttQueue.tla takes RINGBUF_Put  *)
(* and RINGBUF_Get for one step each; here a step is one access to what    *)
(* the levels share, which is declared volatile: fill_cnt++ reads and then *)
(* writes, and so does p_w++.                                              *)
(*                                                                         *)
(* A task rests while the interrupt runs; no interrupt interrupts another. *)
(***************************************************************************)
EXTENDS Integers

CONSTANTS Size,       \* size of the ring
          MaxCalls    \* bound: calls of each level

VARIABLES
  fill_cnt, p_r, p_w,   \* RINGBUF, the pointers counted from p_o
  pc, call,             \* per level: where it is, in which function
  reg, at,              \* per level: the count and the pointer it has read
  calls,                \* per level: calls that began
  stored                \* history: calls of Put less calls of Get that succeeded

ring == <<fill_cnt, p_r, p_w>>
vars == <<ring, pc, call, reg, at, calls, stored>>

Levels == {"task", "interrupt"}

\* The level that runs, and has come to this place of a function.
At(v, f, place) == /\ pc[v] = place /\ call[v] = f
                   /\ v = "task" => pc["interrupt"] = "out"

Goes(v, place) == pc' = [pc EXCEPT ![v] = place]

Call(v, f) ==
  /\ pc[v] = "out"
  /\ v = "task" => pc["interrupt"] = "out"
  /\ calls[v] < MaxCalls /\ calls' = [calls EXCEPT ![v] = @ + 1]
  /\ call' = [call EXCEPT ![v] = f]
  /\ Goes(v, "test")
  /\ UNCHANGED <<ring, reg, at, stored>>

\* The return of -1 when the ring is full, or empty.
Test(v, f) ==
  /\ At(v, f, "test")
  /\ Goes(v, IF IF f = "Put" THEN fill_cnt >= Size ELSE fill_cnt <= 0
             THEN "out" ELSE "read count")
  /\ UNCHANGED <<ring, call, reg, at, calls, stored>>

ReadCount(v, f) ==
  /\ At(v, f, "read count")
  /\ reg' = [reg EXCEPT ![v] = fill_cnt]
  /\ Goes(v, "write count")
  /\ UNCHANGED <<ring, call, at, calls, stored>>

WriteCount(v, f) ==
  /\ At(v, f, "write count")
  /\ fill_cnt' = IF f = "Put" THEN reg[v] + 1 ELSE reg[v] - 1
  /\ Goes(v, "read pointer")
  /\ UNCHANGED <<p_r, p_w, call, reg, at, calls, stored>>

ReadPointer(v, f) ==
  /\ At(v, f, "read pointer")
  /\ at' = [at EXCEPT ![v] = IF f = "Put" THEN p_w ELSE p_r]
  /\ Goes(v, "write pointer")
  /\ UNCHANGED <<ring, call, reg, calls, stored>>

\* The character itself is not modelled.
WritePointer(v, f) ==
  /\ At(v, f, "write pointer")
  /\ IF f = "Put" THEN p_w' = at[v] + 1 /\ UNCHANGED p_r
                  ELSE p_r' = at[v] + 1 /\ UNCHANGED p_w
  /\ Goes(v, "wrap")
  /\ UNCHANGED <<fill_cnt, call, reg, at, calls, stored>>

Wrapped(p) == IF p >= Size THEN 0 ELSE p

Wrap(v, f) ==
  /\ At(v, f, "wrap")
  /\ IF f = "Put" THEN p_w' = Wrapped(p_w) /\ UNCHANGED p_r
                  ELSE p_r' = Wrapped(p_r) /\ UNCHANGED p_w
  /\ stored' = IF f = "Put" THEN stored + 1 ELSE stored - 1
  /\ Goes(v, "out")
  /\ UNCHANGED <<fill_cnt, call, reg, at, calls>>

Init ==
  /\ fill_cnt = 0 /\ p_r = 0 /\ p_w = 0 /\ stored = 0
  /\ pc = [v \in Levels |-> "out"] /\ call = [v \in Levels |-> "Put"]
  /\ reg = [v \in Levels |-> 0] /\ at = [v \in Levels |-> 0]
  /\ calls = [v \in Levels |-> 0]

Next == \E v \in Levels, f \in {"Put", "Get"} :
          \/ Call(v, f) \/ Test(v, f) \/ ReadCount(v, f) \/ WriteCount(v, f)
          \/ ReadPointer(v, f) \/ WritePointer(v, f) \/ Wrap(v, f)

Spec == Init /\ [][Next]_vars

\* "this should be atomic operation" (ringbuf.c:37): once no level is in a call,
\* fill_cnt is the number of bytes that were put and not taken.
CountIsAtomic == (\A v \in Levels : pc[v] = "out") => fill_cnt = stored
=============================================================================
