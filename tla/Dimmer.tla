------------------------------- MODULE Dimmer -------------------------------
(***************************************************************************)
(* The dimmer of user_main.c (build TRIACK without HALF_SIN): a triac      *)
(* that, once on, conducts until the mains crosses zero.  The detector     *)
(* gives one interrupt each 20 ms, ZeroCrossIRQ; it disables its pin and   *)
(* starts the hardware timer, which calls timerZeroCross at the crossing   *)
(* and again 10 ms later, for the one the detector does not see.  At each  *)
(* crossing the phase is started: timerEnableTriack after a delay that     *)
(* decreases with the power.                                               *)
(*                                                                         *)
(* The two interrupts have the same level and do not nest; a command runs  *)
(* at task level and makes one access to what they share.  The interrupt   *)
(* of the hardware timer is one action for each slot of its table.  Edges  *)
(* come at any time: noise, a missing mains and another frequency are all  *)
(* covered.  temp_from_zero_cross and the samples only measure, and are    *)
(* left out.                                                               *)
(***************************************************************************)
EXTENDS HwTimer

CONSTANTS Levels    \* bound: the levels that are asked for, data[1]

ASSUME DimmerAssumption ==
  /\ NB_MAX_CALLBACK_TIME \in Nat /\ NB_MAX_CALLBACK_TIME >= 3
  /\ us \in 1..500
  /\ Levels \subseteq 0..255

VARIABLES
  tab, l,                    \* tab_callback_time; the slot the interrupt is at, or 0
  puissance_triac, timer_triack_on,
  TLI4970_is_enable,
  triac,                     \* BIT_TRIAC is set
  irq,                       \* the pin of the detector may interrupt
  since,                     \* history: ticks since the last ZeroCross
  applied                    \* history: the power it applied, none yet is -1

vars == <<tab, l, puissance_triac, timer_triack_on, TLI4970_is_enable, triac,
          irq, since, applied>>

PUISSANCE_MAX == 100000

\* Faulty: only 100 is full power, and a level past it has a negative delay.
PuissanceUnclamped(level) ==
  IF level = 0 THEN 0
  ELSE IF level = 100 THEN PUISSANCE_MAX ELSE level * 83 + 900

Puissance(level) ==
  IF level = 0 THEN 0
  ELSE IF level >= 100 THEN PUISSANCE_MAX ELSE level * 83 + 900

-----------------------------------------------------------------------------
(* Commands: mqttDataCb.                                                   *)

Set ==
  /\ l = 0
  /\ \E level \in Levels : puissance_triac' = Puissance(level)
  /\ UNCHANGED <<tab, l, timer_triack_on, TLI4970_is_enable, triac, irq, since,
                 applied>>

Toggle ==
  /\ l = 0
  /\ puissance_triac' = IF puissance_triac # 0 THEN 0 ELSE PUISSANCE_MAX
  /\ UNCHANGED <<tab, l, timer_triack_on, TLI4970_is_enable, triac, irq, since,
                 applied>>

-----------------------------------------------------------------------------
(* Callbacks of the hardware timer; t is the table they find.              *)

\* Faulty: the flag is cleared and the callback stays.
StoppedPhaseLeft(t) == t

StoppedPhase(t) ==
  IF timer_triack_on THEN timer_remove_callback(t, "timerEnableTriack") ELSE t

\* Faulty: timer_triack_on is not tested.
StartedPhaseTwice(t) ==
  timer_add_callback(t, 10000 - puissance_triac, "timerEnableTriack")

StartedPhase(t) ==
  IF timer_triack_on
  THEN timer_change(t, 10000 - puissance_triac, "timerEnableTriack")
  ELSE timer_add_callback(t, 10000 - puissance_triac, "timerEnableTriack")

FullPower(t) ==
  /\ puissance_triac >= PUISSANCE_MAX
  /\ tab' = StoppedPhase(t) /\ timer_triack_on' = FALSE /\ triac' = TRUE

PartPower(t) ==
  /\ puissance_triac > 0 /\ puissance_triac < PUISSANCE_MAX
  /\ tab' = StartedPhase(t) /\ timer_triack_on' = TRUE /\ triac' = FALSE

NoPower(t) ==
  /\ puissance_triac <= 0
  /\ tab' = StoppedPhase(t) /\ timer_triack_on' = FALSE /\ triac' = FALSE

ZeroCross(t) ==
  /\ TLI4970_is_enable' = IF puissance_triac <= 0 THEN 0
                          ELSE IF TLI4970_is_enable = 0 THEN 1
                          ELSE TLI4970_is_enable
  /\ FullPower(t) \/ PartPower(t) \/ NoPower(t)
  /\ since' = 0 /\ applied' = puissance_triac

timerZeroCross(t) ==
  /\ irq' = TRUE
  /\ ZeroCross(timer_change(t, 10000, "timerZeroCross"))

timerEnableTriack(t) ==
  /\ tab' = t /\ triac' = TRUE
  /\ UNCHANGED <<timer_triack_on, TLI4970_is_enable, irq, since, applied>>

\* Without a connection nothing is sampled.
timerMesureSampleAdc(t) ==
  /\ tab' = t
  /\ \E connected \in BOOLEAN :
       TLI4970_is_enable' = IF connected /\ TLI4970_is_enable = 1 THEN 2
                            ELSE TLI4970_is_enable
  /\ UNCHANGED <<timer_triack_on, triac, irq, since, applied>>

-----------------------------------------------------------------------------
(* Interrupts.                                                             *)

\* timer_tim1_intr_handler begins.
Tick ==
  /\ l = 0
  /\ l' = 1 /\ since' = since + 1
  /\ UNCHANGED <<tab, puissance_triac, timer_triack_on, TLI4970_is_enable, triac,
                 irq, applied>>

Skip ==
  /\ tab[l].call_back = NULL
  /\ UNCHANGED <<tab, timer_triack_on, TLI4970_is_enable, triac, irq, since, applied>>

Count ==
  /\ tab[l].call_back # NULL /\ ~Expires(tab, l)
  /\ tab' = Counted(tab, l)
  /\ UNCHANGED <<timer_triack_on, TLI4970_is_enable, triac, irq, since, applied>>

Fire ==
  /\ tab[l].call_back # NULL /\ Expires(tab, l)
  /\ \/ tab[l].call_back = "timerZeroCross" /\ timerZeroCross(Counted(tab, l))
     \/ tab[l].call_back = "timerEnableTriack" /\ timerEnableTriack(Counted(tab, l))
     \/ tab[l].call_back = "timerMesureSampleAdc"
        /\ timerMesureSampleAdc(Counted(tab, l))

Slot ==
  /\ l \in Slots
  /\ Skip \/ Count \/ Fire
  /\ l' = NextSlot(l)
  /\ UNCHANGED puissance_triac

\* Faulty: the pin is left enabled, and noise starts the delay again.
ZeroCrossIRQNoisy ==
  /\ l = 0 /\ irq
  /\ tab' = timer_change(tab, 9800, "timerZeroCross")
  /\ UNCHANGED <<l, puissance_triac, timer_triack_on, TLI4970_is_enable, triac, irq,
                 since, applied>>

ZeroCrossIRQ ==
  /\ l = 0 /\ irq
  /\ irq' = FALSE
  /\ tab' = timer_change(tab, 9800, "timerZeroCross")
  /\ UNCHANGED <<l, puissance_triac, timer_triack_on, TLI4970_is_enable, triac,
                 since, applied>>

-----------------------------------------------------------------------------

\* The end of user_init.
Init ==
  /\ tab = timer_add_callback(timer_add_callback(timer_init, 20001, "timerZeroCross"),
                              500, "timerMesureSampleAdc")
  /\ l = 0 /\ puissance_triac = 0 /\ timer_triack_on = FALSE
  /\ TLI4970_is_enable = 0 /\ triac = FALSE /\ irq = TRUE
  /\ since = 0 /\ applied = -1

Next == Set \/ Toggle \/ Tick \/ Slot \/ ZeroCrossIRQ

Spec == Init /\ [][Next]_vars

-----------------------------------------------------------------------------
(* Properties.                                                             *)

Callbacks == {"timerZeroCross", "timerMesureSampleAdc", "timerEnableTriack"}

\* Shapes of the variables of user_main.c and timer.c; the index of the loop of
\* timer_tim1_intr_handler stays in the table.
TypeOK ==
  /\ tab \in [Slots -> [call_back : Callbacks \cup {NULL}, period : Int, cpt : Int]]
  /\ l \in {0} \cup Slots
  /\ puissance_triac \in Int /\ applied \in Int /\ since \in Nat
  /\ TLI4970_is_enable \in 0..2
  /\ timer_triack_on \in BOOLEAN /\ triac \in BOOLEAN /\ irq \in BOOLEAN

\* timer_add_callback and timer_remove_callback of ZeroCross keep to what
\* timer_triack_on says: the phase is in the table once when it is set and not at
\* all otherwise, and the crossing and the samples are never pushed out.
TableMatchesFlag ==
  /\ \A k, m \in Slots : tab[k].call_back = tab[m].call_back => k = m \/ tab[k].call_back = NULL
  /\ timer_triack_on <=> Having(tab, "timerEnableTriack") # {}
  /\ Having(tab, "timerZeroCross") # {}
  /\ Having(tab, "timerMesureSampleAdc") # {}

\* The interrupt decrements before it compares with 0: a counter of 0 or less
\* would not expire for days.  No level, and no change, gives one.
CountersRun == \A k \in Slots : tab[k].call_back # NULL => tab[k].cpt >= 1

Delay(power) == (10000 - power) \div us

\* Between two crossings the triac is on from the delay of the power that was
\* applied at the first, to the tick, whatever was commanded since: never in the
\* wrong half wave, never late, even when the phase was just added to the table
\* that the interrupt is walking through.
PhaseAngle ==
  l = 0 => CASE applied >= PUISSANCE_MAX -> triac
             [] applied <= 0 -> ~triac
             [] OTHER -> triac <=> since >= Delay(applied) - 1

\* However often the detector interrupts, or never, ZeroCross comes at the latest
\* 10 + 9.8 ms after the last, so that a command is applied and the triac turned
\* off; the first has the time of user_init.
BoundedGap ==
  since <= (IF applied = -1 THEN 20001 ELSE 10000) \div us + 9800 \div us
=============================================================================
