-------------------------------- MODULE Pwm --------------------------------
(***************************************************************************)
(* The pulse width modulation of user_main.c (build PWM without STORE):    *)
(* timerPwm1 and timerPwm2, two copies of one callback of the hardware     *)
(* timer that sets a pin for a time and clears it for another.  A command  *)
(* writes the channels one by one at task level, and the interrupt of the  *)
(* timer may come in between.                                              *)
(***************************************************************************)
EXTENDS HwTimer

CONSTANTS
  NB_PWM,       \* channels
  PWM_SCALL,    \* microseconds to a percent
  Levels        \* bound: the levels that are asked for

\* The shortest pulse, 8 * PWM_SCALL, is at least a tick, and the longest, not much
\* less than 400 * PWM_SCALL, at most the 10 ms of a steady level.
ASSUME PwmAssumption ==
  /\ NB_PWM \in 1..2 /\ NB_MAX_CALLBACK_TIME >= NB_PWM
  /\ PWM_SCALL \in Nat /\ us <= 8 * PWM_SCALL /\ 400 * PWM_SCALL <= 10000
  /\ Levels \subseteq 0..255

VARIABLES
  tab, l,          \* tab_callback_time; the slot the interrupt is at, or 0
  puissance_pwm,
  on,              \* the static variable of each callback
  out,             \* the pin of each channel is set
  age              \* history: ticks since the power was set, up to Longest

vars == <<tab, l, puissance_pwm, on, out, age>>

Channels == 1..NB_PWM

TimerPwm(c) == IF c = 1 THEN "timerPwm1" ELSE "timerPwm2"

PWM_SCALL_SLOW == PWM_SCALL * 4

\* Faulty: short times are not stretched.
ScaleFast(power) == PWM_SCALL

Scale(power) == IF power > 90 \/ power < 10 THEN PWM_SCALL_SLOW ELSE PWM_SCALL

HighTime(power) == power * Scale(power)

\* Faulty: only the time of the pulse is stretched.
LowTimeFast(power) == (100 - power) * PWM_SCALL

LowTime(power) == (100 - power) * Scale(power)

-----------------------------------------------------------------------------
(* mqttDataCb, one turn of its loop over the channels.                     *)

SetPower(c, power) ==
  /\ l = 0
  /\ puissance_pwm' = [puissance_pwm EXCEPT ![c] = power]
  /\ age' = [age EXCEPT ![c] = 0]
  /\ UNCHANGED <<tab, l, on, out>>

Set(c) == \E level \in Levels : SetPower(c, IF level >= 100 THEN 100 ELSE level)

\* The test is of the array, which is never null, and not of the power.
Toggle(c) == SetPower(c, 0)

-----------------------------------------------------------------------------
(* timerPwm1 and timerPwm2; t is the table they find.                      *)

Wait(t, c, time, high) ==
  /\ tab' = timer_change(t, time, TimerPwm(c))
  /\ out' = [out EXCEPT ![c] = high]

\* Faulty: a zero too many.
OffLong(t, c) ==
  /\ puissance_pwm[c] < 2
  /\ Wait(t, c, 100000, FALSE) /\ UNCHANGED on

Off(t, c) ==
  /\ puissance_pwm[c] < 2
  /\ Wait(t, c, 10000, FALSE) /\ UNCHANGED on

Full(t, c) ==
  /\ puissance_pwm[c] > 98
  /\ Wait(t, c, 10000, TRUE) /\ UNCHANGED on

Fall(t, c) ==
  /\ puissance_pwm[c] \in 2..98 /\ on[c]
  /\ Wait(t, c, LowTime(puissance_pwm[c]), FALSE)
  /\ on' = [on EXCEPT ![c] = FALSE]

\* Faulty: on is not set, and the pulse never ends.
RiseForgotten(t, c) ==
  /\ puissance_pwm[c] \in 2..98 /\ ~on[c]
  /\ Wait(t, c, HighTime(puissance_pwm[c]), TRUE)
  /\ UNCHANGED on

Rise(t, c) ==
  /\ puissance_pwm[c] \in 2..98 /\ ~on[c]
  /\ Wait(t, c, HighTime(puissance_pwm[c]), TRUE)
  /\ on' = [on EXCEPT ![c] = TRUE]

-----------------------------------------------------------------------------
(* timer_tim1_intr_handler.                                                *)

Longest == 10000 \div us

Tick ==
  /\ l = 0
  /\ l' = 1
  /\ age' = [c \in Channels |-> IF age[c] < Longest THEN age[c] + 1 ELSE Longest]
  /\ UNCHANGED <<tab, puissance_pwm, on, out>>

Skip == tab[l].call_back = NULL /\ UNCHANGED <<tab, on, out>>

Count ==
  /\ tab[l].call_back # NULL /\ ~Expires(tab, l)
  /\ tab' = Counted(tab, l) /\ UNCHANGED <<on, out>>

Fire ==
  /\ Expires(tab, l)
  /\ \E c \in Channels :
       /\ tab[l].call_back = (IF c = 1 THEN "timerPwm1" ELSE "timerPwm2")
       /\ LET t == Counted(tab, l) IN
          Off(t, c) \/ Full(t, c) \/ Fall(t, c) \/ Rise(t, c)

Slot ==
  /\ l \in Slots
  /\ Skip \/ Count \/ Fire
  /\ l' = NextSlot(l)
  /\ UNCHANGED <<puissance_pwm, age>>

-----------------------------------------------------------------------------

\* The end of user_init.
Init ==
  /\ tab = LET first == timer_add_callback(timer_init, 100 * PWM_SCALL, "timerPwm1") IN
           IF NB_PWM = 1 THEN first
           ELSE timer_add_callback(first, 150 * PWM_SCALL, "timerPwm2")
  /\ l = 0
  /\ puissance_pwm = [c \in Channels |-> IF c = 1 THEN 100 ELSE 0]
  /\ on = [c \in Channels |-> FALSE] /\ out = [c \in Channels |-> FALSE]
  /\ age = [c \in Channels |-> 0]

Next == Tick \/ Slot \/ \E c \in Channels : Set(c) \/ Toggle(c)

Spec == Init /\ [][Next]_vars

\* The interrupt of the hardware timer comes and returns.
FairSpec == Spec /\ WF_vars(Tick) /\ WF_vars(Slot)

-----------------------------------------------------------------------------
(* Properties.                                                             *)

\* Shapes of the variables of user_main.c and timer.c.
TypeOK ==
  /\ tab \in [Slots -> [call_back : {"timerPwm1", "timerPwm2", NULL},
                        period : Nat, cpt : Int]]
  /\ l \in {0} \cup Slots
  /\ puissance_pwm \in [Channels -> 0..100]
  /\ on \in [Channels -> BOOLEAN] /\ out \in [Channels -> BOOLEAN]
  /\ age \in [Channels -> 0..Longest]

\* The interrupt decrements before it compares with 0: a time shorter than a tick
\* would stop the channel for days.  "for avert small time (bug)" of timerPwm1.
CountersRun == \A k \in Slots : tab[k].call_back # NULL => tab[k].cpt >= 1

\* A power of 0, 1, 99 or 100 holds the pin steady within 10 ms of the command,
\* whatever phase timerPwm1 or timerPwm2 was in, the other channel does, and
\* whatever on says.
Steady ==
  l = 0 => \A c \in Channels : age[c] = Longest =>
    /\ puissance_pwm[c] < 2 => ~out[c]
    /\ puissance_pwm[c] > 98 => out[c]

\* More power is never less light: no higher power sets the pin for a smaller part
\* of the time, as timerPwm1 rounds both times to ticks, than the one a channel
\* has; across the two changes of scale as well.
DutyMonotone ==
  \A c \in Channels : puissance_pwm[c] \in 2..98 =>
    \A more \in puissance_pwm[c]..98 :
      (HighTime(puissance_pwm[c]) \div us) * (LowTime(more) \div us)
        <= (HighTime(more) \div us) * (LowTime(puissance_pwm[c]) \div us)

\* Any other power keeps the pin going up and down.
Pulses ==
  \A c \in Channels : \A high \in BOOLEAN :
    puissance_pwm[c] \in 2..98 ~> (out[c] = high \/ puissance_pwm[c] \notin 2..98)
=============================================================================
