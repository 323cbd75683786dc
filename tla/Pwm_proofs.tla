----------------------------- MODULE Pwm_proofs -----------------------------
(***************************************************************************)
(* Theorems of Pwm.tla, for one or two channels, any table that holds      *)
(* them, any levels and any scale whose pulses last from a tick to 10 ms.  *)
(***************************************************************************)
EXTENDS Pwm, HwTimer_proofs

Entry == [call_back : {"timerPwm1", "timerPwm2", NULL}, period : Nat, cpt : Int]
Table == [Slots -> Entry]

-----------------------------------------------------------------------------
(* The inductive invariant.                                                *)

\* Between one tick and the longest wait.
Fits(n) == n \in Nat /\ n >= 1 /\ n <= Longest

\* Each channel stays in the place user_init gave it.
LayoutOf(t) ==
  /\ t \in Table
  /\ \A k \in Channels :
       t[k].call_back = TimerPwm(k) /\ Fits(t[k].period) /\ Fits(t[k].cpt)
  /\ \A k \in Slots \ Channels : t[k].call_back = NULL

Settled(c) == (puissance_pwm[c] < 2 => ~out[c]) /\ (puissance_pwm[c] > 98 => out[c])

\* The interrupt has counted slot c in the tick that age counts last.
Passed(c) == l = 0 \/ l > c

\* A channel that has yet to obey will expire before its age is Longest.
Due(c) == age[c] + tab[c].cpt <= Longest + (IF Passed(c) THEN 0 ELSE 1)

IInv ==
  /\ TypeOK /\ LayoutOf(tab)
  /\ \A c \in Channels : Settled(c) \/ Due(c)

-----------------------------------------------------------------------------
(* Facts that several steps need.                                          *)

LEMMA ChannelFacts ==
  /\ Channels \subseteq Slots /\ Channels \subseteq 1..2 /\ 1 \in Channels
  /\ Channels \subseteq Nat /\ Slots \subseteq Nat
  /\ \A c, d \in Channels : TimerPwm(c) = TimerPwm(d) => c = d
  /\ \A c \in Channels : TimerPwm(c) \in {"timerPwm1", "timerPwm2"} /\ TimerPwm(c) # NULL
BY PwmAssumption, HwTimerAssumption DEF Channels, Slots, TimerPwm, NULL

\* Every wait, as a time of at least a tick and at most 10 ms.
LEMMA TimeFits ==
  ASSUME NEW time \in Nat, us <= time, time <= 10000
  PROVE  Fits(time \div us)
<1>1. time \div us \in Nat /\ time \div us >= 1
  BY TicksPositive
<1>2. time \div us <= 10000 \div us
  BY TicksMonotone
<1> QED
  BY <1>1, <1>2 DEF Fits, Longest

LEMMA LongestIsNat == Longest \in Nat
BY TicksPositive DEF Longest

\* A pulse of n parts of the scale.
LEMMA PartsFit ==
  ASSUME NEW n \in Nat, n >= 8, n <= 400
  PROVE  n * PWM_SCALL \in Nat /\ us <= n * PWM_SCALL /\ n * PWM_SCALL <= 10000
<1>1. PWM_SCALL \in Nat /\ us \in Nat /\ us <= 8 * PWM_SCALL /\ 400 * PWM_SCALL <= 10000
  BY PwmAssumption, HwTimerAssumption
<1>2. \A a, b, s \in Nat : a <= b => a * s \in Nat /\ a * s <= b * s
  OBVIOUS
<1>3. 8 * PWM_SCALL <= n * PWM_SCALL /\ n * PWM_SCALL <= 400 * PWM_SCALL
  BY <1>1, <1>2
<1>4. n * PWM_SCALL \in Nat
  BY <1>1
<1>5. 8 * PWM_SCALL \in Nat /\ 400 * PWM_SCALL \in Nat
  BY <1>1
<1> QED
  BY <1>1, <1>3, <1>4, <1>5

\* No pulse is too short to count, on either side of the changes of scale.
LEMMA PulsesFit ==
  ASSUME NEW power \in 2..98
  PROVE  /\ HighTime(power) \in Nat /\ Fits(HighTime(power) \div us)
         /\ LowTime(power) \in Nat /\ Fits(LowTime(power) \div us)
<1> DEFINE Parts(n) == IF power > 90 \/ power < 10 THEN 4 * n ELSE n
<1>1. /\ Parts(power) \in Nat /\ Parts(power) >= 8 /\ Parts(power) <= 400
      /\ Parts(100 - power) \in Nat /\ Parts(100 - power) >= 8 /\ Parts(100 - power) <= 400
  OBVIOUS
<1>2. \A n \in Nat : n * Scale(power) = Parts(n) * PWM_SCALL
  BY PwmAssumption DEF Scale, PWM_SCALL_SLOW
<1>3. HighTime(power) = Parts(power) * PWM_SCALL
  BY <1>2 DEF HighTime
<1>4. LowTime(power) = Parts(100 - power) * PWM_SCALL
  <2>1. 100 - power \in Nat
    OBVIOUS
  <2> QED
    BY <1>2, <2>1 DEF LowTime
<1> HIDE DEF Parts
<1>5. /\ HighTime(power) \in Nat /\ us <= HighTime(power) /\ HighTime(power) <= 10000
      /\ LowTime(power) \in Nat /\ us <= LowTime(power) /\ LowTime(power) <= 10000
  BY <1>1, <1>3, <1>4, PartsFit
<1> QED
  BY <1>5, TimeFits

-----------------------------------------------------------------------------
(* Steps that leave the table alone.                                       *)

\* A command: the channel will expire within the longest wait from now.
LEMMA CommandKeepsInv ==
  IInv /\ (\E c \in Channels : Set(c) \/ Toggle(c)) => IInv'
<1> SUFFICES ASSUME IInv, NEW c \in Channels, Set(c) \/ Toggle(c) PROVE IInv'
  OBVIOUS
<1>1. PICK power \in 0..100 : SetPower(c, power)
  <2>1. CASE Set(c)
    <3>1. PICK level \in Levels : SetPower(c, IF level >= 100 THEN 100 ELSE level)
      BY <2>1 DEF Set
    <3>2. level \in 0..255
      BY PwmAssumption
    <3>3. (IF level >= 100 THEN 100 ELSE level) \in 0..100
      BY <3>2
    <3> QED
      BY <3>1, <3>3
  <2>2. CASE Toggle(c)
    BY <2>2 DEF Toggle
  <2> QED
    BY <2>1, <2>2
<1>2. /\ l = 0 /\ UNCHANGED <<tab, l, on, out>>
      /\ puissance_pwm' = [puissance_pwm EXCEPT ![c] = power]
      /\ age' = [age EXCEPT ![c] = 0]
  BY <1>1 DEF SetPower
<1>3. TypeOK'
  BY <1>2, LongestIsNat DEF IInv, TypeOK
<1>4. LayoutOf(tab)'
  BY <1>2 DEF IInv, LayoutOf
<1>5. ASSUME NEW d \in Channels PROVE (Settled(d) \/ Due(d))'
  <2>1. CASE d = c
    <3>1. tab[d].cpt \in Nat /\ tab[d].cpt <= Longest
      BY DEF IInv, LayoutOf, Fits
    <3>2. age'[d] = 0
      BY <1>2, <2>1 DEF IInv, TypeOK
    <3> QED
      BY <1>2, <3>1, <3>2, LongestIsNat DEF Due, Passed
  <2>2. CASE d # c
    <3>1. age'[d] = age[d] /\ puissance_pwm'[d] = puissance_pwm[d]
      BY <1>2, <2>2 DEF IInv, TypeOK
    <3>2. Settled(d) \/ Due(d)
      BY DEF IInv
    <3> QED
      BY <1>2, <3>1, <3>2 DEF Settled, Due, Passed
  <2> QED
    BY <2>1, <2>2
<1> QED
  BY <1>3, <1>4, <1>5 DEF IInv

\* The interrupt comes, and has yet to count every slot.
LEMMA TickKeepsInv == IInv /\ Tick => IInv'
<1> SUFFICES ASSUME IInv, Tick PROVE IInv'
  OBVIOUS
<1>1. /\ l = 0 /\ l' = 1 /\ UNCHANGED <<tab, puissance_pwm, on, out>>
      /\ age' = [c \in Channels |-> IF age[c] < Longest THEN age[c] + 1 ELSE Longest]
  BY DEF Tick
<1>2. TypeOK'
  <2>1. l' \in Slots
    BY <1>1, ChannelFacts
  <2>2. age' \in [Channels -> 0..Longest]
    BY <1>1, LongestIsNat DEF IInv, TypeOK
  <2> QED
    BY <1>1, <2>1, <2>2 DEF IInv, TypeOK
<1>3. LayoutOf(tab)'
  BY <1>1 DEF IInv, LayoutOf
<1>4. ASSUME NEW c \in Channels PROVE (Settled(c) \/ Due(c))'
  <2>1. CASE Settled(c)
    BY <1>1, <2>1 DEF Settled
  <2>2. CASE Due(c)
    <3>1. age[c] \in Nat /\ age'[c] \in Nat /\ age'[c] <= age[c] + 1
      BY <1>1, LongestIsNat DEF IInv, TypeOK
    <3>2. tab[c].cpt \in Nat
      BY DEF IInv, LayoutOf, Fits
    <3>3. age[c] + tab[c].cpt <= Longest
      BY <1>1, <2>2, <3>1, <3>2, LongestIsNat DEF Due, Passed
    <3>4. ~Passed(c)'
      BY <1>1, ChannelFacts DEF Passed
    <3> QED
      BY <1>1, <3>1, <3>2, <3>3, <3>4, LongestIsNat DEF Due
  <2> QED
    BY <2>1, <2>2 DEF IInv
<1> QED
  BY <1>2, <1>3, <1>4 DEF IInv

-----------------------------------------------------------------------------
(* The interrupt at a slot.                                                *)

\* It goes from slot to slot, once through each.
LEMMA Walk ==
  ASSUME l \in Slots, l' = NextSlot(l)
  PROVE  /\ l' \in {0} \cup Slots
         /\ \A c \in Slots : Passed(c)' <=> Passed(c) \/ c = l
BY HwTimerAssumption DEF Slots, NextSlot, Passed

\* A step that writes no other slot than l keeps the invariant of the others.
LEMMA OthersKept ==
  ASSUME IInv, l \in Slots, l' = NextSlot(l), UNCHANGED <<puissance_pwm, age>>,
         NEW c \in Channels, c # l, tab'[c] = tab[c], out'[c] = out[c]
  PROVE  (Settled(c) \/ Due(c))'
<1>1. c \in Slots
  BY ChannelFacts
<1>2. Passed(c)' <=> Passed(c)
  BY <1>1, Walk
<1>3. Settled(c) \/ Due(c)
  BY DEF IInv
<1> QED
  BY <1>2, <1>3 DEF Settled, Due

LEMMA SkipKeepsInv == IInv /\ Slot /\ Skip => IInv'
<1> SUFFICES ASSUME IInv, Slot, Skip PROVE IInv'
  OBVIOUS
<1>1. /\ l \in Slots /\ l' = NextSlot(l) /\ tab[l].call_back = NULL
      /\ UNCHANGED <<tab, on, out, puissance_pwm, age>>
  BY DEF Slot, Skip
<1>2. l \notin Channels
  BY <1>1, ChannelFacts DEF IInv, LayoutOf
<1>3. TypeOK' /\ LayoutOf(tab)'
  BY <1>1, Walk DEF IInv, TypeOK, LayoutOf
<1>4. \A c \in Channels : (Settled(c) \/ Due(c))'
  BY <1>1, <1>2, OthersKept
<1> QED
  BY <1>3, <1>4 DEF IInv

\* Counting the slot of a channel changes its counter and nothing else.
LEMMA CountedWritesPlace ==
  ASSUME IInv, NEW c \in Channels
  PROVE  /\ Counted(tab, c) \in Table
         /\ \A k \in Slots : k # c => Counted(tab, c)[k] = tab[k]
         /\ Counted(tab, c)[c].call_back = tab[c].call_back
         /\ Counted(tab, c)[c].period = tab[c].period
         /\ Counted(tab, c)[c].cpt = IF Expires(tab, c) THEN tab[c].period
                                                        ELSE tab[c].cpt - 1
         /\ LayoutOf(Counted(tab, c))
<1>1. /\ tab \in Table /\ c \in Slots /\ tab[c] \in Entry
      /\ Fits(tab[c].cpt) /\ Fits(tab[c].period)
  BY ChannelFacts DEF IInv, LayoutOf, Table
<1> DEFINE n == IF Expires(tab, c) THEN tab[c].period ELSE tab[c].cpt - 1
<1>2. Fits(n)
  BY <1>1, LongestIsNat DEF Expires, Fits
<1>3. n \in Int
  BY <1>2 DEF Fits
<1>4. Counted(tab, c) = [tab EXCEPT ![c].cpt = n]
  BY DEF Counted
<1> HIDE DEF n
<1>5. [tab[c] EXCEPT !.cpt = n] \in Entry
  BY <1>1, <1>3 DEF Entry
<1>6. /\ Counted(tab, c) \in Table
      /\ Counted(tab, c)[c] = [tab[c] EXCEPT !.cpt = n]
      /\ \A k \in Slots : k # c => Counted(tab, c)[k] = tab[k]
  BY <1>1, <1>4, <1>5 DEF Table
<1>7. /\ Counted(tab, c)[c].call_back = tab[c].call_back
      /\ Counted(tab, c)[c].period = tab[c].period /\ Counted(tab, c)[c].cpt = n
  BY <1>1, <1>6 DEF Entry
<1>8. LayoutOf(Counted(tab, c))
  BY <1>1, <1>2, <1>6, <1>7, ChannelFacts DEF IInv, LayoutOf
<1> QED
  BY <1>6, <1>7, <1>8 DEF n

LEMMA CountKeepsInv == IInv /\ Slot /\ Count => IInv'
<1> SUFFICES ASSUME IInv, Slot, Count PROVE IInv'
  OBVIOUS
<1>1. /\ l \in Slots /\ l' = NextSlot(l) /\ tab[l].call_back # NULL /\ ~Expires(tab, l)
      /\ tab' = Counted(tab, l) /\ UNCHANGED <<on, out, puissance_pwm, age>>
  BY DEF Slot, Count
<1>2. l \in Channels
  BY <1>1 DEF IInv, LayoutOf
<1>3. /\ tab' \in Table /\ LayoutOf(tab)'
      /\ \A k \in Slots : k # l => tab'[k] = tab[k]
      /\ tab'[l].cpt = tab[l].cpt - 1
  BY <1>1, <1>2, CountedWritesPlace DEF LayoutOf
<1>4. TypeOK'
  BY <1>1, <1>3, Walk DEF IInv, TypeOK, Table, Entry
<1>5. ASSUME NEW c \in Channels PROVE (Settled(c) \/ Due(c))'
  <2>1. CASE c # l
    BY <1>1, <1>3, <2>1, ChannelFacts, OthersKept
  <2>2. CASE c = l /\ Settled(c)
    BY <1>1, <2>2 DEF Settled
  <2>3. CASE c = l /\ Due(c)
    <3>1. tab[l].cpt \in Int /\ age[c] \in Nat
      BY <1>1, LongestIsNat DEF IInv, TypeOK
    <3>2. age[c] + tab[c].cpt <= Longest + 1
      BY <2>3, <3>1, LongestIsNat DEF Due
    <3>3. Passed(c)'
      BY <1>1, <2>3, Walk
    <3> QED
      BY <1>1, <1>3, <2>3, <3>1, <3>2, <3>3, LongestIsNat DEF Due
  <2> QED
    BY <2>1, <2>2, <2>3 DEF IInv
<1> QED
  BY <1>3, <1>4, <1>5 DEF IInv

\* timer_change writes the place of the channel and no other.
LEMMA WaitWritesPlace ==
  ASSUME NEW t, LayoutOf(t), NEW c \in Channels, NEW time \in Nat, Fits(time \div us)
  PROVE  /\ LayoutOf(timer_change(t, time, TimerPwm(c)))
         /\ \A k \in Slots : k # c => timer_change(t, time, TimerPwm(c))[k] = t[k]
<1> DEFINE e == Started(time, TimerPwm(c))
           w == timer_change(t, time, TimerPwm(c))
<1>1. \A k \in Slots : t[k].call_back = TimerPwm(c) => k = c
  BY ChannelFacts DEF LayoutOf
<1>2. t \in Table /\ c \in Slots /\ t[c].call_back = TimerPwm(c)
  BY ChannelFacts DEF LayoutOf
<1>3. w = Written(t, c, e)
  BY <1>1, <1>2, ChangeWritesPlace
<1>4. /\ e \in Entry /\ e.call_back = TimerPwm(c) /\ Fits(e.period) /\ Fits(e.cpt)
  BY ChannelFacts DEF Started, Entry, Fits
<1> HIDE DEF e, w
<1>5. w \in Table /\ w[c] = e /\ \A k \in Slots : k # c => w[k] = t[k]
  BY <1>2, <1>3, <1>4 DEF Written, Table
<1>6. LayoutOf(w)
  BY <1>4, <1>5, ChannelFacts DEF LayoutOf
<1> QED
  BY <1>5, <1>6 DEF w

\* The callback sets its pin for a time that fits, and a steady pin as it should be.
Obeys(t, c, time, high) ==
  /\ Fits(time \div us) /\ Wait(t, c, time, high)
  /\ puissance_pwm[c] < 2 => ~high
  /\ puissance_pwm[c] > 98 => high

\* What its four outcomes have in common.
LEMMA CallbackWaits ==
  ASSUME IInv, NEW t, NEW c \in Channels,
         Off(t, c) \/ Full(t, c) \/ Fall(t, c) \/ Rise(t, c)
  PROVE  /\ \E time \in Nat, high \in BOOLEAN : Obeys(t, c, time, high)
         /\ on' \in [Channels -> BOOLEAN]
<1>1. puissance_pwm[c] \in 0..100 /\ on \in [Channels -> BOOLEAN]
  BY DEF IInv, TypeOK
<1>2. PICK steady \in Nat : steady = 10000 /\ Fits(steady \div us)
  <2>1. us \in Nat /\ us <= 10000
    BY PwmAssumption, HwTimerAssumption
  <2> QED
    BY <2>1, TimeFits
<1>3. CASE Off(t, c)
  <2>1. Obeys(t, c, steady, FALSE)
    BY <1>1, <1>2, <1>3 DEF Off, Obeys, Wait
  <2>2. on' \in [Channels -> BOOLEAN]
    BY <1>1, <1>3 DEF Off
  <2> QED
    BY <2>1, <2>2, Zenon
<1>4. CASE Full(t, c)
  <2>1. Obeys(t, c, steady, TRUE)
    BY <1>1, <1>2, <1>4 DEF Full, Obeys, Wait
  <2>2. on' \in [Channels -> BOOLEAN]
    BY <1>1, <1>4 DEF Full
  <2> QED
    BY <2>1, <2>2, Zenon
<1>5. CASE Fall(t, c)
  <2>1. puissance_pwm[c] \in 2..98 /\ Wait(t, c, LowTime(puissance_pwm[c]), FALSE)
    BY <1>5 DEF Fall
  <2>2. on' \in [Channels -> BOOLEAN]
    BY <1>1, <1>5 DEF Fall
  <2>3. LowTime(puissance_pwm[c]) \in Nat /\ Fits(LowTime(puissance_pwm[c]) \div us)
    BY <2>1, PulsesFit
  <2>4. Obeys(t, c, LowTime(puissance_pwm[c]), FALSE)
    BY <2>1, <2>3 DEF Obeys, Wait
  <2> QED
    BY <2>2, <2>3, <2>4, Zenon
<1>6. CASE Rise(t, c)
  <2>1. puissance_pwm[c] \in 2..98 /\ Wait(t, c, HighTime(puissance_pwm[c]), TRUE)
    BY <1>6 DEF Rise
  <2>2. on' \in [Channels -> BOOLEAN]
    BY <1>1, <1>6 DEF Rise
  <2>3. HighTime(puissance_pwm[c]) \in Nat /\ Fits(HighTime(puissance_pwm[c]) \div us)
    BY <2>1, PulsesFit
  <2>4. Obeys(t, c, HighTime(puissance_pwm[c]), TRUE)
    BY <2>1, <2>3 DEF Obeys, Wait
  <2> QED
    BY <2>2, <2>3, <2>4, Zenon
<1> QED
  BY <1>3, <1>4, <1>5, <1>6

LEMMA FireKeepsInv == IInv /\ Slot /\ Fire => IInv'
<1> SUFFICES ASSUME IInv, Slot, Fire PROVE IInv'
  OBVIOUS
<1>1. l \in Slots /\ l' = NextSlot(l) /\ UNCHANGED <<puissance_pwm, age>> /\ Expires(tab, l)
  BY DEF Slot, Fire
<1>2. PICK c \in Channels :
        /\ tab[l].call_back = TimerPwm(c)
        /\ \/ Off(Counted(tab, l), c) \/ Full(Counted(tab, l), c)
           \/ Fall(Counted(tab, l), c) \/ Rise(Counted(tab, l), c)
  BY Zenon DEF Fire, TimerPwm
<1>3. c = l
  BY <1>1, <1>2, ChannelFacts DEF IInv, LayoutOf
<1>4. PICK time \in Nat, high \in BOOLEAN :
        /\ Fits(time \div us) /\ Wait(Counted(tab, c), c, time, high)
        /\ puissance_pwm[c] < 2 => ~high
        /\ puissance_pwm[c] > 98 => high
  BY <1>2, <1>3, CallbackWaits DEF Obeys
<1>5. /\ LayoutOf(tab)'
      /\ \A k \in Slots : k # c => tab'[k] = tab[k]
  BY <1>4, CountedWritesPlace, WaitWritesPlace DEF Wait, LayoutOf
<1>6. out' = [out EXCEPT ![c] = high]
  BY <1>4 DEF Wait
<1>7. TypeOK'
  <2>1. tab' \in Table /\ l' \in {0} \cup Slots
    BY <1>1, <1>5, Walk DEF LayoutOf
  <2>2. on' \in [Channels -> BOOLEAN]
    BY <1>2, CallbackWaits
  <2> QED
    BY <1>1, <1>6, <2>1, <2>2 DEF IInv, TypeOK, Table, Entry
<1>8. ASSUME NEW d \in Channels PROVE (Settled(d) \/ Due(d))'
  <2>1. CASE d = c
    BY <1>1, <1>4, <1>6, <2>1 DEF Settled, IInv, TypeOK
  <2>2. CASE d # c
    BY <1>1, <1>3, <1>5, <1>6, <2>2, ChannelFacts, OthersKept DEF IInv, TypeOK
  <2> QED
    BY <2>1, <2>2
<1> QED
  BY <1>5, <1>7, <1>8 DEF IInv

-----------------------------------------------------------------------------
(* The theorems.                                                           *)

\* user_init gives the first places to the channels.
LEMMA FirstAdded ==
  /\ timer_add_callback(timer_init, 100 * PWM_SCALL, "timerPwm1")
       = Written(timer_init, 1, Started(100 * PWM_SCALL, "timerPwm1"))
  /\ NB_PWM = 2 =>
       LET first == Written(timer_init, 1, Started(100 * PWM_SCALL, "timerPwm1")) IN
       timer_add_callback(first, 150 * PWM_SCALL, "timerPwm2")
         = Written(first, 2, Started(150 * PWM_SCALL, "timerPwm2"))
<1> DEFINE e == Started(100 * PWM_SCALL, "timerPwm1")
           first == Written(timer_init, 1, e)
<1>1. 1 \in Slots /\ Slots \subseteq Nat /\ \A k \in Slots : 1 <= k
  BY HwTimerAssumption DEF Slots
<1>2. \A k \in Slots : timer_init[k].call_back = NULL
  BY DEF timer_init
<1>3. PICK k \in Slots : /\ \A n \in Slots : timer_init[n].call_back = NULL => k <= n
                         /\ timer_add_callback(timer_init, 100 * PWM_SCALL, "timerPwm1")
                              = Written(timer_init, k, e)
  BY <1>1, <1>2, AddTakesFreePlace
<1>4. k = 1
  BY <1>1, <1>2, <1>3
<1>5. ASSUME NB_PWM = 2
      PROVE  timer_add_callback(first, 150 * PWM_SCALL, "timerPwm2")
               = Written(first, 2, Started(150 * PWM_SCALL, "timerPwm2"))
  <2>1. e.call_back # NULL
    BY DEF Started, NULL
  <2> HIDE DEF e
  <2>2. first[1] = e /\ \A n \in Slots : n # 1 => first[n] = timer_init[n]
    BY <1>1 DEF Written, timer_init
  <2> HIDE DEF first
  <2>3. 2 \in Slots /\ first[2].call_back = NULL
    BY <1>2, <1>5, <2>2, PwmAssumption, HwTimerAssumption DEF Slots
  <2>4. PICK m \in Slots : /\ first[m].call_back = NULL
                           /\ \A n \in Slots : first[n].call_back = NULL => m <= n
                           /\ timer_add_callback(first, 150 * PWM_SCALL, "timerPwm2")
                                = Written(first, m, Started(150 * PWM_SCALL, "timerPwm2"))
    BY <2>3, AddTakesFreePlace
  <2>5. m = 2
    BY <1>1, <2>1, <2>2, <2>3, <2>4
  <2> QED
    BY <2>4, <2>5
<1> QED
  BY <1>3, <1>4, <1>5

LEMMA InitInv == Init => IInv
<1> SUFFICES ASSUME Init PROVE IInv
  OBVIOUS
<1>1. Fits((100 * PWM_SCALL) \div us) /\ Fits((150 * PWM_SCALL) \div us)
  BY PartsFit, TimeFits
<1> DEFINE one == Started(100 * PWM_SCALL, "timerPwm1")
           two == Started(150 * PWM_SCALL, "timerPwm2")
           first == Written(timer_init, 1, one)
<1>2. /\ one \in Entry /\ one.call_back = "timerPwm1" /\ Fits(one.period) /\ Fits(one.cpt)
      /\ two \in Entry /\ two.call_back = "timerPwm2" /\ Fits(two.period) /\ Fits(two.cpt)
  BY <1>1 DEF Started, Entry, Fits
<1>3. tab = IF NB_PWM = 1 THEN first ELSE Written(first, 2, two)
  BY FirstAdded, PwmAssumption DEF Init
<1> HIDE DEF one, two
<1>4. /\ timer_init \in Table /\ 1 \in Slots
      /\ \A k \in Slots : timer_init[k].call_back = NULL
  BY ChannelFacts DEF timer_init, Table, Entry
<1>5. /\ first \in Table /\ first[1] = one
      /\ \A k \in Slots : k # 1 => first[k].call_back = NULL
  BY <1>2, <1>4 DEF Written, Table
<1> HIDE DEF first
<1>6. LayoutOf(tab)
  <2>1. CASE NB_PWM = 1
    <3>1. Channels = {1} /\ TimerPwm(1) = "timerPwm1"
      BY <2>1 DEF Channels, TimerPwm
    <3> QED
      BY <1>2, <1>3, <1>5, <2>1, <3>1 DEF LayoutOf
  <2>2. CASE NB_PWM = 2
    <3>1. /\ Channels = {1, 2} /\ 2 \in Slots
          /\ TimerPwm(1) = "timerPwm1" /\ TimerPwm(2) = "timerPwm2"
      BY <2>2, ChannelFacts DEF Channels, TimerPwm
    <3>2. tab \in Table /\ tab[2] = two /\ \A k \in Slots : k # 2 => tab[k] = first[k]
      BY <1>2, <1>3, <1>5, <2>2, <3>1 DEF Written, Table
    <3> QED
      BY <1>2, <1>4, <1>5, <3>1, <3>2 DEF LayoutOf
  <2> QED
    BY <2>1, <2>2, PwmAssumption
<1>7. TypeOK
  BY <1>6, LongestIsNat DEF Init, TypeOK, LayoutOf, Table, Entry
<1>8. ASSUME NEW c \in Channels PROVE Due(c)
  <2>1. Fits(tab[c].cpt)
    BY <1>6 DEF LayoutOf
  <2> QED
    BY <2>1, LongestIsNat DEF Init, Due, Passed, Fits
<1> QED
  BY <1>6, <1>7, <1>8 DEF IInv

LEMMA NextKeepsInv == IInv /\ [Next]_vars => IInv'
<1> SUFFICES ASSUME IInv, [Next]_vars PROVE IInv'
  OBVIOUS
<1>1. CASE Tick
  BY <1>1, TickKeepsInv
<1>2. CASE Slot
  BY <1>2, SkipKeepsInv, CountKeepsInv, FireKeepsInv DEF Slot
<1>3. CASE \E c \in Channels : Set(c) \/ Toggle(c)
  BY <1>3, CommandKeepsInv
<1>4. CASE UNCHANGED vars
  BY <1>4 DEF vars, IInv, TypeOK, LayoutOf, Settled, Due, Passed
<1> QED
  BY <1>1, <1>2, <1>3, <1>4 DEF Next

LEMMA InvHolds == Spec => []IInv
<1> QED
  BY InitInv, NextKeepsInv, PTL DEF Spec

\* Shapes, for any number of slots and any levels.
THEOREM TypesHold == Spec => []TypeOK
<1>1. IInv => TypeOK
  BY DEF IInv
<1> QED
  BY <1>1, InvHolds, PTL

\* The interrupt of timer.c never decrements a counter that is 0, with one copy
\* of the callback in the table or two.
THEOREM PwmCountersRun == Spec => []CountersRun
<1>1. IInv => CountersRun
  BY DEF IInv, LayoutOf, CountersRun, Fits
<1> QED
  BY <1>1, InvHolds, PTL

\* timerPwm1 and timerPwm2 bring their pins to a steady level within the longest
\* wait, whatever the other channel does.
THEOREM SteadyInTime == Spec => []Steady
<1>1. IInv => Steady
  <2> SUFFICES ASSUME IInv, l = 0, NEW c \in Channels, age[c] = Longest
               PROVE  Settled(c)
    BY DEF Steady, Settled
  <2>1. Fits(tab[c].cpt)
    BY DEF IInv, LayoutOf
  <2>2. ~Due(c)
    BY <2>1, LongestIsNat DEF Due, Passed, Fits
  <2> QED
    BY <2>2 DEF IInv
<1> QED
  BY <1>1, InvHolds, PTL

-----------------------------------------------------------------------------
(* More power, more light.                                                 *)

\* The part of the time the pin is set is not smaller: the two times of a level
\* in ticks, against those of a higher one.
NoDarker(power, more) ==
  (HighTime(power) \div us) * (LowTime(more) \div us)
    <= (HighTime(more) \div us) * (LowTime(power) \div us)

\* The scale changes between 9 and 10, and between 90 and 91.
ScaleChangesFit == NoDarker(9, 10) /\ NoDarker(90, 91)

\* On one scale, more power is a longer pulse and a shorter pause.
LEMMA TimesMonotone ==
  ASSUME NEW power \in 2..98, NEW more \in power..98, Scale(power) = Scale(more)
  PROVE  /\ HighTime(power) \div us <= HighTime(more) \div us
         /\ LowTime(more) \div us <= LowTime(power) \div us
<1>1. Scale(power) \in Nat
  BY PwmAssumption DEF Scale, PWM_SCALL_SLOW
<1>2. power \in Nat /\ more \in Nat /\ 100 - power \in Nat /\ 100 - more \in Nat
      /\ power <= more /\ 100 - more <= 100 - power /\ more \in 2..98
  OBVIOUS
<1>3. \A a, b, s \in Nat : a <= b => a * s <= b * s
  OBVIOUS
<1>4. HighTime(power) <= HighTime(more) /\ LowTime(more) <= LowTime(power)
  BY <1>1, <1>2, <1>3 DEF HighTime, LowTime
<1>5. /\ HighTime(power) \in Nat /\ LowTime(power) \in Nat
      /\ HighTime(more) \in Nat /\ LowTime(more) \in Nat
  BY <1>2, PulsesFit
<1> QED
  BY <1>4, <1>5, TicksMonotone

\* Products of ticks.
LEMMA ProductsMonotone ==
  ASSUME NEW a \in Nat, NEW b \in Nat, NEW c \in Nat, NEW d \in Nat, a <= c, b <= d
  PROVE  a * b \in Nat /\ a * b <= c * d
<1>1. \A x, y, z \in Nat : x <= y => x * z \in Nat /\ x * z <= y * z /\ z * x <= z * y
  OBVIOUS
<1>2. a * b <= c * b /\ c * b <= c * d
  BY <1>1
<1>3. a * b \in Nat /\ c * b \in Nat /\ c * d \in Nat
  BY <1>1
<1> QED
  BY <1>2, <1>3

\* Two levels on either side of a change do as those next to it.
LEMMA AcrossChange ==
  ASSUME NEW last \in 2..97, NoDarker(last, last + 1),
         NEW power \in 2..last, NEW more \in last + 1..98,
         Scale(power) = Scale(last), Scale(more) = Scale(last + 1)
  PROVE  NoDarker(power, more)
<1> DEFINE H(n) == HighTime(n) \div us
           L(n) == LowTime(n) \div us
<1>1. power \in 2..98 /\ last \in power..98 /\ last + 1 \in 2..98 /\ more \in last + 1..98
      /\ last \in 2..98 /\ more \in 2..98
  OBVIOUS
<1>2. \A n \in 2..98 : H(n) \in Nat /\ L(n) \in Nat
  BY PulsesFit DEF Fits
<1>3. H(power) <= H(last) /\ L(last) <= L(power)
  BY <1>1, TimesMonotone
<1>4. H(last + 1) <= H(more) /\ L(more) <= L(last + 1)
  BY <1>1, TimesMonotone
<1>5. H(last) * L(last + 1) <= H(last + 1) * L(last)
  BY DEF NoDarker
<1> HIDE DEF H, L
<1>6. H(power) \in Nat /\ L(power) \in Nat /\ H(more) \in Nat /\ L(more) \in Nat
      /\ H(last) \in Nat /\ L(last) \in Nat /\ H(last + 1) \in Nat /\ L(last + 1) \in Nat
  BY <1>1, <1>2
<1>7. H(power) * L(more) \in Nat /\ H(power) * L(more) <= H(last) * L(last + 1)
  BY <1>3, <1>4, <1>6, ProductsMonotone
<1>8. H(last + 1) * L(last) \in Nat /\ H(last + 1) * L(last) <= H(more) * L(power)
  BY <1>3, <1>4, <1>6, ProductsMonotone
<1>9. H(last) * L(last + 1) \in Nat /\ H(more) * L(power) \in Nat
  BY <1>6, ProductsMonotone
<1>10. H(power) * L(more) <= H(more) * L(power)
  BY <1>5, <1>7, <1>8, <1>9
<1> QED
  BY <1>10 DEF NoDarker, H, L

\* What holds at the changes of scale holds for all levels.
LEMMA AllLevels ==
  ASSUME ScaleChangesFit, NEW power \in 2..98, NEW more \in power..98
  PROVE  NoDarker(power, more)
<1>0. power \in Nat /\ more \in Nat /\ power <= more /\ more \in 2..98
  OBVIOUS
<1>1. CASE Scale(power) = Scale(more)
  <2>1. /\ HighTime(power) \div us <= HighTime(more) \div us
        /\ LowTime(more) \div us <= LowTime(power) \div us
    BY <1>1, TimesMonotone
  <2>2. /\ HighTime(power) \div us \in Nat /\ HighTime(more) \div us \in Nat
        /\ LowTime(power) \div us \in Nat /\ LowTime(more) \div us \in Nat
    BY <1>0, PulsesFit DEF Fits
  <2> QED
    BY <2>1, <2>2, ProductsMonotone DEF NoDarker
<1>2. CASE power < 10 /\ more \in 10..90
  <2>1. Scale(power) = Scale(9) /\ Scale(more) = Scale(10)
    BY <1>0, <1>2 DEF Scale
  <2>2. NoDarker(9, 9 + 1) /\ Scale(9 + 1) = Scale(10)
    BY DEF ScaleChangesFit
  <2>3. power \in 2..9 /\ more \in 9 + 1..98 /\ 9 \in 2..97
    BY <1>0, <1>2
  <2> QED
    BY <2>1, <2>2, <2>3, AcrossChange
<1>3. CASE power \in 10..90 /\ more > 90
  <2>1. Scale(power) = Scale(90) /\ Scale(more) = Scale(91)
    BY <1>0, <1>3 DEF Scale
  <2>2. NoDarker(90, 90 + 1) /\ Scale(90 + 1) = Scale(91)
    BY DEF ScaleChangesFit
  <2>3. power \in 2..90 /\ more \in 90 + 1..98 /\ 90 \in 2..97
    BY <1>0, <1>3
  <2> QED
    BY <2>1, <2>2, <2>3, AcrossChange
<1>4. Scale(power) = Scale(more) \/ (power < 10 /\ more \in 10..90)
      \/ (power \in 10..90 /\ more > 90)
  BY <1>0 DEF Scale
<1> QED
  BY <1>1, <1>2, <1>3, <1>4

\* A time that lasts n ticks and not n + 1.
LEMMA TicksOf ==
  ASSUME NEW n \in Nat, NEW time \in Nat, n * us <= time, time < n * us + us
  PROVE  time \div us = n
<1>1. us \in Nat /\ us > 0
  BY HwTimerAssumption
<1>2. \E r \in 0..us - 1 : time = n * us + r
  <2>1. n * us \in Nat
    BY <1>1
  <2> QED
    BY <1>1, <2>1
<1> QED
  BY <1>1, <1>2

\* With the product's PWM_SCALL of 5 and PRECISION_TIMER of 21, the changes are from
\* 8 ticks in 94 to 2 in 23, and from 21 in 23 to 86 in 94.
LEMMA ProductScaleFits ==
  ASSUME 5 * us = 21 * PWM_SCALL
  PROVE  ScaleChangesFit
<1>1. us \in Nat /\ us > 0 /\ PWM_SCALL \in Nat
  BY HwTimerAssumption, PwmAssumption
<1>2. /\ HighTime(9) = 36 * PWM_SCALL /\ LowTime(9) = 364 * PWM_SCALL
      /\ HighTime(10) = 10 * PWM_SCALL /\ LowTime(10) = 90 * PWM_SCALL
      /\ HighTime(90) = 90 * PWM_SCALL /\ LowTime(90) = 10 * PWM_SCALL
      /\ HighTime(91) = 364 * PWM_SCALL /\ LowTime(91) = 36 * PWM_SCALL
  BY <1>1 DEF HighTime, LowTime, Scale, PWM_SCALL_SLOW
<1>3. (36 * PWM_SCALL) \div us = 8
  BY <1>1, TicksOf
<1>4. (364 * PWM_SCALL) \div us = 86
  BY <1>1, TicksOf
<1>5. (10 * PWM_SCALL) \div us = 2
  BY <1>1, TicksOf
<1>6. (90 * PWM_SCALL) \div us = 21
  BY <1>1, TicksOf
<1> QED
  BY <1>2, <1>3, <1>4, <1>5, <1>6 DEF ScaleChangesFit, NoDarker

\* With the ratio of PWM_SCALL and PRECISION_TIMER in user_config.h, no higher
\* power lights less than a lower one, as timerPwm1 and timerPwm2 round, for every
\* pair of levels.
THEOREM MorePowerMoreLight ==
  ASSUME 5 * us = 21 * PWM_SCALL
  PROVE  Spec => []DutyMonotone
<1>1. IInv => DutyMonotone
  BY ProductScaleFits, AllLevels DEF DutyMonotone, NoDarker
<1> QED
  BY <1>1, InvHolds, PTL

=============================================================================
