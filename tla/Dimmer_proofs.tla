--------------------------- MODULE Dimmer_proofs ---------------------------
(***************************************************************************)
(* Theorems of Dimmer.tla, for any table of at least 3 places, any tick of *)
(* at most 500 us and any levels.                                          *)
(***************************************************************************)
EXTENDS Dimmer, HwTimer_proofs

Entry == [call_back : Callbacks \cup {NULL}, period : Int, cpt : Int]
Table == [Slots -> Entry]

-----------------------------------------------------------------------------
(* The operators of timer.c.                                               *)

\* One write to the table, and what it leaves.
LEMMA OneWrite ==
  ASSUME NEW t \in Table, NEW k \in Slots, NEW e \in Entry
  PROVE  /\ Written(t, k, e) \in Table
         /\ Written(t, k, e)[k] = e
         /\ \A m \in Slots : m # k => Written(t, k, e)[m] = t[m]
BY DEF Table, Written

LEMMA StartedIsEntry ==
  ASSUME NEW period \in Nat, NEW call_back \in Callbacks
  PROVE  /\ Started(period, call_back) \in Entry
         /\ Started(period, call_back).call_back = call_back
         /\ Started(period, call_back).period = period \div us
         /\ Started(period, call_back).cpt = period \div us
BY TicksPositive DEF Started, Entry

\* timer_remove_callback frees it.
LEMMA RemoveFreesPlace ==
  ASSUME NEW t \in Table, NEW call_back, NEW k \in Slots,
         t[k].call_back = call_back,
         \A m \in Slots : t[m].call_back = call_back => m = k
  PROVE  timer_remove_callback(t, call_back)
           = Written(t, k, Freed(t[k]))
<1>1. Having(t, call_back) # {} /\ Having(t, call_back) \subseteq Slots
  BY DEF Having
<1>2. First(Having(t, call_back)) = k
  BY <1>1, FirstFound DEF Having
<1> QED
  BY <1>1, <1>2 DEF timer_remove_callback, Written, Table

-----------------------------------------------------------------------------
(* The inductive invariant.                                                *)

\* The crossing and the samples stay where user_init put them, and the phase has
\* at most one place of the rest.
LayoutOf(t) ==
  /\ t[1].call_back = "timerZeroCross"
  /\ t[2].call_back = "timerMesureSampleAdc" /\ t[2].cpt >= 1 /\ t[2].period >= 1
  /\ \A k \in Slots : k > 2 => t[k].call_back \in {NULL, "timerEnableTriack"}
  /\ \A k, m \in Slots : t[k].call_back = "timerEnableTriack"
                         /\ t[m].call_back = "timerEnableTriack" => k = m

\* timer_triack_on says whether it has one.
FlagOf(t) == timer_triack_on <=> \E k \in Slots : t[k].call_back = "timerEnableTriack"

HasPhase(k) == tab[k].call_back = "timerEnableTriack"

Layout == LayoutOf(tab) /\ FlagOf(tab) /\ tab[1].cpt >= 1

\* Every power is one whose delay is at least a tick, off, or full.
Powers == {p \in Int : p <= 9500 \/ p >= PUISSANCE_MAX}

Dimmed(p) == p > 0 /\ p < PUISSANCE_MAX

PowerInv ==
  /\ puissance_triac \in Powers /\ puissance_triac >= 0
  /\ applied \in Powers /\ applied >= -1
  /\ timer_triack_on <=> Dimmed(applied)
  /\ applied >= PUISSANCE_MAX => triac
  /\ applied <= 0 => ~triac

\* The interrupt has counted slot k in the tick that since counts last.
Passed(k) == l = 0 \/ l > k

\* Until it expires for the first time the phase counts down from its delay.
PhaseAt(k) ==
  /\ tab[k].period = Delay(applied) /\ tab[k].cpt >= 1
  /\ ~triac => tab[k].cpt = Delay(applied) - since - (IF Passed(k) THEN 1 ELSE 0)
  /\ triac => since >= Delay(applied) - 1

PhaseInv == \A k \in Slots : HasPhase(k) => PhaseAt(k)

Limit == (IF applied = -1 THEN 20001 ELSE 10000) \div us
         + (IF irq THEN 0 ELSE 9800 \div us)

\* What is left to the next crossing, and what has passed since the last.
GapInv == since + tab[1].cpt <= Limit + (IF l = 1 THEN 1 ELSE 0)

IInv == TypeOK /\ Layout /\ PowerInv /\ PhaseInv /\ GapInv

-----------------------------------------------------------------------------
(* Facts that several steps need.                                          *)

LEMMA SlotFacts ==
  /\ 1 \in Slots /\ 2 \in Slots /\ Slots \subseteq Nat \ {0}
  /\ \A k \in Slots : k > 2 \/ k = 1 \/ k = 2
BY DimmerAssumption DEF Slots

\* The interrupt goes from slot to slot, once through each.
LEMMA Walk ==
  ASSUME l \in Slots, l' = NextSlot(l)
  PROVE  /\ l' \in {0} \cup Slots /\ l' # 1
         /\ \A k \in Slots : Passed(k)' <=> Passed(k) \/ k = l
BY DimmerAssumption DEF Slots, NextSlot, Passed

\* The delay of any power with a phase is at least one tick.
LEMMA DelayPositive ==
  ASSUME NEW p \in Powers, Dimmed(p)
  PROVE  10000 - p \in Nat /\ Delay(p) \in Nat /\ Delay(p) >= 1
<1>1. 10000 - p \in Nat /\ 10000 - p >= 500
  BY DEF Powers, Dimmed, PUISSANCE_MAX
<1>2. 10000 - p >= us
  BY <1>1, DimmerAssumption
<1> QED
  BY <1>1, <1>2, TicksPositive DEF Delay

LEMMA TimesPositive ==
  /\ 20001 \div us \in Nat /\ 20001 \div us >= 1
  /\ 10000 \div us \in Nat /\ 10000 \div us >= 1
  /\ 9800 \div us \in Nat /\ 9800 \div us >= 1
  /\ 500 \div us \in Nat /\ 500 \div us >= 1
BY DimmerAssumption, TicksPositive

LEMMA LimitIsNat ==
  ASSUME applied \in Int, irq \in BOOLEAN
  PROVE  Limit \in Nat
BY TimesPositive DEF Limit

-----------------------------------------------------------------------------
(* Steps that leave the table alone.                                       *)

LEMMA CommandKeepsInv == IInv /\ (Set \/ Toggle) => IInv'
<1> SUFFICES ASSUME IInv, Set \/ Toggle PROVE IInv'
  OBVIOUS
<1> USE DEF IInv
<1>1. puissance_triac' \in Powers /\ puissance_triac' >= 0 /\ puissance_triac' \in Int
  <2>1. CASE Set
    <3>1. PICK level \in Levels : puissance_triac' = Puissance(level)
      BY <2>1 DEF Set
    <3>2. level \in 0..255
      BY DimmerAssumption
    <3> QED
      BY <3>1, <3>2 DEF Puissance, Powers, PUISSANCE_MAX
  <2>2. CASE Toggle
    BY <2>2 DEF Toggle, Powers, PUISSANCE_MAX
  <2> QED
    BY <2>1, <2>2
<1>2. UNCHANGED <<tab, l, timer_triack_on, TLI4970_is_enable, triac, irq, since, applied>>
  BY DEF Set, Toggle
<1>3. TypeOK'
  BY <1>1, <1>2 DEF TypeOK
<1>4. Layout' /\ GapInv'
  <2>1. Layout'
    BY <1>2, Zenon DEF Layout, LayoutOf, FlagOf, HasPhase
  <2>2. GapInv'
    BY <1>2 DEF GapInv, Limit
  <2> QED
    BY <2>1, <2>2
<1>6. PhaseInv'
  <2> SUFFICES ASSUME NEW k \in Slots, HasPhase(k)' PROVE PhaseAt(k)'
    BY DEF PhaseInv
  <2>1. PhaseAt(k)
    BY <1>2 DEF PhaseInv, HasPhase
  <2> QED
    BY <1>2, <2>1 DEF PhaseAt, Passed, Delay
<1>5. PowerInv'
  <2>1. /\ (applied \in Powers /\ applied >= -1)'
        /\ (timer_triack_on <=> Dimmed(applied))'
        /\ (applied >= PUISSANCE_MAX => triac)' /\ (applied <= 0 => ~triac)'
    BY <1>2, Zenon DEF PowerInv
  <2> QED
    BY <1>1, <2>1, Zenon DEF PowerInv
<1> QED
  BY <1>3, <1>4, <1>5, <1>6

LEMMA TickKeepsInv == IInv /\ Tick => IInv'
<1> SUFFICES ASSUME IInv, Tick PROVE IInv'
  OBVIOUS
<1> USE DEF IInv
<1>1. l = 0 /\ l' = 1 /\ since' = since + 1
  BY DEF Tick
<1>2. UNCHANGED <<tab, puissance_triac, timer_triack_on, TLI4970_is_enable, triac,
                  irq, applied>>
  BY DEF Tick
<1>3. TypeOK'
  BY <1>1, <1>2, SlotFacts DEF TypeOK
<1>4. Layout' /\ PowerInv'
  BY <1>2, Zenon DEF Layout, LayoutOf, FlagOf, PowerInv, HasPhase
<1>5. PhaseInv'
  <2> SUFFICES ASSUME NEW k \in Slots, HasPhase(k)' PROVE PhaseAt(k)'
    BY DEF PhaseInv
  <2>1. PhaseAt(k)
    BY <1>2 DEF PhaseInv, HasPhase
  <2>2. Passed(k) /\ ~Passed(k)'
    BY <1>1, SlotFacts DEF Passed
  <2>3. tab[k].cpt \in Int /\ since \in Int /\ Delay(applied) \in Int
    BY <2>1 DEF TypeOK, PhaseAt
  <2>4. Delay(applied)' = Delay(applied)
    BY <1>2 DEF Delay
  <2> QED
    BY <1>1, <1>2, <2>1, <2>2, <2>3, <2>4 DEF PhaseAt
<1>6. GapInv'
  <2>1. Limit' = Limit /\ Limit \in Nat
    BY <1>2, LimitIsNat DEF Limit, TypeOK
  <2>2. tab[1].cpt \in Int
    BY SlotFacts DEF TypeOK
  <2> QED
    BY <1>1, <1>2, <2>1, <2>2 DEF GapInv, TypeOK
<1> QED
  BY <1>3, <1>4, <1>5, <1>6

LEMMA SkipKeepsInv == IInv /\ Slot /\ Skip => IInv'
<1> SUFFICES ASSUME IInv, Slot, Skip PROVE IInv'
  OBVIOUS
<1> USE DEF IInv
<1>1. l \in Slots /\ l' = NextSlot(l) /\ tab[l].call_back = NULL
  BY DEF Slot, Skip
<1>2. UNCHANGED <<tab, puissance_triac, timer_triack_on, TLI4970_is_enable, triac,
                  irq, since, applied>>
  BY DEF Slot, Skip
<1>3. TypeOK'
  BY <1>1, <1>2, Walk DEF TypeOK
<1>4. Layout' /\ PowerInv'
  BY <1>2, Zenon DEF Layout, LayoutOf, FlagOf, PowerInv, HasPhase
<1>5. PhaseInv'
  <2> SUFFICES ASSUME NEW k \in Slots, HasPhase(k)' PROVE PhaseAt(k)'
    BY DEF PhaseInv
  <2>1. HasPhase(k) /\ k # l
    BY <1>1, <1>2 DEF HasPhase, NULL
  <2>2. Passed(k)' <=> Passed(k)
    BY <1>1, <2>1, Walk
  <2>3. PhaseAt(k)
    BY <2>1 DEF PhaseInv
  <2> QED
    BY <1>2, <2>2, <2>3 DEF PhaseAt, Delay
<1>6. GapInv'
  <2>1. l # 1 /\ l' # 1
    BY <1>1, Walk DEF Layout, LayoutOf, NULL
  <2> QED
    BY <1>2, <2>1 DEF GapInv, Limit
<1> QED
  BY <1>3, <1>4, <1>5, <1>6

-----------------------------------------------------------------------------
(* Steps that start or count a place.                                      *)

\* timer_change of the crossing writes the first place and no other.
LEMMA CrossingStarts ==
  ASSUME NEW t \in Table, LayoutOf(t), NEW period \in Nat
  PROVE  /\ timer_change(t, period, "timerZeroCross") \in Table
         /\ timer_change(t, period, "timerZeroCross")[1] = Started(period, "timerZeroCross")
         /\ \A m \in Slots :
              m # 1 => timer_change(t, period, "timerZeroCross")[m] = t[m]
<1>1. \A m \in Slots : t[m].call_back = "timerZeroCross" => m = 1
  BY SlotFacts DEF LayoutOf, NULL
<1>2. 1 \in Slots /\ t[1].call_back = "timerZeroCross"
  BY SlotFacts DEF LayoutOf
<1>3. timer_change(t, period, "timerZeroCross")
        = Written(t, 1, Started(period, "timerZeroCross"))
  BY <1>1, <1>2, ChangeWritesPlace
<1>4. Started(period, "timerZeroCross") \in Entry
  BY "timerZeroCross" \in Callbacks, StartedIsEntry, Zenon DEF Callbacks
<1> QED
  BY <1>2, <1>3, <1>4, OneWrite

\* The detector moves the next crossing, once.
LEMMA EdgeKeepsInv == IInv /\ ZeroCrossIRQ => IInv'
<1> SUFFICES ASSUME IInv, ZeroCrossIRQ PROVE IInv'
  OBVIOUS
<1> USE DEF IInv
<1>1. l = 0 /\ irq /\ irq' = FALSE
  BY DEF ZeroCrossIRQ
<1>2. UNCHANGED <<l, puissance_triac, timer_triack_on, TLI4970_is_enable, triac, since,
                  applied>>
  BY DEF ZeroCrossIRQ
<1>3. /\ tab' \in Table
      /\ tab'[1] = Started(9800, "timerZeroCross")
      /\ \A m \in Slots : m # 1 => tab'[m] = tab[m]
  <2>1. tab \in Table /\ LayoutOf(tab)
    BY DEF TypeOK, Table, Entry, Layout
  <2> QED
    BY <2>1, CrossingStarts DEF ZeroCrossIRQ
<1>4. tab'[1].call_back = "timerZeroCross" /\ tab'[1].cpt = 9800 \div us
  BY <1>3 DEF Started
<1>5. TypeOK'
  <2>1. tab' \in [Slots -> [call_back : Callbacks \cup {NULL}, period : Int, cpt : Int]]
    BY <1>3 DEF Table, Entry
  <2> QED
    BY <1>1, <1>2, <2>1 DEF TypeOK
<1>6. \A k \in Slots : HasPhase(k)' <=> HasPhase(k)
  BY <1>3, <1>4 DEF HasPhase, Layout, LayoutOf
<1>7. Layout'
  <2>1. LayoutOf(tab)'
    BY <1>3, <1>4, SlotFacts DEF Layout, LayoutOf
  <2>2. FlagOf(tab)'
    BY <1>2, <1>6, Zenon DEF Layout, FlagOf, HasPhase
  <2> QED
    BY <1>4, <2>1, <2>2, TimesPositive DEF Layout
<1>8. PowerInv'
  BY <1>2, Zenon DEF PowerInv
<1>9. PhaseInv'
  <2> SUFFICES ASSUME NEW k \in Slots, HasPhase(k)' PROVE PhaseAt(k)'
    BY DEF PhaseInv
  <2>1. HasPhase(k) /\ PhaseAt(k)
    BY <1>6 DEF PhaseInv
  <2>2. tab'[k] = tab[k]
    BY <1>3, <2>1 DEF HasPhase, Layout, LayoutOf
  <2> QED
    BY <1>2, <2>1, <2>2 DEF PhaseAt, Passed, Delay
<1>10. GapInv'
  <2> DEFINE A == (IF applied = -1 THEN 20001 ELSE 10000) \div us
  <2>1. A \in Nat
    BY TimesPositive
  <2>2. Limit = A + 0 /\ Limit' = A + 9800 \div us
    BY <1>1, <1>2 DEF Limit
  <2> HIDE DEF A
  <2>3. since + tab[1].cpt <= A
    BY <1>1, <2>1, <2>2 DEF GapInv
  <2>4. since' + tab'[1].cpt <= A + 9800 \div us
    <3>1. since \in Nat /\ tab[1].cpt \in Int /\ tab[1].cpt >= 1
      BY SlotFacts DEF TypeOK, Layout
    <3> QED
      BY <1>2, <1>4, <2>1, <2>3, <3>1, TimesPositive
  <2> QED
    BY <1>1, <1>2, <2>1, <2>2, <2>4, TimesPositive DEF GapInv
<1> QED
  BY <1>5, <1>7, <1>8, <1>9, <1>10

\* Every place in use has something to count, and to load if it is not the first.
LEMMA UsedPlacesRun ==
  ASSUME IInv, NEW k \in Slots, tab[k].call_back # NULL
  PROVE  tab[k].cpt >= 1 /\ (k # 1 => tab[k].period >= 1)
<1>1. CASE k > 2
  <2>1. HasPhase(k)
    BY <1>1 DEF IInv, Layout, LayoutOf, HasPhase
  <2>2. PhaseAt(k) /\ Dimmed(applied) /\ applied \in Powers
    BY <2>1, Zenon DEF IInv, PhaseInv, PowerInv, Layout, FlagOf, HasPhase
  <2> QED
    BY <2>2, DelayPositive DEF PhaseAt
<1>2. CASE k = 1 \/ k = 2
  BY <1>2 DEF IInv, Layout, LayoutOf
<1> QED
  BY <1>1, <1>2, SlotFacts

\* Counting a place changes its counter and nothing else.
LEMMA CountedWritesPlace ==
  ASSUME TypeOK, NEW k \in Slots
  PROVE  /\ Counted(tab, k) \in Table
         /\ \A m \in Slots : m # k => Counted(tab, k)[m] = tab[m]
         /\ Counted(tab, k)[k].call_back = tab[k].call_back
         /\ Counted(tab, k)[k].period = tab[k].period
         /\ Counted(tab, k)[k].cpt
              = IF Expires(tab, k) THEN tab[k].period ELSE tab[k].cpt - 1
<1>1. tab \in Table /\ tab[k] \in Entry
  BY DEF TypeOK, Table, Entry
<1> DEFINE c == IF Expires(tab, k) THEN tab[k].period ELSE tab[k].cpt - 1
<1>2. c \in Int
  BY <1>1 DEF Expires, Entry
<1> HIDE DEF c
<1>3. Counted(tab, k) = [tab EXCEPT ![k].cpt = c]
  BY DEF Counted, TypeOK, c
<1>4. [tab[k] EXCEPT !.cpt = c] \in Entry
  BY <1>1, <1>2 DEF Entry
<1>5. Counted(tab, k) = Written(tab, k, [tab[k] EXCEPT !.cpt = c])
  BY <1>3 DEF Written
<1>6. /\ Counted(tab, k) \in Table
      /\ Counted(tab, k)[k] = [tab[k] EXCEPT !.cpt = c]
      /\ \A m \in Slots : m # k => Counted(tab, k)[m] = tab[m]
  BY <1>1, <1>4, <1>5, OneWrite
<1>7. /\ Counted(tab, k)[k].call_back = tab[k].call_back
      /\ Counted(tab, k)[k].period = tab[k].period
      /\ Counted(tab, k)[k].cpt = c
  BY <1>1, <1>6 DEF Entry
<1> QED
  BY <1>6, <1>7 DEF c

\* The interrupt counts its slot, which is not an expiry of the crossing.
CountsSlot ==
  /\ l \in Slots /\ l' = NextSlot(l)
  /\ tab[l].call_back # NULL /\ (Expires(tab, l) => l # 1)
  /\ tab' = Counted(tab, l)
  /\ UNCHANGED <<puissance_triac, timer_triack_on, irq, since, applied>>

LEMMA CountsSlotKeepsTable ==
  ASSUME IInv, CountsSlot
  PROVE  /\ tab' \in Table /\ Layout' /\ GapInv'
         /\ \A k \in Slots : HasPhase(k)' <=> HasPhase(k)
         /\ \A k \in Slots : tab'[k].period = tab[k].period
         /\ \A k \in Slots : k # l => tab'[k] = tab[k]
         /\ tab'[l].cpt = IF Expires(tab, l) THEN tab[l].period ELSE tab[l].cpt - 1
         /\ tab'[l].cpt >= 1
<1> USE DEF CountsSlot
<1>1. /\ tab' \in Table
      /\ \A k \in Slots : k # l => tab'[k] = tab[k]
      /\ tab'[l].call_back = tab[l].call_back /\ tab'[l].period = tab[l].period
      /\ tab'[l].cpt = IF Expires(tab, l) THEN tab[l].period ELSE tab[l].cpt - 1
  BY CountedWritesPlace DEF IInv
<1>2. tab'[l].cpt >= 1
  <2>1. tab[l].cpt \in Int /\ tab[l].cpt >= 1 /\ (l # 1 => tab[l].period >= 1)
    BY UsedPlacesRun DEF IInv, TypeOK
  <2> QED
    BY <1>1, <2>1 DEF Expires
<1>3. \A k \in Slots : tab'[k].call_back = tab[k].call_back /\ tab'[k].period = tab[k].period
  BY <1>1
<1>4. \A k \in Slots : HasPhase(k)' <=> HasPhase(k)
  BY <1>3 DEF HasPhase
<1>5. Layout'
  <2>1. tab'[1].cpt >= 1 /\ tab'[2].cpt >= 1
    BY <1>1, <1>2, SlotFacts DEF IInv, Layout, LayoutOf
  <2>2. LayoutOf(tab)'
    BY <1>3, <2>1, SlotFacts DEF IInv, Layout, LayoutOf
  <2>3. FlagOf(tab)'
    BY <1>4, Zenon DEF IInv, Layout, FlagOf, HasPhase
  <2> QED
    BY <2>1, <2>2, <2>3 DEF Layout
<1>6. GapInv'
  <2>1. Limit' = Limit /\ Limit \in Nat
    BY LimitIsNat DEF Limit, IInv, TypeOK
  <2>2. since \in Nat /\ tab[1].cpt \in Int /\ l' # 1
    BY SlotFacts, Walk DEF IInv, TypeOK
  <2>3. since + tab[1].cpt <= Limit + (IF l = 1 THEN 1 ELSE 0)
    BY DEF IInv, GapInv
  <2>4. CASE l = 1
    BY <1>1, <2>1, <2>2, <2>3, <2>4 DEF GapInv
  <2>5. CASE l # 1
    BY <1>1, <2>1, <2>2, <2>3, <2>5, SlotFacts DEF GapInv
  <2> QED
    BY <2>4, <2>5
<1> QED
  BY <1>1, <1>2, <1>3, <1>4, <1>5, <1>6

LEMMA CountKeepsInv == IInv /\ Slot /\ Count => IInv'
<1> SUFFICES ASSUME IInv, Slot, Count PROVE IInv'
  OBVIOUS
<1>1. CountsSlot
  BY DEF Slot, Count, CountsSlot
<1>2. UNCHANGED <<puissance_triac, timer_triack_on, TLI4970_is_enable, triac, irq, since,
                  applied>>
  BY DEF Slot, Count
<1>3. ~Expires(tab, l) /\ l \in Slots /\ l' = NextSlot(l)
  BY DEF Slot, Count
<1>4. TypeOK'
  <2>1. l' \in {0} \cup Slots
    BY <1>3, Walk
  <2>2. tab' \in [Slots -> [call_back : Callbacks \cup {NULL}, period : Int, cpt : Int]]
    BY <1>1, CountsSlotKeepsTable DEF Table, Entry
  <2> QED
    BY <1>2, <2>1, <2>2 DEF IInv, TypeOK
<1>5. PowerInv'
  BY <1>2, Zenon DEF IInv, PowerInv
<1>6. PhaseInv'
  <2> SUFFICES ASSUME NEW k \in Slots, HasPhase(k)' PROVE PhaseAt(k)'
    BY DEF PhaseInv
  <2>1. HasPhase(k) /\ PhaseAt(k) /\ tab'[k].period = tab[k].period
    BY <1>1, CountsSlotKeepsTable DEF IInv, PhaseInv
  <2>2. CASE k = l
    <3>1. tab'[k].cpt = tab[k].cpt - 1 /\ tab'[k].cpt >= 1
      BY <1>1, <1>3, <2>2, CountsSlotKeepsTable
    <3>2. ~Passed(k) /\ Passed(k)'
      BY <1>3, <2>2, Walk, SlotFacts DEF Passed
    <3>3. tab[k].cpt \in Int /\ since \in Int /\ Delay(applied) \in Int
      BY <2>1 DEF IInv, TypeOK, PhaseAt
    <3> QED
      BY <1>2, <2>1, <3>1, <3>2, <3>3 DEF PhaseAt, Delay
  <2>3. CASE k # l
    <3>1. tab'[k] = tab[k]
      BY <1>1, <2>3, CountsSlotKeepsTable
    <3>2. Passed(k)' <=> Passed(k)
      BY <1>3, <2>3, Walk
    <3> QED
      BY <1>2, <2>1, <3>1, <3>2 DEF PhaseAt, Delay
  <2> QED
    BY <2>2, <2>3
<1> QED
  BY <1>1, <1>4, <1>5, <1>6, CountsSlotKeepsTable DEF IInv

LEMMA SampleKeepsInv ==
  IInv /\ Slot /\ Fire /\ tab[l].call_back = "timerMesureSampleAdc" => IInv'
<1> SUFFICES ASSUME IInv, Slot, Fire, tab[l].call_back = "timerMesureSampleAdc"
             PROVE IInv'
  OBVIOUS
<1>1. Expires(tab, l) /\ l \in Slots /\ l' = NextSlot(l) /\ puissance_triac' = puissance_triac
  BY DEF Slot, Fire
<1>2. timerMesureSampleAdc(Counted(tab, l))
  BY DEF Fire
<1>3. UNCHANGED <<puissance_triac, timer_triack_on, triac, irq, since, applied>>
  BY <1>1, <1>2 DEF timerMesureSampleAdc
<1>4. CountsSlot
  BY <1>1, <1>2, <1>3 DEF CountsSlot, timerMesureSampleAdc, IInv, Layout, LayoutOf, NULL
<1>5. TypeOK'
  <2>1. l' \in {0} \cup Slots
    BY <1>1, Walk
  <2>2. tab' \in [Slots -> [call_back : Callbacks \cup {NULL}, period : Int, cpt : Int]]
    BY <1>4, CountsSlotKeepsTable DEF Table, Entry
  <2>3. TLI4970_is_enable' \in 0..2
    BY <1>2 DEF timerMesureSampleAdc, IInv, TypeOK
  <2> QED
    BY <1>3, <2>1, <2>2, <2>3 DEF IInv, TypeOK
<1>6. PowerInv'
  BY <1>3, Zenon DEF IInv, PowerInv
<1>7. PhaseInv'
  <2> SUFFICES ASSUME NEW k \in Slots, HasPhase(k)' PROVE PhaseAt(k)'
    BY DEF PhaseInv
  <2>1. HasPhase(k) /\ PhaseAt(k)
    BY <1>4, CountsSlotKeepsTable DEF IInv, PhaseInv
  <2>2. k # l
    BY <2>1 DEF HasPhase
  <2>3. tab'[k] = tab[k]
    BY <1>4, <2>2, CountsSlotKeepsTable
  <2>4. Passed(k)' <=> Passed(k)
    BY <1>1, <2>2, Walk
  <2> QED
    BY <1>3, <2>1, <2>3, <2>4 DEF PhaseAt, Delay
<1> QED
  BY <1>4, <1>5, <1>6, <1>7, CountsSlotKeepsTable DEF IInv

\* The triac is turned on in the tick of its delay.
LEMMA PhaseKeepsInv ==
  IInv /\ Slot /\ Fire /\ tab[l].call_back = "timerEnableTriack" => IInv'
<1> SUFFICES ASSUME IInv, Slot, Fire, tab[l].call_back = "timerEnableTriack"
             PROVE IInv'
  OBVIOUS
<1>1. Expires(tab, l) /\ l \in Slots /\ l' = NextSlot(l) /\ puissance_triac' = puissance_triac
  BY DEF Slot, Fire
<1>2. timerEnableTriack(Counted(tab, l))
  BY DEF Fire
<1>3. UNCHANGED <<puissance_triac, timer_triack_on, TLI4970_is_enable, irq, since, applied>>
  BY <1>1, <1>2 DEF timerEnableTriack
<1>4. triac' = TRUE
  BY <1>2 DEF timerEnableTriack
<1>5. CountsSlot
  BY <1>1, <1>2, <1>3 DEF CountsSlot, timerEnableTriack, IInv, Layout, LayoutOf, NULL
<1>6. TypeOK'
  <2>1. l' \in {0} \cup Slots
    BY <1>1, Walk
  <2>2. tab' \in [Slots -> [call_back : Callbacks \cup {NULL}, period : Int, cpt : Int]]
    BY <1>5, CountsSlotKeepsTable DEF Table, Entry
  <2> QED
    BY <1>3, <1>4, <2>1, <2>2 DEF IInv, TypeOK
<1>7. HasPhase(l) /\ PhaseAt(l)
  BY <1>1 DEF IInv, PhaseInv, HasPhase
<1>8. PowerInv'
  <2>1. Dimmed(applied)
    BY <1>1, <1>7, Zenon DEF IInv, PowerInv, Layout, FlagOf, HasPhase
  <2>2. ~ (applied' <= 0)
    BY <1>3, <2>1 DEF Dimmed, IInv, TypeOK
  <2>3. /\ (puissance_triac \in Powers /\ puissance_triac >= 0)'
        /\ (applied \in Powers /\ applied >= -1)' /\ (timer_triack_on <=> Dimmed(applied))'
    BY <1>3, Zenon DEF IInv, PowerInv
  <2> QED
    BY <1>4, <2>2, <2>3, Zenon DEF PowerInv
<1>9. PhaseInv'
  <2> SUFFICES ASSUME NEW k \in Slots, HasPhase(k)' PROVE PhaseAt(k)'
    BY DEF PhaseInv
  <2>1. k = l
    BY <1>1, <1>5, <1>7, CountsSlotKeepsTable DEF IInv, Layout, LayoutOf, HasPhase
  <2>2. tab'[l].period = tab[l].period /\ tab'[l].cpt >= 1
    BY <1>1, <1>5, CountsSlotKeepsTable
  <2>3. since \in Int /\ Delay(applied) \in Int
    BY <1>1, <1>7 DEF IInv, TypeOK, PhaseAt
  <2>4. since >= Delay(applied) - 1
    <3>1. tab[l].cpt = 1 /\ ~Passed(l)
      BY <1>1, SlotFacts DEF Expires, Passed
    <3> QED
      BY <1>7, <2>3, <3>1 DEF PhaseAt
  <2> QED
    BY <1>3, <1>4, <1>7, <2>1, <2>2, <2>4 DEF PhaseAt, Delay
<1> QED
  BY <1>5, <1>6, <1>8, <1>9, CountsSlotKeepsTable DEF IInv

-----------------------------------------------------------------------------
(* The crossing.                                                           *)

LEMMA PhaseStops ==
  ASSUME timer_triack_on \in BOOLEAN, NEW t \in Table, LayoutOf(t), FlagOf(t)
  PROVE  /\ StoppedPhase(t) \in Table /\ LayoutOf(StoppedPhase(t))
         /\ StoppedPhase(t)[1] = t[1]
         /\ \A k \in Slots : StoppedPhase(t)[k].call_back # "timerEnableTriack"
<1>1. CASE timer_triack_on
  <2>1. PICK k \in Slots : t[k].call_back = "timerEnableTriack"
    BY <1>1 DEF FlagOf
  <2>2. \A m \in Slots : t[m].call_back = "timerEnableTriack" => m = k
    BY <2>1 DEF LayoutOf
  <2>3. StoppedPhase(t) = Written(t, k, Freed(t[k]))
    BY <1>1, <2>1, <2>2, RemoveFreesPlace DEF StoppedPhase
  <2>4. Freed(t[k]) \in Entry /\ Freed(t[k]).call_back = NULL
    BY DEF Freed, Entry, Table
  <2>5. /\ StoppedPhase(t) \in Table /\ StoppedPhase(t)[k] = Freed(t[k])
        /\ \A m \in Slots : m # k => StoppedPhase(t)[m] = t[m]
    BY <2>3, <2>4, OneWrite
  <2>6. k # 1 /\ k # 2
    BY <2>1 DEF LayoutOf
  <2>7. \A m \in Slots : StoppedPhase(t)[m].call_back # "timerEnableTriack"
    BY <2>2, <2>4, <2>5 DEF NULL
  <2>8. StoppedPhase(t)[1] = t[1] /\ StoppedPhase(t)[2] = t[2]
    BY <2>5, <2>6, SlotFacts
  <2>9. \A m \in Slots : m > 2 => StoppedPhase(t)[m].call_back \in {NULL, "timerEnableTriack"}
    BY <2>4, <2>5 DEF LayoutOf
  <2> QED
    BY <2>5, <2>7, <2>8, <2>9 DEF LayoutOf
<1>2. CASE ~timer_triack_on
  BY <1>2 DEF StoppedPhase, FlagOf
<1> QED
  BY <1>1, <1>2

LEMMA PhaseStarts ==
  ASSUME timer_triack_on \in BOOLEAN, NEW t \in Table, LayoutOf(t), FlagOf(t),
         puissance_triac \in Powers, Dimmed(puissance_triac)
  PROVE  /\ StartedPhase(t) \in Table /\ LayoutOf(StartedPhase(t))
         /\ StartedPhase(t)[1] = t[1]
         /\ \E k \in Slots : StartedPhase(t)[k].call_back = "timerEnableTriack"
         /\ \A k \in Slots : StartedPhase(t)[k].call_back = "timerEnableTriack" =>
              /\ StartedPhase(t)[k].period = Delay(puissance_triac)
              /\ StartedPhase(t)[k].cpt = Delay(puissance_triac)
<1> DEFINE e == Started(10000 - puissance_triac, "timerEnableTriack")
<1>1. /\ e \in Entry /\ e.call_back = "timerEnableTriack"
      /\ e.period = Delay(puissance_triac) /\ e.cpt = Delay(puissance_triac)
  <2>1. 10000 - puissance_triac \in Nat
    BY DelayPositive
  <2>2. "timerEnableTriack" \in Callbacks
    BY DEF Callbacks
  <2> QED
    BY <2>1, <2>2, StartedIsEntry DEF Delay
<1>2. \E k \in Slots :
        /\ StartedPhase(t) = Written(t, k, e) /\ k # 1 /\ k # 2
        /\ \A m \in Slots : t[m].call_back = "timerEnableTriack" => m = k
  <2>1. CASE timer_triack_on
    <3>1. PICK k \in Slots : t[k].call_back = "timerEnableTriack"
      BY <2>1 DEF FlagOf
    <3>2. \A m \in Slots : t[m].call_back = "timerEnableTriack" => m = k
      BY <3>1 DEF LayoutOf
    <3>3. StartedPhase(t) = Written(t, k, e)
      BY <2>1, <3>1, <3>2, ChangeWritesPlace DEF StartedPhase
    <3> QED
      BY <3>1, <3>2, <3>3 DEF LayoutOf
  <2>2. CASE ~timer_triack_on
    <3>1. 3 \in Slots
      BY DimmerAssumption DEF Slots
    <3>2. t[3].call_back = NULL
      BY <2>2, <3>1 DEF LayoutOf, FlagOf
    <3>3. PICK k \in Slots : t[k].call_back = NULL /\ StartedPhase(t) = Written(t, k, e)
      BY <2>2, <3>1, <3>2, AddTakesFreePlace DEF StartedPhase
    <3> QED
      BY <2>2, <3>3 DEF LayoutOf, FlagOf, NULL
  <2> QED
    BY <2>1, <2>2
<1> HIDE DEF e
<1>3. PICK k \in Slots :
        /\ StartedPhase(t) = Written(t, k, e) /\ k # 1 /\ k # 2
        /\ \A m \in Slots : t[m].call_back = "timerEnableTriack" => m = k
  BY <1>2
<1>4. /\ StartedPhase(t) \in Table /\ StartedPhase(t)[k] = e
      /\ \A m \in Slots : m # k => StartedPhase(t)[m] = t[m]
  BY <1>1, <1>3, OneWrite
<1>5. \A m \in Slots : StartedPhase(t)[m].call_back = "timerEnableTriack" => m = k
  BY <1>3, <1>4
<1>6. StartedPhase(t)[1] = t[1] /\ StartedPhase(t)[2] = t[2]
  BY <1>3, <1>4, SlotFacts
<1>7. \A m \in Slots : m > 2 => StartedPhase(t)[m].call_back \in {NULL, "timerEnableTriack"}
  BY <1>1, <1>4 DEF LayoutOf
<1>8. LayoutOf(StartedPhase(t))
  BY <1>5, <1>6, <1>7 DEF LayoutOf
<1> QED
  BY <1>1, <1>4, <1>5, <1>6, <1>8

\* The table that ZeroCross finds: timerZeroCross was counted and started again.
Crossing == timer_change(Counted(tab, l), 10000, "timerZeroCross")

LEMMA CrossingFindsTable ==
  ASSUME IInv, l = 1
  PROVE  /\ Crossing \in Table /\ LayoutOf(Crossing) /\ FlagOf(Crossing)
         /\ Crossing[1].cpt = 10000 \div us
<1> DEFINE C == Counted(tab, l)
<1>1. /\ C \in Table /\ C[1].call_back = tab[1].call_back
      /\ \A m \in Slots : m # 1 => C[m] = tab[m]
  BY CountedWritesPlace, SlotFacts DEF IInv
<1>2. \A m \in Slots : C[m].call_back = tab[m].call_back
  BY <1>1
<1> HIDE DEF C
<1>3. LayoutOf(C)
  BY <1>1, <1>2, SlotFacts DEF IInv, Layout, LayoutOf
<1>4. /\ Crossing \in Table /\ Crossing[1] = Started(10000, "timerZeroCross")
      /\ \A m \in Slots : m # 1 => Crossing[m] = C[m]
  BY <1>1, <1>3, CrossingStarts DEF Crossing, C
<1>5. Crossing[1].call_back = "timerZeroCross" /\ Crossing[1].cpt = 10000 \div us
  BY <1>4 DEF Started
<1>6. \A m \in Slots : Crossing[m].call_back = tab[m].call_back
  BY <1>2, <1>4, <1>5 DEF IInv, Layout, LayoutOf
<1>7. LayoutOf(Crossing)
  BY <1>3, <1>4, <1>5, SlotFacts DEF LayoutOf
<1>8. FlagOf(Crossing)
  BY <1>6, Zenon DEF IInv, Layout, FlagOf
<1> QED
  BY <1>4, <1>5, <1>7, <1>8

\* At a crossing the table, the flag and the triac follow the power.
CrossingDone ==
  /\ tab' \in Table /\ LayoutOf(tab') /\ tab'[1].cpt = 10000 \div us
  /\ timer_triack_on' \in BOOLEAN /\ triac' \in BOOLEAN
  /\ timer_triack_on' <=> Dimmed(puissance_triac)
  /\ timer_triack_on' <=> \E k \in Slots : tab'[k].call_back = "timerEnableTriack"
  /\ timer_triack_on' => ~triac'
  /\ puissance_triac >= PUISSANCE_MAX => triac'
  /\ puissance_triac <= 0 => ~triac'
  /\ \A k \in Slots : tab'[k].call_back = "timerEnableTriack" =>
       tab'[k].period = Delay(puissance_triac) /\ tab'[k].cpt = Delay(puissance_triac)

LEMMA CrossingApplies ==
  ASSUME IInv, l = 1, FullPower(Crossing) \/ PartPower(Crossing) \/ NoPower(Crossing)
  PROVE  CrossingDone
<1>1. timer_triack_on \in BOOLEAN /\ puissance_triac \in Int /\ puissance_triac \in Powers
  BY DEF IInv, TypeOK, PowerInv
<1>2. /\ Crossing \in Table /\ LayoutOf(Crossing) /\ FlagOf(Crossing)
      /\ Crossing[1].cpt = 10000 \div us
  BY CrossingFindsTable
<1>3. CASE FullPower(Crossing)
  <2>1. /\ puissance_triac >= PUISSANCE_MAX /\ timer_triack_on' = FALSE /\ triac' = TRUE
        /\ tab' = StoppedPhase(Crossing)
    BY <1>3 DEF FullPower
  <2>2. ~Dimmed(puissance_triac) /\ ~ (puissance_triac <= 0)
    BY <1>1, <2>1 DEF Dimmed, PUISSANCE_MAX
  <2>3. /\ tab' \in Table /\ LayoutOf(tab') /\ tab'[1].cpt = 10000 \div us
        /\ \A k \in Slots : tab'[k].call_back # "timerEnableTriack"
    BY <1>1, <1>2, <2>1, PhaseStops
  <2> QED
    <3>1. timer_triack_on' \in BOOLEAN /\ triac' \in BOOLEAN /\ (timer_triack_on' => ~triac')
      BY <2>1
    <3>2. timer_triack_on' <=> Dimmed(puissance_triac)
      BY <2>1, <2>2
    <3>3. timer_triack_on' <=> \E k \in Slots : tab'[k].call_back = "timerEnableTriack"
      BY <2>1, <2>3
    <3>4. \A k \in Slots : tab'[k].call_back = "timerEnableTriack" =>
            tab'[k].period = Delay(puissance_triac) /\ tab'[k].cpt = Delay(puissance_triac)
      BY <2>3
    <3>5. (puissance_triac >= PUISSANCE_MAX => triac') /\ (puissance_triac <= 0 => ~triac')
      BY <2>1, <2>2
    <3> QED
      BY <2>3, <3>1, <3>2, <3>3, <3>4, <3>5 DEF CrossingDone
<1>4. CASE PartPower(Crossing)
  <2>1. /\ puissance_triac > 0 /\ puissance_triac < PUISSANCE_MAX
        /\ timer_triack_on' = TRUE /\ triac' = FALSE /\ tab' = StartedPhase(Crossing)
    BY <1>4 DEF PartPower
  <2>2. Dimmed(puissance_triac)
    BY <2>1 DEF Dimmed
  <2>3. ~ (puissance_triac >= PUISSANCE_MAX)
    BY <1>1, <2>1 DEF PUISSANCE_MAX
  <2>4. /\ tab' \in Table /\ LayoutOf(tab') /\ tab'[1].cpt = 10000 \div us
        /\ \E k \in Slots : tab'[k].call_back = "timerEnableTriack"
        /\ \A k \in Slots : tab'[k].call_back = "timerEnableTriack" =>
             tab'[k].period = Delay(puissance_triac) /\ tab'[k].cpt = Delay(puissance_triac)
    BY <1>1, <1>2, <2>1, <2>2, PhaseStarts
  <2>5. timer_triack_on' \in BOOLEAN /\ triac' \in BOOLEAN
    BY <2>1
  <2>6. (timer_triack_on' <=> Dimmed(puissance_triac)) /\ (timer_triack_on' => ~triac')
    BY <2>1, <2>2
  <2>7. puissance_triac >= PUISSANCE_MAX => triac'
    BY <2>3
  <2>8. puissance_triac <= 0 => ~triac'
    BY <2>1
  <2>9. timer_triack_on' <=> \E k \in Slots : tab'[k].call_back = "timerEnableTriack"
    BY <2>1, <2>4
  <2> QED
    BY <2>4, <2>5, <2>6, <2>7, <2>8, <2>9 DEF CrossingDone
<1>5. CASE NoPower(Crossing)
  <2>1. /\ puissance_triac <= 0 /\ timer_triack_on' = FALSE /\ triac' = FALSE
        /\ tab' = StoppedPhase(Crossing)
    BY <1>5 DEF NoPower
  <2>2. ~Dimmed(puissance_triac) /\ ~ (puissance_triac >= PUISSANCE_MAX)
    BY <1>1, <2>1 DEF Dimmed, PUISSANCE_MAX
  <2>3. /\ tab' \in Table /\ LayoutOf(tab') /\ tab'[1].cpt = 10000 \div us
        /\ \A k \in Slots : tab'[k].call_back # "timerEnableTriack"
    BY <1>1, <1>2, <2>1, PhaseStops
  <2> QED
    <3>1. timer_triack_on' \in BOOLEAN /\ triac' \in BOOLEAN /\ (timer_triack_on' => ~triac')
      BY <2>1
    <3>2. timer_triack_on' <=> Dimmed(puissance_triac)
      BY <2>1, <2>2
    <3>3. timer_triack_on' <=> \E k \in Slots : tab'[k].call_back = "timerEnableTriack"
      BY <2>1, <2>3
    <3>4. \A k \in Slots : tab'[k].call_back = "timerEnableTriack" =>
            tab'[k].period = Delay(puissance_triac) /\ tab'[k].cpt = Delay(puissance_triac)
      BY <2>3
    <3>5. (puissance_triac >= PUISSANCE_MAX => triac') /\ (puissance_triac <= 0 => ~triac')
      BY <2>1, <2>2
    <3> QED
      BY <2>3, <3>1, <3>2, <3>3, <3>4, <3>5 DEF CrossingDone
<1> QED
  BY <1>3, <1>4, <1>5

LEMMA CrossKeepsInv ==
  IInv /\ Slot /\ Fire /\ tab[l].call_back = "timerZeroCross" => IInv'
<1> SUFFICES ASSUME IInv, Slot, Fire, tab[l].call_back = "timerZeroCross"
             PROVE IInv'
  OBVIOUS
<1>1. l \in Slots /\ l' = NextSlot(l) /\ puissance_triac' = puissance_triac
  BY DEF Slot
<1>2. l = 1
  BY <1>1, SlotFacts DEF IInv, Layout, LayoutOf, NULL
<1>3. irq' = TRUE /\ ZeroCross(Crossing)
  BY DEF Fire, timerZeroCross, Crossing
<1>4. since' = 0 /\ applied' = puissance_triac /\ TLI4970_is_enable' \in 0..2
  BY <1>3 DEF ZeroCross, IInv, TypeOK
<1>5. CrossingDone
  BY <1>2, <1>3, CrossingApplies DEF ZeroCross
<1>6. l' \in {0} \cup Slots /\ l' = 2
  BY <1>1, <1>2, Walk, DimmerAssumption DEF NextSlot
<1>7. /\ puissance_triac' \in Int /\ applied' \in Int /\ applied' >= 0
      /\ puissance_triac' \in Powers /\ applied' \in Powers /\ puissance_triac' >= 0
  BY <1>1, <1>4 DEF IInv, TypeOK, PowerInv
<1>8. TypeOK'
  <2>1. tab' \in [Slots -> [call_back : Callbacks \cup {NULL}, period : Int, cpt : Int]]
    BY <1>5 DEF CrossingDone, Table, Entry
  <2>2. timer_triack_on' \in BOOLEAN /\ triac' \in BOOLEAN /\ irq' \in BOOLEAN
    BY <1>3, <1>5 DEF CrossingDone
  <2>3. since' \in Nat
    BY <1>4
  <2> QED
    BY <1>4, <1>6, <1>7, <2>1, <2>2, <2>3, Zenon DEF TypeOK
<1>9. Layout'
  <2>1. tab'[1].cpt >= 1
    BY <1>5, TimesPositive DEF CrossingDone
  <2>2. LayoutOf(tab)'
    BY <1>5 DEF CrossingDone, LayoutOf
  <2>3. FlagOf(tab)'
    BY <1>5 DEF CrossingDone, FlagOf
  <2> QED
    BY <2>1, <2>2, <2>3 DEF Layout
<1>10. PowerInv'
  <2>1. applied' >= -1
    BY <1>7
  <2>2. timer_triack_on' <=> Dimmed(applied')
    BY <1>4, <1>5 DEF CrossingDone
  <2>3. (applied' >= PUISSANCE_MAX => triac') /\ (applied' <= 0 => ~triac')
    BY <1>4, <1>5 DEF CrossingDone
  <2> QED
    BY <1>7, <2>1, <2>2, <2>3, Zenon DEF PowerInv, Dimmed
<1>11. PhaseInv'
  <2> SUFFICES ASSUME NEW k \in Slots, HasPhase(k)' PROVE PhaseAt(k)'
    BY DEF PhaseInv
  <2>1. tab'[k].call_back = "timerEnableTriack"
    BY DEF HasPhase
  <2>2. /\ tab'[k].period = Delay(puissance_triac)
        /\ tab'[k].cpt = Delay(puissance_triac)
    BY <1>5, <2>1 DEF CrossingDone
  <2>3. Dimmed(puissance_triac) /\ ~triac'
    BY <1>5, <2>1 DEF CrossingDone
  <2>4. Delay(puissance_triac) \in Nat /\ Delay(puissance_triac) >= 1
    BY <1>1, <1>7, <2>3, DelayPositive
  <2>5. k # 1 /\ k # 2
    BY <1>5, <2>1 DEF CrossingDone, LayoutOf
  <2>6. ~Passed(k)'
    BY <1>6, <2>5, SlotFacts DEF Passed
  <2> QED
    BY <1>4, <2>2, <2>3, <2>4, <2>6 DEF PhaseAt, Delay
<1>12. GapInv'
  <2>1. Limit' = 10000 \div us
    BY <1>3, <1>7, TimesPositive DEF Limit
  <2> QED
    BY <1>4, <1>5, <1>6, <2>1, TimesPositive DEF GapInv, CrossingDone
<1> QED
  BY <1>8, <1>9, <1>10, <1>11, <1>12 DEF IInv

-----------------------------------------------------------------------------
(* The theorems.                                                           *)

LEMMA InitHasInv == Init => IInv
<1> SUFFICES ASSUME Init PROVE IInv
  OBVIOUS
<1> DEFINE empty == timer_init
           first == timer_add_callback(empty, 20001, "timerZeroCross")
           slot1 == Started(20001, "timerZeroCross")
           slot2 == Started(500, "timerMesureSampleAdc")
<1>1. /\ l = 0 /\ puissance_triac = 0 /\ timer_triack_on = FALSE
      /\ TLI4970_is_enable = 0 /\ triac = FALSE /\ irq = TRUE /\ since = 0 /\ applied = -1
  BY DEF Init
<1>2. slot1 \in Entry /\ slot2 \in Entry
  <2>1. "timerZeroCross" \in Callbacks /\ "timerMesureSampleAdc" \in Callbacks
    BY DEF Callbacks
  <2> QED
    BY <2>1, StartedIsEntry
<1>3. /\ slot1.call_back = "timerZeroCross" /\ slot1.cpt = 20001 \div us
      /\ slot2.call_back = "timerMesureSampleAdc" /\ slot2.cpt = 500 \div us
      /\ slot2.period = 500 \div us
  BY DEF Started
<1>4. empty \in Table /\ \A k \in Slots : empty[k].call_back = NULL
  BY DEF timer_init, Table, Entry
<1> HIDE DEF empty
<1>5. /\ first \in Table /\ first[1] = slot1
      /\ \A k \in Slots : k # 1 => first[k].call_back = NULL
  <2>1. PICK k \in Slots : /\ \A n \in Slots : empty[n].call_back = NULL => k <= n
                           /\ first = Written(empty, k, slot1)
    <3>1. 1 \in Slots /\ empty[1].call_back = NULL
      BY <1>4, SlotFacts
    <3> QED
      BY <3>1, AddTakesFreePlace
  <2>2. k = 1
    BY <1>4, <2>1, SlotFacts
  <2> QED
    BY <1>2, <1>4, <2>1, <2>2, OneWrite
<1>6. tab = timer_add_callback(first, 500, "timerMesureSampleAdc")
  BY DEF Init, empty
<1> HIDE DEF first, slot1, slot2
<1>7. /\ tab \in Table /\ tab[1] = slot1 /\ tab[2] = slot2
      /\ \A k \in Slots : k # 1 /\ k # 2 => tab[k].call_back = NULL
  <2>1. first[2].call_back = NULL /\ first[1].call_back # NULL
    BY <1>3, <1>5, SlotFacts DEF NULL
  <2>2. PICK k \in Slots : /\ first[k].call_back = NULL
                           /\ \A n \in Slots : first[n].call_back = NULL => k <= n
                           /\ tab = Written(first, k, slot2)
    BY <1>5, <1>6, <2>1, SlotFacts, AddTakesFreePlace DEF slot2
  <2>3. k = 2
    BY <2>1, <2>2, SlotFacts
  <2>4. /\ tab \in Table /\ tab[2] = slot2
        /\ \A m \in Slots : m # 2 => tab[m] = first[m]
    BY <1>2, <1>5, <2>2, <2>3, OneWrite
  <2> QED
    BY <1>5, <2>4, SlotFacts
<1>8. \A k \in Slots : tab[k].call_back # "timerEnableTriack"
  BY <1>3, <1>7 DEF NULL
<1>9. TypeOK
  <2>1. tab \in [Slots -> [call_back : Callbacks \cup {NULL}, period : Int, cpt : Int]]
    BY <1>7 DEF Table, Entry
  <2>2. timer_triack_on \in BOOLEAN /\ triac \in BOOLEAN /\ irq \in BOOLEAN
    BY <1>1
  <2>3. /\ l \in {0} \cup Slots /\ puissance_triac \in Int /\ applied \in Int
        /\ since \in Nat /\ TLI4970_is_enable \in 0..2
    BY <1>1
  <2> QED
    BY <2>1, <2>2, <2>3 DEF TypeOK
<1>10. Layout
  <2>1. LayoutOf(tab)
    BY <1>3, <1>7, <1>8, TimesPositive, SlotFacts DEF LayoutOf
  <2>2. FlagOf(tab)
    BY <1>1, <1>8 DEF FlagOf
  <2> QED
    BY <1>3, <1>7, <2>1, <2>2, TimesPositive DEF Layout
<1>11. PowerInv
  BY <1>1 DEF PowerInv, Powers, Dimmed, PUISSANCE_MAX
<1>12. PhaseInv
  BY <1>8 DEF PhaseInv, HasPhase
<1>13. GapInv
  BY <1>1, <1>3, <1>7, TimesPositive DEF GapInv, Limit
<1> QED
  BY <1>9, <1>10, <1>11, <1>12, <1>13 DEF IInv

LEMMA NextKeepsInv == IInv /\ [Next]_vars => IInv'
<1> SUFFICES ASSUME IInv, [Next]_vars PROVE IInv'
  OBVIOUS
<1>1. CASE Set \/ Toggle
  BY <1>1, CommandKeepsInv
<1>2. CASE Tick
  BY <1>2, TickKeepsInv
<1>3. CASE ZeroCrossIRQ
  BY <1>3, EdgeKeepsInv
<1>4. CASE Slot
  <2>1. CASE Skip
    BY <1>4, <2>1, SkipKeepsInv
  <2>2. CASE Count
    BY <1>4, <2>2, CountKeepsInv
  <2>3. CASE Fire
    <3>1. \/ tab[l].call_back = "timerZeroCross"
          \/ tab[l].call_back = "timerEnableTriack"
          \/ tab[l].call_back = "timerMesureSampleAdc"
      BY <2>3 DEF Fire
    <3> QED
      BY <1>4, <2>3, <3>1, CrossKeepsInv, PhaseKeepsInv, SampleKeepsInv
  <2> QED
    BY <1>4, <2>1, <2>2, <2>3 DEF Slot
<1>5. CASE UNCHANGED vars
  <2>1. UNCHANGED <<tab, l, puissance_triac, timer_triack_on, TLI4970_is_enable, triac,
                    irq, since, applied>>
    BY <1>5 DEF vars
  <2>2. TypeOK'
    BY <2>1 DEF IInv, TypeOK
  <2>3. Layout' /\ PowerInv'
    BY <2>1, Zenon DEF IInv, Layout, LayoutOf, FlagOf, PowerInv
  <2>4. PhaseInv'
    BY <2>1 DEF IInv, PhaseInv, PhaseAt, HasPhase, Passed, Delay
  <2>5. GapInv'
    BY <2>1 DEF IInv, GapInv, Limit
  <2> QED
    BY <2>2, <2>3, <2>4, <2>5 DEF IInv
<1> QED
  BY <1>1, <1>2, <1>3, <1>4, <1>5 DEF Next

\* The state of the dimmer is always one the facts above describe.
THEOREM InductiveInvariant == Spec => []IInv
BY InitHasInv, NextKeepsInv, PTL DEF Spec

\* The loop of timer_tim1_intr_handler stays in the table, for a table of any size.
THEOREM TypeCorrect == Spec => []TypeOK
<1>1. IInv => TypeOK
  BY DEF IInv
<1> QED
  BY <1>1, InductiveInvariant, PTL

\* timer_triack_on and the table of timer.c never disagree, and no callback is
\* registered twice or pushed out.
THEOREM FlagIsTable == Spec => []TableMatchesFlag
<1>1. IInv => TableMatchesFlag
  <2> SUFFICES ASSUME IInv PROVE TableMatchesFlag
    OBVIOUS
  <2>1. LayoutOf(tab) /\ FlagOf(tab)
    BY DEF IInv, Layout
  <2>2. \A k, m \in Slots :
          tab[k].call_back = tab[m].call_back => k = m \/ tab[k].call_back = NULL
    BY <2>1, SlotFacts DEF LayoutOf
  <2>3. Having(tab, "timerZeroCross") # {} /\ Having(tab, "timerMesureSampleAdc") # {}
    BY <2>1, SlotFacts DEF LayoutOf, Having
  <2>4. timer_triack_on <=> Having(tab, "timerEnableTriack") # {}
    BY <2>1, Zenon DEF FlagOf, Having
  <2> QED
    BY <2>2, <2>3, <2>4, Zenon DEF TableMatchesFlag
<1> QED
  BY <1>1, InductiveInvariant, PTL

\* No level and no tick stops a counter of the table of timer.c.
THEOREM CountersAlwaysRun == Spec => []CountersRun
<1>1. IInv => CountersRun
  BY UsedPlacesRun DEF CountersRun
<1> QED
  BY <1>1, InductiveInvariant, PTL

\* The triac is on from the delay of the power applied at the last crossing, to the
\* tick.
THEOREM PhaseIsExact == Spec => []PhaseAngle
<1>1. IInv => PhaseAngle
  <2> SUFFICES ASSUME IInv, l = 0
               PROVE CASE applied >= PUISSANCE_MAX -> triac
                       [] applied <= 0 -> ~triac
                       [] OTHER -> triac <=> since >= Delay(applied) - 1
    BY DEF PhaseAngle
  <2>1. applied \in Int /\ since \in Nat /\ triac \in BOOLEAN
    BY DEF IInv, TypeOK
  <2>2. CASE applied >= PUISSANCE_MAX
    <3>1. triac /\ ~ (applied <= 0)
      BY <2>1, <2>2 DEF IInv, PowerInv, PUISSANCE_MAX
    <3> QED
      BY <2>2, <3>1
  <2>3. CASE applied <= 0
    <3>1. ~triac /\ ~ (applied >= PUISSANCE_MAX)
      BY <2>1, <2>3 DEF IInv, PowerInv, PUISSANCE_MAX
    <3> QED
      BY <2>3, <3>1
  <2>4. CASE ~ (applied >= PUISSANCE_MAX) /\ ~ (applied <= 0)
    <3>1. Dimmed(applied)
      BY <2>1, <2>4 DEF Dimmed, PUISSANCE_MAX
    <3>2. PICK k \in Slots : HasPhase(k)
      BY <3>1, Zenon DEF IInv, PowerInv, Layout, FlagOf, HasPhase
    <3>3. PhaseAt(k)
      BY <3>2 DEF IInv, PhaseInv
    <3>4. tab[k].cpt \in Int /\ Delay(applied) \in Int
      BY <3>3 DEF IInv, TypeOK, PhaseAt
    <3>5. triac => since >= Delay(applied) - 1
      BY <3>3 DEF PhaseAt
    <3>6. ~triac => ~ (since >= Delay(applied) - 1)
      BY <2>1, <3>3, <3>4 DEF PhaseAt, Passed
    <3> QED
      BY <2>4, <3>5, <3>6
  <2> QED
    BY <2>2, <2>3, <2>4
<1> QED
  BY <1>1, InductiveInvariant, PTL

\* Whatever the detector does, a crossing follows another within 19.8 ms.
THEOREM GapIsBounded == Spec => []BoundedGap
<1>1. IInv => BoundedGap
  <2> SUFFICES ASSUME IInv PROVE BoundedGap
    OBVIOUS
  <2> DEFINE A == (IF applied = -1 THEN 20001 ELSE 10000) \div us
  <2>1. A \in Nat /\ since \in Nat /\ tab[1].cpt \in Int /\ tab[1].cpt >= 1
    BY TimesPositive, SlotFacts DEF IInv, TypeOK, Layout
  <2>2. Limit = A + (IF irq THEN 0 ELSE 9800 \div us)
    BY DEF Limit
  <2> HIDE DEF A
  <2>3. Limit \in Nat /\ Limit <= A + 9800 \div us
    BY <2>1, <2>2, TimesPositive
  <2>4. since <= A + 9800 \div us
    BY <2>1, <2>3, TimesPositive DEF IInv, GapInv
  <2> QED
    BY <2>4 DEF BoundedGap, A
<1> QED
  BY <1>1, InductiveInvariant, PTL
=============================================================================
