--------------------------- MODULE HwTimer_proofs --------------------------
(***************************************************************************)
(* Lemmas about the operators of HwTimer.tla, for any table and any tick:  *)
(* what the functions of timer.c write, and where.                         *)
(***************************************************************************)
EXTENDS HwTimer, WellFoundedInduction, TLAPS

\* One write to the table.
Written(t, k, e) == [t EXCEPT ![k] = e]

\* A scan of the table finds the first place.
LEMMA FirstFound ==
  ASSUME NEW S, S \subseteq Slots, S # {}
  PROVE  First(S) \in S /\ \A k \in S : First(S) <= k
<1>1. S \subseteq Nat
  BY HwTimerAssumption DEF Slots
<1> DEFINE Below == OpToRel(<, Nat)
<1>2. PICK x \in S : \A y \in S : <<y, x>> \notin Below
  <2>1. IsWellFoundedOn(Below, Nat)
    BY NatLessThanWellFounded
  <2> HIDE DEF Below
  <2>2. \E x \in S : \A y \in S : ~ (<<y, x>> \in Below)
    BY <1>1, <2>1, WFMin, Zenon
  <2> QED
    BY <2>2
<1>3. \A y \in S : x <= y
  <2>1. \A a, b \in Nat : a < b => <<a, b>> \in Below
    BY Zenon DEF OpToRel
  <2> HIDE DEF Below
  <2>2. \A y \in S : ~ (y < x)
    BY <1>1, <1>2, <2>1
  <2> QED
    BY <1>1, <2>2
<1> QED
  BY <1>3 DEF First

\* A time of at least one tick gives a counter of at least 1.
LEMMA TicksPositive ==
  ASSUME NEW time \in Nat
  PROVE  time \div us \in Nat /\ (time >= us => time \div us >= 1)
  BY HwTimerAssumption

\* timer_change starts the only place of the callback again.
LEMMA ChangeWritesPlace ==
  ASSUME NEW t, NEW call_back, NEW k \in Slots, NEW period,
         t[k].call_back = call_back,
         \A m \in Slots : t[m].call_back = call_back => m = k
  PROVE  timer_change(t, period, call_back) = Written(t, k, Started(period, call_back))
<1>1. Having(t, call_back) # {} /\ Having(t, call_back) \subseteq Slots
  BY DEF Having
<1>2. First(Having(t, call_back)) = k
  BY <1>1, FirstFound DEF Having
<1> QED
  BY <1>1, <1>2 DEF timer_change, Written

\* timer_add_callback takes the first free place, if there is one.
LEMMA AddTakesFreePlace ==
  ASSUME NEW t, NEW call_back, NEW period,
         NEW m \in Slots, t[m].call_back = NULL
  PROVE  \E k \in Slots :
           /\ t[k].call_back = NULL
           /\ \A n \in Slots : t[n].call_back = NULL => k <= n
           /\ timer_add_callback(t, period, call_back)
                = Written(t, k, Started(period, call_back))
<1>1. Having(t, NULL) # {} /\ Having(t, NULL) \subseteq Slots
  BY DEF Having
<1>2. First(Having(t, NULL)) \in Having(t, NULL)
  BY <1>1, FirstFound
<1>3. \A n \in Having(t, NULL) : First(Having(t, NULL)) <= n
  BY <1>1, FirstFound
<1> QED
  BY <1>1, <1>2, <1>3 DEF timer_add_callback, Having, Written

\* A longer time is not fewer ticks.
LEMMA TicksMonotone ==
  ASSUME NEW short \in Nat, NEW long \in Nat, short <= long
  PROVE  short \div us <= long \div us
  BY HwTimerAssumption

=============================================================================
