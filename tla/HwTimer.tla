------------------------------ MODULE HwTimer ------------------------------
(***************************************************************************)
(* The hardware timer of timer.c: a table of callbacks, each with the      *)
(* number of ticks left (cpt) and to count next (period).  The interrupt   *)
(* timer_tim1_intr_handler comes every us microseconds and walks through   *)
(* the table; a module that uses this one decides what callbacks do.       *)
(***************************************************************************)
EXTENDS Integers

CONSTANTS
  NB_MAX_CALLBACK_TIME,   \* places in the table
  us                      \* microseconds from one interrupt to the next

ASSUME HwTimerAssumption ==
  NB_MAX_CALLBACK_TIME \in Nat \ {0} /\ us \in Nat \ {0}

NULL == "NULL"
Slots == 1..NB_MAX_CALLBACK_TIME

Having(tab, call_back) == {l \in Slots : tab[l].call_back = call_back}
First(S) == CHOOSE l \in S : \A k \in S : l <= k

Started(period, call_back) ==
  [call_back |-> call_back, period |-> period \div us, cpt |-> period \div us]

Freed(slot) == [call_back |-> NULL, period |-> slot.period, cpt |-> 1000000]

timer_init == [l \in Slots |-> [call_back |-> NULL, period |-> 0, cpt |-> 0]]

timer_change(tab, period, call_back) ==
  LET at == Having(tab, call_back) IN
  IF at = {} THEN tab
  ELSE [tab EXCEPT ![First(at)] = Started(period, call_back)]

timer_remove_callback(tab, call_back) ==
  LET at == Having(tab, call_back) IN
  IF at = {} THEN tab
  ELSE [tab EXCEPT ![First(at)] = Freed(@)]

\* A full table drops the callback without a word.
timer_add_callback(tab, period, call_back) ==
  LET free == Having(tab, NULL) IN
  IF free = {} THEN tab
  ELSE [tab EXCEPT ![First(free)] = Started(period, call_back)]

\* The interrupt reaches slot l, which is in use.
Expires(tab, l) == tab[l].cpt = 1

Counted(tab, l) ==
  [tab EXCEPT ![l].cpt = IF Expires(tab, l) THEN tab[l].period ELSE @ - 1]

\* The slot the interrupt goes to after l; 0 is its return.
NextSlot(l) == IF l = NB_MAX_CALLBACK_TIME THEN 0 ELSE l + 1

=============================================================================
