---------------------------- MODULE MCSleepCycle ----------------------------
(* SleepCycle with the timers in the order of their periods.                *)
EXTENDS SleepCycle

MCFaults == {"close", "reset", "wifi"}
=============================================================================
