---------------------------- MODULE Store_proofs ----------------------------
(***************************************************************************)
(* The safety properties of Store.tla for every blind, every command and   *)
(* any number of turns.  They are not inductive: in the middle of a task   *)
(* the motor may run without its triac or its timer.  MotorInv adds what   *)
(* holds at each step of the tasks.                                        *)
(***************************************************************************)
EXTENDS Store, TLAPS

On == down \/ up \/ triac

\* What each step of mqttDataCb and of timeout_store relies on.
MotorInv ==
  /\ pc \in {"idle", "read", "pwm0", "pwm1", "triac"} => (On => armed /\ handler)
  /\ pc \in {"idle", "read", "disarm", "arm", "pwm0", "t_test"} =>
       ~(down /\ up) /\ (down \/ up => triac)
  /\ pc \in {"pwm0", "pwm1", "triac"} => (delta # 0 => armed /\ handler)
  /\ pc \in {"pwm1", "triac"} => (down => delta < 0)
  /\ pc = "triac" => (up => delta > 0)
  /\ pc \in {"t_pwm1", "t_side", "t_niveau", "t_triac", "t_send"} => ~down
  /\ pc \in {"t_side", "t_niveau", "t_triac", "t_send"} => ~up
  /\ pc = "t_send" => ~triac

IInv == TypeOK /\ MotorInv

LEMMA Constants == Echelle \in Nat \ {0} /\ MaxCommands \in Nat /\ MaxEdges \in Nat
  BY StoreAssumption

LEMMA Signs == \A d \in Int : ~(d < 0 /\ d > 0) /\ (d < 0 \/ d > 0 => d # 0)
  OBVIOUS

LEMMA Comparisons ==
  \A d : (d < 0) \in BOOLEAN /\ (d > 0) \in BOOLEAN /\ (d # 0) \in BOOLEAN
  OBVIOUS

LEMMA TurnsType == \A c \in Commands : Turns(c) \in Int
<1>1. SUFFICES ASSUME NEW c \in Commands PROVE (c * Echelle) \div 100 \in Int
  BY DEF Turns
<1>2. c \in Int
  BY StoreAssumption
<1> QED
  BY <1>2, Constants

LEMMA LevelType == \A n \in Int : Level(n) \in 0..100
<1> SUFFICES ASSUME NEW n \in Int PROVE Level(n) \in 0..100
  OBVIOUS
<1> DEFINE q == (n * 100) \div Echelle
<1>1. CASE n < 0
  BY <1>1 DEF Level
<1>2. CASE ~(n < 0)
  <2>1. q \in Int /\ q >= 0
    BY <1>2, Constants
  <2> QED
    BY <1>2, <2>1 DEF Level, Percent
<1> QED
  BY <1>1, <1>2

LEMMA TrimType == Trim \in Int
  BY Constants DEF Trim

-----------------------------------------------------------------------------
(* Types.                                                                  *)

LEMMA NumbersStep == Numbers /\ [Next]_vars => Numbers'
<1> SUFFICES ASSUME Numbers, [Next]_vars PROVE Numbers'
  OBVIOUS
<1> USE DEF Numbers, motor, timer
<1>1. ASSUME NEW percent \in Commands, Command(percent) PROVE Numbers'
  BY <1>1, TurnsType, Constants DEF Command, Goto
<1>2. CASE ReadDelta \/ Disarm \/ Arm \/ SetDown \/ SetUp \/ SetTriac
  BY <1>2 DEF ReadDelta, Disarm, Arm, SetDown, SetUp, SetTriac
<1>3. CASE Expires \/ TestMotor \/ StopDown \/ StopUp \/ ReadSide \/ StopTriac \/ Send
  BY <1>3 DEF Expires, TestMotor, StopDown, StopUp, ReadSide, StopTriac, Send
<1>4. CASE SetNiveau
  BY <1>4, TrimType DEF SetNiveau
<1>5. CASE Restart
  BY <1>5 DEF Restart
<1>6. ASSUME NEW dir \in {-1, 0, 1}, storeIRQ(dir) PROVE Numbers'
  <2>1. CASE CountTurn(dir)
    BY <1>6, <2>1, LevelType, Constants DEF storeIRQ, CountTurn
  <2>2. CASE ~CountTurn(dir)
    BY <1>6, <2>2, Constants DEF storeIRQ
  <2> QED
    BY <2>1, <2>2
<1>7. CASE UNCHANGED vars
  BY <1>7 DEF vars
<1> QED
  BY <1>1, <1>2, <1>3, <1>4, <1>5, <1>6, <1>7 DEF Next, mqttDataCb, timeout_store

LEMMA FlagsStep == Flags /\ [Next]_vars => Flags'
<1> SUFFICES ASSUME Flags, [Next]_vars PROVE Flags'
  OBVIOUS
<1> USE DEF Flags, motor, timer
<1>1. ASSUME NEW percent \in Commands, Command(percent) PROVE Flags'
  BY <1>1, Zenon DEF Command
<1>2. CASE ReadDelta
  BY <1>2, Zenon DEF ReadDelta
<1>3. CASE Disarm
  BY <1>3, Zenon DEF Disarm
<1>4. CASE Arm
  BY <1>4, Zenon DEF Arm
<1>5. CASE SetDown
  BY <1>5, Comparisons, Zenon DEF SetDown
<1>6. CASE SetUp
  BY <1>6, Comparisons, Zenon DEF SetUp
<1>7. CASE SetTriac
  BY <1>7, Comparisons, Zenon DEF SetTriac
<1>8. CASE Expires \/ TestMotor \/ StopDown \/ StopUp
  BY <1>8, Zenon DEF Expires, TestMotor, StopDown, StopUp
<1>9. CASE ReadSide \/ SetNiveau \/ StopTriac \/ Send
  BY <1>9, Zenon DEF ReadSide, SetNiveau, StopTriac, Send
<1>10. CASE Restart
  BY <1>10, Zenon DEF Restart
<1>11. ASSUME NEW dir \in {-1, 0, 1}, storeIRQ(dir) PROVE Flags'
  <2>1. down' \in BOOLEAN /\ up' \in BOOLEAN /\ triac' \in BOOLEAN
    BY <1>11, Zenon DEF storeIRQ, StopAtTarget
  <2>2. handler' \in BOOLEAN /\ armed' \in BOOLEAN /\ blocked' \in BOOLEAN
    BY <1>11, Zenon DEF storeIRQ, CountTurn
  <2> QED
    BY <2>1, <2>2, Zenon
<1>12. CASE UNCHANGED vars
  BY <1>12, Zenon DEF vars
<1> QED
  BY <1>1, <1>2, <1>3, <1>4, <1>5, <1>6, <1>7, <1>8, <1>9, <1>10, <1>11, <1>12,
     Zenon DEF Next, mqttDataCb, timeout_store

LEMMA StepsStep == pc \in Steps /\ [Next]_vars => pc' \in Steps
<1> SUFFICES ASSUME pc \in Steps, [Next]_vars PROVE pc' \in Steps
  OBVIOUS
<1> USE DEF Steps, Goto
<1>1. ASSUME NEW percent \in Commands, Command(percent) PROVE pc' \in Steps
  BY <1>1, Zenon DEF Command
<1>2. CASE ReadDelta
  BY <1>2, Zenon DEF ReadDelta
<1>3. CASE Disarm \/ Arm \/ SetDown \/ SetUp \/ SetTriac
  BY <1>3, Zenon DEF Disarm, Arm, SetDown, SetUp, SetTriac
<1>4. CASE Expires \/ TestMotor \/ StopDown \/ StopUp
  BY <1>4, Zenon DEF Expires, TestMotor, StopDown, StopUp
<1>5. CASE ReadSide \/ SetNiveau \/ StopTriac \/ Send \/ Restart
  BY <1>5, Zenon DEF ReadSide, SetNiveau, StopTriac, Send, Restart
<1>6. ASSUME NEW dir \in {-1, 0, 1}, storeIRQ(dir) PROVE pc' \in Steps
  BY <1>6, Zenon DEF storeIRQ
<1>7. CASE UNCHANGED vars
  BY <1>7, Zenon DEF vars
<1> QED
  BY <1>1, <1>2, <1>3, <1>4, <1>5, <1>6, <1>7, Zenon
     DEF Next, mqttDataCb, timeout_store

-----------------------------------------------------------------------------
(* The motor.                                                              *)

LEMMA MotorStep == Numbers /\ MotorInv /\ [Next]_vars => MotorInv'
<1> SUFFICES ASSUME Numbers, MotorInv, [Next]_vars PROVE MotorInv'
  OBVIOUS
<1> USE DEF MotorInv, On, Goto, motor, timer
<1>0. ~(delta < 0 /\ delta > 0) /\ (delta < 0 \/ delta > 0 => delta # 0)
  BY Signs DEF Numbers
<1>1. ASSUME NEW percent \in Commands, Command(percent) PROVE MotorInv'
  BY <1>1, Zenon DEF Command
<1>2. CASE ReadDelta
  <2>1. delta' # 0 => pc' = "disarm"
    BY <1>2 DEF ReadDelta, Numbers
  <2>2. pc' = "disarm" \/ pc' = "pwm0"
    BY <1>2, Zenon DEF ReadDelta
  <2> QED
    BY <1>2, <2>1, <2>2, Zenon DEF ReadDelta
<1>3. CASE Disarm
  BY <1>3, Zenon DEF Disarm
<1>4. CASE Arm
  BY <1>4, Zenon DEF Arm
<1>5. CASE SetDown
  BY <1>0, <1>5, Zenon DEF SetDown
<1>6. CASE SetUp
  BY <1>0, <1>6, Zenon DEF SetUp
<1>7. CASE SetTriac
  BY <1>0, <1>7, Zenon DEF SetTriac
<1>8. CASE Expires
  BY <1>8, Zenon DEF Expires
<1>9. CASE TestMotor
  BY <1>9, Zenon DEF TestMotor
<1>10. CASE StopDown
  BY <1>10, Zenon DEF StopDown
<1>11. CASE StopUp
  BY <1>11, Zenon DEF StopUp
<1>12. CASE ReadSide
  BY <1>12, Zenon DEF ReadSide
<1>13. CASE SetNiveau
  BY <1>13, Zenon DEF SetNiveau
<1>14. CASE StopTriac
  BY <1>14, Zenon DEF StopTriac
<1>15. CASE Send
  BY <1>15, Zenon DEF Send
<1>16. CASE Restart
  BY <1>16, Zenon DEF Restart
<1>17. ASSUME NEW dir \in {-1, 0, 1}, storeIRQ(dir) PROVE MotorInv'
  <2>1. /\ down' => down
        /\ up' => up
        /\ triac' => triac
        /\ pc' = pc /\ delta' = delta /\ (handler => handler')
    BY <1>17, Zenon DEF storeIRQ, StopAtTarget
  <2>2. armed => armed'
    BY <1>17, Zenon DEF storeIRQ, CountTurn
  <2>3. ~(down /\ up) /\ (down \/ up => triac) => (down' \/ up' => triac')
    BY <1>17, Zenon DEF storeIRQ, StopAtTarget
  <2> QED
    BY <2>1, <2>2, <2>3, Zenon
<1>18. CASE UNCHANGED vars
  BY <1>18, Zenon DEF vars
<1> QED
  BY <1>1, <1>2, <1>3, <1>4, <1>5, <1>6, <1>7, <1>8, <1>9, <1>10, <1>11, <1>12,
     <1>13, <1>14, <1>15, <1>16, <1>17, <1>18, Zenon DEF Next, mqttDataCb, timeout_store

-----------------------------------------------------------------------------
(* Theorems.                                                               *)

\* MotorInv and the types hold at every step of mqttDataCb, of timeout_store
\* and of storeIRQ.
THEOREM InductiveInvariant == Spec => []IInv
<1>1. Init => IInv
  <2> SUFFICES ASSUME Init PROVE IInv
    OBVIOUS
  <2>1. Numbers
    BY Constants DEF Init, Numbers
  <2>2. Flags /\ pc \in Steps
    BY Zenon DEF Init, Flags, Steps
  <2>3. MotorInv
    BY Zenon DEF Init, MotorInv, On
  <2> QED
    BY <2>1, <2>2, <2>3, Zenon DEF IInv, TypeOK
<1>2. IInv /\ [Next]_vars => IInv'
  BY NumbersStep, FlagsStep, StepsStep, MotorStep, Zenon DEF IInv, TypeOK
<1> QED
  BY <1>1, <1>2, PTL DEF Spec

\* Every variable has its type, whatever the turn sensor counts.
THEOREM TypeCorrect == Spec => []TypeOK
<1>1. IInv => TypeOK
  BY Zenon DEF IInv
<1> QED
  BY <1>1, InductiveInvariant, PTL

\* A motor that runs between two tasks is under timeout_store, for any blind,
\* any commands and any interleaving of storeIRQ.
THEOREM AlwaysSupervised == Spec => []Supervised
<1>1. IInv => Supervised
  BY Zenon DEF IInv, MotorInv, On, Supervised
<1> QED
  BY <1>1, InductiveInvariant, PTL

\* The motor never has both directions on between two tasks.
THEOREM NeverBothDirections == Spec => []OneDirection
<1>1. IInv => OneDirection
  BY Zenon DEF IInv, MotorInv, OneDirection
<1> QED
  BY <1>1, InductiveInvariant, PTL

\* A direction that is on between two tasks has its triac on.
THEOREM AlwaysPowered == Spec => []Powered
<1>1. IInv => Powered
  BY Zenon DEF IInv, MotorInv, Powered
<1> QED
  BY <1>1, InductiveInvariant, PTL
=============================================================================
