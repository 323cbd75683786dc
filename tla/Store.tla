------------------------------- MODULE Store -------------------------------
(***************************************************************************)
(* The roller blind of user_main.c (build STORE): the command received by  *)
(* mqttDataCb, the interrupt storeIRQ that counts the turns of the motor   *)
(* and stops it, and the timer timeout_store that stops a blocked motor.   *)
(*                                                                         *)
(* mqttDataCb and timeout_store run at task level, one at a time; storeIRQ *)
(* interrupts them between any two accesses to what they share, so that    *)
(* each of their steps is an action and storeIRQ is one.  The power of the *)
(* motor is abstracted to running or not, and sending to what is sent.     *)
(***************************************************************************)
EXTENDS Integers

CONSTANTS
  Echelle,      \* turns of the motor between the two ends of the blind
  Commands,     \* bound: the levels that are asked for, in percent
  MaxCommands,  \* bound: commands received
  MaxEdges      \* bound: interrupts of the turn sensor

ASSUME StoreAssumption ==
  /\ Echelle \in Nat \ {0}   \* t_sleep as configured: storeIRQ divides by it
  /\ Commands \subseteq 0..100
  /\ {MaxCommands, MaxEdges} \subseteq Nat

VARIABLES
  niveau, consinge,     \* position and wanted position, in turns
  niveau_100,           \* the last level storeIRQ computed
  down, up, triac,      \* puissance_pwm[0], puissance_pwm[1], puissance_triac
  armed, handler,       \* timer_timout_store runs; its function is set
  pc, delta,            \* next step and local variable of the task
  sent,                 \* the last level published
  blocked,              \* history: the last move was ended by timeout_store
  commands, edges       \* bounds

motor == <<down, up, triac>>
timer == <<armed, handler>>
vars == <<niveau, consinge, niveau_100, motor, timer, pc, delta, sent, blocked,
          commands, edges>>

Percent(turns) == (turns * 100) \div Echelle

\* Faulty: a blind turned past its end has a level past 0 or 100.
LevelUnclamped(turns) == Percent(turns)

Level(turns) == IF turns < 0 THEN 0
                ELSE IF Percent(turns) > 100 THEN 100 ELSE Percent(turns)
Trim == Echelle \div 500
Turns(percent) == (percent * Echelle) \div 100

Goto(from, to) == pc = from /\ pc' = to

-----------------------------------------------------------------------------
(* mqttDataCb: a command 'S'.                                              *)

Command(percent) ==
  /\ Goto("idle", "read")
  /\ commands < MaxCommands /\ commands' = commands + 1
  /\ consinge' = Turns(percent) /\ blocked' = FALSE
  /\ UNCHANGED <<niveau, niveau_100, motor, timer, delta, sent, edges>>

ReadDelta ==
  /\ Goto("read", IF consinge # niveau THEN "disarm" ELSE "pwm0")
  /\ delta' = consinge - niveau
  /\ UNCHANGED <<niveau, consinge, niveau_100, motor, timer, sent, blocked,
                 commands, edges>>

Disarm ==
  /\ Goto("disarm", "arm")
  /\ armed' = FALSE
  /\ UNCHANGED <<niveau, consinge, niveau_100, motor, handler, delta, sent,
                 blocked, commands, edges>>

\* Faulty: the motor is started first and then put under the timer.
ArmLate ==
  /\ Goto("arm", "pwm0")
  /\ handler' = TRUE
  /\ UNCHANGED <<niveau, consinge, niveau_100, motor, armed, delta, sent, blocked,
                 commands, edges>>

Arm ==
  /\ Goto("arm", "pwm0")
  /\ armed' = TRUE /\ handler' = TRUE
  /\ UNCHANGED <<niveau, consinge, niveau_100, motor, delta, sent, blocked,
                 commands, edges>>

\* Faulty: a reversal leaves the old direction on.
SetDownOnly ==
  /\ Goto("pwm0", "pwm1")
  /\ down' = (down \/ delta < 0)
  /\ UNCHANGED <<niveau, consinge, niveau_100, up, triac, timer, delta, sent,
                 blocked, commands, edges>>

SetDown ==
  /\ Goto("pwm0", "pwm1")
  /\ down' = (delta < 0)
  /\ UNCHANGED <<niveau, consinge, niveau_100, up, triac, timer, delta, sent,
                 blocked, commands, edges>>

SetUp ==
  /\ Goto("pwm1", "triac")
  /\ up' = (delta > 0)
  /\ UNCHANGED <<niveau, consinge, niveau_100, down, triac, timer, delta, sent,
                 blocked, commands, edges>>

SetTriac ==
  /\ Goto("triac", "idle")
  /\ triac' = (delta # 0)
  /\ UNCHANGED <<niveau, consinge, niveau_100, down, up, timer, delta, sent,
                 blocked, commands, edges>>

mqttDataCb == \/ \E percent \in Commands : Command(percent)
              \/ ReadDelta \/ Disarm \/ Arm \/ SetDown \/ SetUp \/ SetTriac

-----------------------------------------------------------------------------
(* timeout_store.                                                          *)

\* The timer expires and is disarmed.  One that storeIRQ armed before any
\* command set its function calls address 0, which restarts the device.
Expires ==
  /\ armed /\ pc = "idle" /\ handler
  /\ armed' = FALSE /\ pc' = "t_test"
  /\ UNCHANGED <<niveau, consinge, niveau_100, motor, handler, delta, sent,
                 blocked, commands, edges>>

Restart ==
  /\ armed /\ pc = "idle" /\ ~handler
  /\ niveau' = 0 /\ consinge' = 0 /\ niveau_100' = -1 /\ sent' = -1
  /\ down' = FALSE /\ up' = FALSE /\ triac' = FALSE
  /\ armed' = FALSE /\ blocked' = FALSE
  /\ UNCHANGED <<handler, pc, delta, commands, edges>>

TestMotor ==
  /\ Goto("t_test", IF down \/ up THEN "t_pwm0" ELSE "t_triac")
  /\ UNCHANGED <<niveau, consinge, niveau_100, motor, timer, delta, sent, blocked,
                 commands, edges>>

StopDown ==
  /\ Goto("t_pwm0", "t_pwm1")
  /\ down' = FALSE
  /\ UNCHANGED <<niveau, consinge, niveau_100, up, triac, timer, delta, sent,
                 blocked, commands, edges>>

StopUp ==
  /\ Goto("t_pwm1", "t_side")
  /\ up' = FALSE
  /\ UNCHANGED <<niveau, consinge, niveau_100, down, triac, timer, delta, sent,
                 blocked, commands, edges>>

ReadSide ==
  /\ Goto("t_side", "t_niveau")
  /\ delta' = consinge - niveau
  /\ UNCHANGED <<niveau, consinge, niveau_100, motor, timer, sent, blocked,
                 commands, edges>>

SetNiveau ==
  /\ Goto("t_niveau", "t_triac")
  /\ niveau' = IF delta > 0 THEN consinge + Trim ELSE consinge - Trim
  /\ blocked' = TRUE
  /\ UNCHANGED <<consinge, niveau_100, motor, timer, delta, sent, commands, edges>>

\* Faulty: the triac stays on.
StopTriacForgotten ==
  /\ Goto("t_triac", "t_send")
  /\ UNCHANGED <<niveau, consinge, niveau_100, motor, timer, delta, sent,
                 blocked, commands, edges>>

StopTriac ==
  /\ Goto("t_triac", "t_send")
  /\ triac' = FALSE
  /\ UNCHANGED <<niveau, consinge, niveau_100, down, up, timer, delta, sent,
                 blocked, commands, edges>>

\* What is sent is niveau_100; the level of niveau, computed just before, is
\* not used.
Send ==
  /\ Goto("t_send", "idle")
  /\ sent' = niveau_100
  /\ UNCHANGED <<niveau, consinge, niveau_100, motor, timer, delta, blocked,
                 commands, edges>>

timeout_store == \/ Expires \/ TestMotor \/ StopDown \/ StopUp \/ ReadSide
                 \/ SetNiveau \/ StopTriac \/ Send

-----------------------------------------------------------------------------
(* storeIRQ.                                                               *)

\* Faulty: the triac is switched off whether or not the motor was going down.
StopAtTargetUnguarded ==
  /\ down' = (down /\ consinge < niveau)
  /\ up' = (up /\ consinge > niveau)
  /\ triac' = (triac /\ consinge < niveau)

\* A direction that has reached the wanted position is switched off, and the
\* triac with it.
StopAtTarget ==
  /\ down' = (down /\ consinge < niveau)
  /\ up' = (up /\ consinge > niveau)
  /\ triac' = (triac /\ (down => down') /\ (up => up'))

\* A turn in the right direction arms the timer again; every turn is counted
\* and a new level published.
CountTurn(dir) ==
  /\ armed' = (armed \/ dir * (consinge - niveau) > 0)
  /\ niveau' = niveau + dir
  /\ niveau_100' = Level(niveau')
  /\ sent' = IF niveau_100' # niveau_100 THEN niveau_100' ELSE sent
  /\ blocked' = FALSE

\* dir is 0 when the sensor has bounced back.
storeIRQ(dir) ==
  /\ edges < MaxEdges /\ edges' = edges + 1
  /\ StopAtTarget
  /\ \/ dir \in {-1, 1} /\ CountTurn(dir)
     \/ dir = 0 /\ UNCHANGED <<niveau, niveau_100, armed, sent, blocked>>
  /\ UNCHANGED <<consinge, handler, pc, delta, commands>>

-----------------------------------------------------------------------------
Init ==
  /\ niveau = 0 /\ consinge = 0 /\ niveau_100 = -1 /\ sent = -1
  /\ down = FALSE /\ up = FALSE /\ triac = FALSE
  /\ armed = FALSE /\ handler = FALSE
  /\ pc = "idle" /\ delta = 0 /\ blocked = FALSE
  /\ commands = 0 /\ edges = 0

Next == \/ mqttDataCb \/ timeout_store \/ Restart
        \/ \E dir \in {-1, 0, 1} : storeIRQ(dir)

Spec == Init /\ [][Next]_vars

\* The task goes on and the timer expires: the interrupts are finite.
FairSpec ==
  /\ Spec
  /\ WF_vars(ReadDelta \/ Disarm \/ Arm \/ SetDown \/ SetUp \/ SetTriac)
  /\ WF_vars(timeout_store) /\ WF_vars(Restart)

-----------------------------------------------------------------------------
(* Properties.                                                             *)

Steps == {"idle", "read", "disarm", "arm", "pwm0", "pwm1", "triac", "t_test",
          "t_pwm0", "t_pwm1", "t_side", "t_niveau", "t_triac", "t_send"}

Numbers ==
  /\ niveau \in Int /\ consinge \in Int /\ delta \in Int
  /\ niveau_100 \in -1..100 /\ sent \in -1..100
  /\ commands \in 0..MaxCommands /\ edges \in 0..MaxEdges

Flags ==
  /\ down \in BOOLEAN /\ up \in BOOLEAN /\ triac \in BOOLEAN
  /\ armed \in BOOLEAN /\ handler \in BOOLEAN /\ blocked \in BOOLEAN

\* Every variable has its type.  A level is a percentage, or -1 before the
\* first; the position itself may run past either end of the blind.
TypeOK == Numbers /\ Flags /\ pc \in Steps

\* Between two tasks, a motor that runs and a triac that is on are always under
\* timeout_store, however storeIRQ came between the steps of mqttDataCb and of
\* timeout_store: a blocked motor never stays powered.
Supervised == pc = "idle" /\ (down \/ up \/ triac) => armed /\ handler

\* Between two tasks, never both directions, although a command may reverse the
\* motor while storeIRQ stops it.
OneDirection == pc = "idle" => ~(down /\ up)

\* Between two tasks, a direction that is on has its power: a stop by storeIRQ
\* never takes away the triac of a move that just began.
Powered == pc = "idle" /\ (down \/ up) => triac

\* However a move goes, reached, blocked, reversed or without a single turn,
\* the motor and the triac are switched off in the end.
MotorStops == []<>(~down /\ ~up /\ ~triac)

\* "si on est blocke stop le moteur et on dit qu'il est en possition"
\* (user_main.c:1315): the level published for a blocked blind is the one it
\* is taken to be at.
BlockedMeansInPosition ==
  pc = "idle" /\ blocked => sent \in {Level(niveau), Level(consinge)}
=============================================================================
