------------------------------ MODULE RangeFinder ------------------------------
(***************************************************************************)
(* fun1 of remoteserver.c: three ultrasonic readings, the filter that makes *)
(* one distance of them, the warning, and the beeper, which fun1 shares     *)
(* with main without a lock.                                               *)
(*                                                                         *)
(* A reading is what disMeasure returns: 0 when no echo comes, and less     *)
(* than 0 or anything else when the wall clock is set during the echo.     *)
(***************************************************************************)
EXTENDS Integers

CONSTANT Distances     \* what disMeasure may return, in cm

ASSUME DistancesAssumption == Distances \subseteq Int

Reading == 1 .. 3

VARIABLES cnt, temp_min, temp_max, temp_value,  \* locals of fun1
          disWarning,
          flag, alarmPhase, canStopBeep,        \* statics of beepWarning
          servoBeep,                            \* main drove a servo to its limit
          poweroffFlag,
          beep,                                 \* the BEEP pin
          pc,
          sample,   \* history: the readings until what they decide is used
          horn,     \* history: the client turned the beeper on and has not turned it off
          due       \* history: a limit was hit and its beep has not begun

filterVars == <<cnt, temp_min, temp_max, temp_value, sample>>
alarmVars == <<flag, alarmPhase, canStopBeep>>
mainVars == <<poweroffFlag, horn>>
limitVars == <<servoBeep, due>>
vars == <<filterVars, disWarning, alarmVars, mainVars, limitVars, beep, pc>>

Init == /\ cnt = 0 /\ temp_min = 0 /\ temp_max = 0 /\ temp_value = 0
        /\ sample = [k \in Reading |-> 0]
        /\ disWarning = FALSE
        /\ flag = FALSE /\ alarmPhase = "now" /\ canStopBeep = FALSE
        /\ servoBeep = FALSE /\ due = FALSE
        /\ poweroffFlag = FALSE /\ horn = FALSE
        /\ beep = "LOW"
        /\ pc = [fun1 |-> "measure", main |-> "listen"]

Goto(t, from, to) == pc[t] = from /\ pc' = [pc EXCEPT ![t] = to]

(***************************************************************************)
(* fun1: measure and decide                                                *)
(***************************************************************************)
Readings_OneMore == 4
Readings == 3

Measure ==
  /\ cnt < Readings
  /\ \E temp \in Distances :
       /\ sample' = [sample EXCEPT ![cnt + 1] = temp]
       /\ temp_max' = IF temp_max < temp THEN temp ELSE temp_max
       /\ temp_min' = IF temp_min > temp THEN temp ELSE temp_min
       /\ temp_value' = temp_value + temp
  /\ cnt' = cnt + 1
  /\ Goto("fun1", "measure", IF cnt' = Readings THEN "decide" ELSE "measure")
  /\ UNCHANGED <<disWarning, alarmVars, mainVars, limitVars, beep>>

(* The loop starts from temp_min = temp_value = temp_max, so what the last  *)
(* turn leaves in temp_max matters.                                        *)
Restart(max) == temp_max' = max /\ temp_min' = max /\ temp_value' = max /\ cnt' = 0

Decide_KeepsMax ==
  /\ Goto("fun1", "decide", "powerTest")
  /\ LET dis == temp_value - temp_max - temp_min IN disWarning' = (dis > 0 /\ dis <= 50)
  /\ Restart(temp_max)
  /\ UNCHANGED <<sample, alarmVars, mainVars, limitVars, beep>>

Decide ==
  /\ Goto("fun1", "decide", "powerTest")
  /\ LET dis == temp_value - temp_max - temp_min IN disWarning' = (dis > 0 /\ dis <= 50)
  /\ Restart(0)
  /\ UNCHANGED <<sample, alarmVars, mainVars, limitVars, beep>>

(***************************************************************************)
(* fun1: the alarm, unless the car is being turned off, and the beep that   *)
(* tells of a servo at its limit                                           *)
(***************************************************************************)
PowerTest_Always ==
  /\ Goto("fun1", "powerTest", "alarm")
  /\ sample' = [k \in Reading |-> 0]
  /\ UNCHANGED <<cnt, temp_min, temp_max, temp_value, disWarning, alarmVars, mainVars,
                 limitVars, beep>>

PowerTest ==
  /\ Goto("fun1", "powerTest", IF poweroffFlag THEN "limitTest" ELSE "alarm")
  /\ sample' = [k \in Reading |-> 0]
  /\ UNCHANGED <<cnt, temp_min, temp_max, temp_value, disWarning, alarmVars, mainVars,
                 limitVars, beep>>

Phases == {"now", "first", "second", "over"}
Tone(phase) == CASE phase = "first"  -> "HIGH"
                 [] phase = "second" -> "LOW"
                 [] OTHER            -> beep

(* beepWarning while there is a warning: 50 ms on, 50 ms off.  A period     *)
(* that starts reads the clock twice, the second time however much later.  *)
Sound(stoppable) ==
  /\ disWarning
  /\ Goto("fun1", "alarm", "limitTest")
  /\ canStopBeep' = stoppable
  /\ \E phase \in IF flag THEN {alarmPhase} ELSE Phases :
       /\ alarmPhase' = phase
       /\ flag' = (phase # "over")
       /\ beep' = Tone(phase)
  /\ UNCHANGED <<filterVars, disWarning, mainVars, limitVars>>

Alarm_NeverStoppable == Sound(canStopBeep)
Alarm == Sound(TRUE)

AlarmOver == /\ ~disWarning
             /\ Goto("fun1", "alarm", "limitTest")
             /\ canStopBeep' = FALSE
             /\ beep' = IF canStopBeep THEN "LOW" ELSE beep
             /\ UNCHANGED <<filterVars, disWarning, flag, alarmPhase, mainVars, limitVars>>

Tick == /\ flag /\ alarmPhase # "over"
        /\ alarmPhase' = CASE alarmPhase = "now"    -> "first"
                           [] alarmPhase = "first"  -> "second"
                           [] alarmPhase = "second" -> "over"
        /\ UNCHANGED <<filterVars, disWarning, flag, canStopBeep, mainVars, limitVars, beep, pc>>

LimitTest == /\ Goto("fun1", "limitTest", IF servoBeep THEN "limitClear" ELSE "measure")
             /\ UNCHANGED <<filterVars, disWarning, alarmVars, mainVars, limitVars, beep>>

LimitClear == /\ Goto("fun1", "limitClear", "limitHigh")
              /\ servoBeep' = FALSE
              /\ UNCHANGED <<filterVars, disWarning, alarmVars, mainVars, due, beep>>

LimitHigh == /\ Goto("fun1", "limitHigh", "limitLow")
             /\ beep' = "HIGH"
             /\ due' = FALSE
             /\ UNCHANGED <<filterVars, disWarning, alarmVars, mainVars, servoBeep>>

LimitLow_Clears == /\ Goto("fun1", "limitLow", "measure")
                   /\ beep' = "LOW"
                   /\ servoBeep' = FALSE
                   /\ UNCHANGED <<filterVars, disWarning, alarmVars, mainVars, due>>

LimitLow == /\ Goto("fun1", "limitLow", "measure")
            /\ beep' = "LOW"
            /\ UNCHANGED <<filterVars, disWarning, alarmVars, mainVars, limitVars>>

(***************************************************************************)
(* main: what its loop and the command handlers do with the beeper         *)
(***************************************************************************)
BEEP_OPEN == /\ Goto("main", "listen", "opening")
             /\ beep' = "HIGH"
             /\ UNCHANGED <<filterVars, disWarning, alarmVars, mainVars, limitVars>>

Opened == /\ Goto("main", "opening", "serve")
          /\ beep' = "LOW"
          /\ UNCHANGED <<filterVars, disWarning, alarmVars, mainVars, limitVars>>

Hangup == /\ Goto("main", "serve", "listen")
          /\ UNCHANGED <<filterVars, disWarning, alarmVars, mainVars, limitVars, beep>>

Horn(on) == /\ Goto("main", "serve", "serve")
            /\ beep' = IF on THEN "HIGH" ELSE "LOW"
            /\ horn' = on
            /\ UNCHANGED <<filterVars, disWarning, alarmVars, poweroffFlag, limitVars>>

ServoLimit == /\ Goto("main", "serve", "serve")
              /\ servoBeep' = TRUE
              /\ due' = TRUE
              /\ UNCHANGED <<filterVars, disWarning, alarmVars, mainVars, beep>>

(* Command 19: poweroffFlag, then exit_UCTRONICS_Robot_Car, which centres   *)
(* the servos for 1.5 s before it silences the beeper: by then fun1 has     *)
(* finished a beepWarning it entered before.                               *)
PowerOff == /\ Goto("main", "serve", "exit")
            /\ poweroffFlag' = TRUE
            /\ UNCHANGED <<filterVars, disWarning, alarmVars, horn, limitVars, beep>>

ExitCar == /\ Goto("main", "exit", "serve")
           /\ pc["fun1"] # "alarm"
           /\ beep' = "LOW" /\ horn' = FALSE
           /\ UNCHANGED <<filterVars, disWarning, alarmVars, poweroffFlag, limitVars>>
-------------------------------------------------------------------------------
fun1Steps == \/ Measure \/ Decide
             \/ PowerTest \/ Alarm \/ AlarmOver
             \/ LimitTest \/ LimitClear \/ LimitHigh \/ LimitLow
mainSteps == BEEP_OPEN \/ Opened \/ ExitCar
clientSteps == Hangup \/ (\E on \in BOOLEAN : Horn(on)) \/ ServoLimit \/ PowerOff

Next == fun1Steps \/ mainSteps \/ clientSteps \/ Tick

(* Both threads are scheduled again and again, and time passes.  ExitCar    *)
(* waits for fun1 to leave beepWarning, which happens again and again.     *)
Spec == /\ Init /\ [][Next]_vars
        /\ WF_vars(fun1Steps) /\ WF_vars(BEEP_OPEN \/ Opened) /\ SF_vars(ExitCar)
        /\ WF_vars(Tick)
-------------------------------------------------------------------------------
(* Every variable has its type, and the loop takes three readings.          *)
TypeOK ==
  /\ cnt \in 0 .. 3
  /\ {temp_min, temp_max, temp_value} \subseteq Int
  /\ sample \in [Reading -> Int]
  /\ disWarning \in BOOLEAN /\ flag \in BOOLEAN /\ canStopBeep \in BOOLEAN
  /\ servoBeep \in BOOLEAN /\ due \in BOOLEAN
  /\ poweroffFlag \in BOOLEAN /\ horn \in BOOLEAN
  /\ alarmPhase \in Phases
  /\ beep \in {"LOW", "HIGH"}
  /\ pc \in [fun1 : {"measure", "decide", "powerTest", "alarm", "limitTest", "limitClear",
                     "limitHigh", "limitLow"},
             main : {"listen", "opening", "serve", "exit"}]

(* The filter of fun1.  The largest of the three readings, however wild,    *)
(* never counts, nor does anything of an earlier loop; the smallest is left *)
(* out only if no echo came (0) or the clock was set back, for temp_min     *)
(* starts at 0.  So the car is warned when the two smaller readings make no *)
(* more than 50 cm together, or, one echo missing, when the next is within  *)
(* 50 cm: a wall 26 to 50 cm away with all three echoes gives no warning.  *)
TwoSmallerDecide ==
  pc["fun1"] = "powerTest" =>
    \A i, j, k \in Reading :
      i # j /\ j # k /\ i # k /\ sample[i] <= sample[j] /\ sample[j] <= sample[k] =>
        (disWarning <=> /\ sample[j] > 0
                        /\ (IF sample[i] > 0 THEN sample[i] ELSE 0) + sample[j] <= 50)

(* Five places of two threads write the one pin.  Whenever it sounds, the    *)
(* client wants it to, or one of them has its LOW still to write: a beep    *)
(* under way, the exit function, or beepWarning, which is called until the  *)
(* car is being turned off.                                                *)
SilenceIsOwed ==
  beep = "HIGH" => \/ horn
                   \/ pc["main"] = "opening" \/ pc["fun1"] = "limitLow"
                   \/ canStopBeep /\ (poweroffFlag => pc["main"] = "exit")

(* Nothing but an alarm would sound the beeper any more.                    *)
OthersSilent == ~horn /\ ~servoBeep /\ pc["main"] = "serve"

(* beepWarning: when the obstacle is gone for good, the alarm ends and does *)
(* not leave the beeper on.                                                *)
AlarmFallsSilent == <>[](OthersSilent /\ ~disWarning) => <>[](beep = "LOW")

(* Command 19: a car that is being turned off falls silent, even with an    *)
(* obstacle in front of it.                                                *)
PowerOffIsSilent == <>[](OthersSilent /\ poweroffFlag) => <>[](beep = "LOW")

(* servoBeep: a servo that reaches its limit is followed by a beep that     *)
(* begins after it, even if it does so during the beep of the last time.   *)
LimitIsHeard == due ~> ~due
===============================================================================
