--------------------------- MODULE RangeFinderProofs ---------------------------
(***************************************************************************)
(* Proofs about RangeFinder, for every set of integer readings.            *)
(***************************************************************************)
EXTENDS RangeFinder, TLAPS

fun1Labels == {"measure", "decide", "powerTest", "alarm", "limitTest", "limitClear",
               "limitHigh", "limitLow"}
mainLabels == {"listen", "opening", "serve", "exit"}

(* The largest, the smallest and the sum of 0 and the first n readings.     *)
IsMax(max, n) == /\ max = 0 \/ \E k \in 1 .. n : max = sample[k]
                 /\ max >= 0 /\ \A k \in 1 .. n : sample[k] <= max
IsMin(min, n) == /\ min = 0 \/ \E k \in 1 .. n : min = sample[k]
                 /\ min <= 0 /\ \A k \in 1 .. n : sample[k] >= min
IsSum(sum, n) == sum = (IF n > 0 THEN sample[1] ELSE 0) + (IF n > 1 THEN sample[2] ELSE 0)
                         + (IF n > 2 THEN sample[3] ELSE 0)

(* What fun1 has gathered so far, and how far it is with it.                *)
Gathered == /\ IsMax(temp_max, cnt) /\ IsMin(temp_min, cnt) /\ IsSum(temp_value, cnt)
            /\ cnt = 3 <=> pc["fun1"] = "decide"
            /\ pc["fun1"] \notin {"measure", "decide"} => cnt = 0

IInv == TypeOK /\ Gathered /\ TwoSmallerDecide
-------------------------------------------------------------------------------
(* The sum of three readings without the largest and the smallest of them   *)
(* and 0: the largest is gone, the smallest only if it is not positive.    *)
LEMMA TwoSmaller ==
  ASSUME NEW s \in Int, NEW m \in Int, NEW l \in Int, NEW max \in Int, NEW min \in Int,
         s <= m, m <= l,
         max \in {0, s, m, l}, 0 <= max, l <= max,
         min \in {0, s, m, l}, 0 >= min, s >= min,
         NEW dis \in Int, dis = s + m + l - max - min
  PROVE  (dis > 0 /\ dis <= 50) <=> (m > 0 /\ (IF s > 0 THEN s ELSE 0) + m <= 50)
  OBVIOUS

(* The same of a sample, in whatever order its readings come.               *)
LEMMA Sorted ==
  ASSUME sample \in [Reading -> Int], temp_max \in Int, temp_min \in Int,
         temp_max \in {0, sample[1], sample[2], sample[3]}, 0 <= temp_max,
         \A n \in Reading : sample[n] <= temp_max,
         temp_min \in {0, sample[1], sample[2], sample[3]}, 0 >= temp_min,
         \A n \in Reading : sample[n] >= temp_min,
         NEW i \in Reading, NEW j \in Reading, NEW k \in Reading, i # j, j # k, i # k,
         sample[i] <= sample[j], sample[j] <= sample[k],
         NEW dis \in Int, dis = sample[1] + sample[2] + sample[3] - temp_max - temp_min
  PROVE  (dis > 0 /\ dis <= 50)
           <=> (sample[j] > 0 /\ (IF sample[i] > 0 THEN sample[i] ELSE 0) + sample[j] <= 50)
  <1>1. Reading = {1, 2, 3}
    BY DEF Reading
  <1>2. PICK a \in Int, b \in Int, c \in Int : a = sample[1] /\ b = sample[2] /\ c = sample[3]
    BY <1>1
  <1>3. PICK s \in Int, m \in Int, l \in Int : s = sample[i] /\ m = sample[j] /\ l = sample[k]
    OBVIOUS
  <1>4. i \in {1, 2, 3} /\ j \in {1, 2, 3} /\ k \in {1, 2, 3} /\ i # j /\ j # k /\ i # k
    BY <1>1
  <1>5. \/ s = a /\ m = b /\ l = c
        \/ s = a /\ m = c /\ l = b
        \/ s = b /\ m = a /\ l = c
        \/ s = b /\ m = c /\ l = a
        \/ s = c /\ m = a /\ l = b
        \/ s = c /\ m = b /\ l = a
    BY <1>2, <1>3, <1>4
  <1>6. /\ temp_max \in {0, a, b, c} /\ temp_min \in {0, a, b, c}
        /\ dis = a + b + c - temp_max - temp_min
    BY <1>2
  <1>7. /\ temp_max \in {0, s, m, l} /\ temp_min \in {0, s, m, l}
        /\ dis = s + m + l - temp_max - temp_min
    BY <1>5, <1>6
  <1>8. s <= m /\ m <= l /\ l <= temp_max /\ s >= temp_min
    BY <1>3
  <1>9. (dis > 0 /\ dis <= 50) <=> (m > 0 /\ (IF s > 0 THEN s ELSE 0) + m <= 50)
    BY <1>7, <1>8, TwoSmaller
  <1> QED
    BY <1>3, <1>9

(* One more reading: the three locals stay what Gathered says they are.     *)
LEMMA OneMore ==
  ASSUME TypeOK, Gathered, Measure
  PROVE  Gathered' /\ sample' \in [Reading -> Int] /\ cnt' \in 0 .. 3
         /\ {temp_min, temp_max, temp_value}' \subseteq Int
  <1> USE DEF TypeOK, Gathered, Measure, Readings, Reading, Goto
  <1>1. PICK temp \in Distances :
          /\ sample' = [sample EXCEPT ![cnt + 1] = temp]
          /\ temp_max' = IF temp_max < temp THEN temp ELSE temp_max
          /\ temp_min' = IF temp_min > temp THEN temp ELSE temp_min
          /\ temp_value' = temp_value + temp
    OBVIOUS
  <1>2. temp \in Int
    BY DistancesAssumption
  <1>3. cnt \in 0 .. 2 /\ cnt' = cnt + 1 /\ pc["fun1"] = "measure"
    OBVIOUS
  <1>4. /\ sample' \in [Reading -> Int]
        /\ sample'[cnt + 1] = temp
        /\ \A k \in 1 .. cnt : sample'[k] = sample[k]
    BY <1>1, <1>2, <1>3
  <1>5. /\ temp_max' \in Int /\ temp_max' >= temp_max /\ temp_max' >= temp
        /\ temp_max' = temp_max \/ temp_max' = temp
        /\ temp_min' \in Int /\ temp_min' <= temp_min /\ temp_min' <= temp
        /\ temp_min' = temp_min \/ temp_min' = temp
        /\ temp_value' = temp_value + temp /\ temp_value' \in Int
    BY <1>1, <1>2
  <1>6. \A k \in 1 .. cnt' : k = cnt + 1 \/ k \in 1 .. cnt
    BY <1>3
  <1>7. IsMax(temp_max, cnt)'
    BY <1>3, <1>4, <1>5, <1>6 DEF IsMax
  <1>8. IsMin(temp_min, cnt)'
    BY <1>3, <1>4, <1>5, <1>6 DEF IsMin
  <1>9. IsSum(temp_value, cnt)'
    <2>1. CASE cnt = 0
      BY <2>1, <1>2, <1>3, <1>4, <1>5 DEF IsSum
    <2>2. CASE cnt = 1
      BY <2>2, <1>2, <1>3, <1>4, <1>5 DEF IsSum
    <2>3. CASE cnt = 2
      BY <2>3, <1>2, <1>3, <1>4, <1>5 DEF IsSum
    <2> QED
      BY <2>1, <2>2, <2>3, <1>3
  <1>10. pc' = [pc EXCEPT !["fun1"] = IF cnt' = 3 THEN "decide" ELSE "measure"]
    OBVIOUS
  <1> QED
    BY <1>3, <1>4, <1>5, <1>7, <1>8, <1>9, <1>10

(* The decision: what the last loop gathered, by lemma Sorted.              *)
LEMMA Decided ==
  ASSUME TypeOK, Gathered, Decide
  PROVE  Gathered' /\ TwoSmallerDecide'
  <1>1. /\ cnt = 3 /\ cnt' = 0 /\ sample' = sample /\ sample \in [Reading -> Int]
        /\ temp_max \in Int /\ temp_min \in Int
        /\ temp_max' = 0 /\ temp_min' = 0 /\ temp_value' = 0
        /\ pc'["fun1"] = "powerTest"
    BY DEF TypeOK, Gathered, Decide, Restart, Goto
  <1>2. sample[1] \in Int /\ sample[2] \in Int /\ sample[3] \in Int
    BY <1>1 DEF Reading
  <1>3. temp_max \in {0, sample[1], sample[2], sample[3]} /\ 0 <= temp_max
        /\ \A n \in Reading : sample[n] <= temp_max
    BY <1>1 DEF Gathered, IsMax, Reading
  <1>4. temp_min \in {0, sample[1], sample[2], sample[3]} /\ 0 >= temp_min
        /\ \A n \in Reading : sample[n] >= temp_min
    BY <1>1 DEF Gathered, IsMin, Reading
  <1>5. temp_value = sample[1] + sample[2] + sample[3]
    BY <1>1 DEF Gathered, IsSum
  <1>6. PICK dis \in Int : dis = temp_value - temp_max - temp_min
    BY <1>1, <1>2, <1>5
  <1>7. disWarning' <=> (dis > 0 /\ dis <= 50)
    BY <1>6, Zenon DEF Decide
  <1>11. ASSUME NEW i \in Reading, NEW j \in Reading, NEW k \in Reading, i # j, j # k, i # k,
                sample[i] <= sample[j], sample[j] <= sample[k]
         PROVE  disWarning' <=> /\ sample[j] > 0
                                /\ (IF sample[i] > 0 THEN sample[i] ELSE 0) + sample[j] <= 50
    <2>1. (dis > 0 /\ dis <= 50)
            <=> (sample[j] > 0 /\ (IF sample[i] > 0 THEN sample[i] ELSE 0) + sample[j] <= 50)
      <3>1. dis = sample[1] + sample[2] + sample[3] - temp_max - temp_min
        BY <1>1, <1>2, <1>5, <1>6
      <3>2. sample \in [Reading -> Int] /\ temp_max \in Int /\ temp_min \in Int
        BY <1>1
      <3> HIDE DEF Reading
      <3> QED
        BY <1>3, <1>4, <1>11, <3>1, <3>2, Sorted
    <2> QED
      BY <1>7, <2>1
  <1>8. TwoSmallerDecide'
    BY <1>1, <1>11 DEF TwoSmallerDecide
  <1>9. Gathered'
    BY <1>1 DEF Gathered, IsMax, IsMin, IsSum
  <1> QED
    BY <1>8, <1>9

(* The steps that gather nothing and decide nothing leave both facts alone. *)
LEMMA OtherSteps ==
  ASSUME IInv, UNCHANGED <<cnt, temp_min, temp_max, temp_value>>,
         cnt = 0 \/ sample' = sample,
         cnt' = 3 <=> pc'["fun1"] = "decide",
         pc'["fun1"] \notin {"measure", "decide"} => cnt' = 0,
         pc'["fun1"] = "powerTest" => /\ pc["fun1"] = "powerTest"
                                       /\ sample' = sample /\ disWarning' = disWarning
  PROVE  Gathered' /\ TwoSmallerDecide'
  <1> USE DEF IInv, TypeOK, Gathered, Reading
  <1>1. Gathered'
    <2>1. CASE cnt = 0
      BY <2>1 DEF IsMax, IsMin, IsSum
    <2>2. CASE sample' = sample
      BY <2>2 DEF IsMax, IsMin, IsSum
    <2> QED
      BY <2>1, <2>2
  <1>2. TwoSmallerDecide'
    <2>1. CASE pc'["fun1"] = "powerTest"
      <3>1. pc["fun1"] = "powerTest" /\ sample' = sample /\ (disWarning' <=> disWarning)
        BY <2>1
      <3> QED
        BY <3>1, Zenon DEF TwoSmallerDecide
    <2>2. CASE pc'["fun1"] # "powerTest"
      BY <2>2, Zenon DEF TwoSmallerDecide
    <2> QED
      BY <2>1, <2>2
  <1> QED
    BY <1>1, <1>2
-------------------------------------------------------------------------------
LEMMA InitIInv == Init => IInv
  <1> SUFFICES ASSUME Init PROVE IInv
    OBVIOUS
  <1>1. TypeOK
    <2>1. sample \in [Reading -> Int] /\ cnt \in 0 .. 3
          /\ {temp_min, temp_max, temp_value} \subseteq Int
      BY DEF Init
    <2>2. pc \in [fun1 : fun1Labels, main : mainLabels]
      BY DEF Init, fun1Labels, mainLabels
    <2>3. /\ disWarning \in BOOLEAN /\ flag \in BOOLEAN /\ canStopBeep \in BOOLEAN
          /\ servoBeep \in BOOLEAN /\ due \in BOOLEAN
          /\ poweroffFlag \in BOOLEAN /\ horn \in BOOLEAN
          /\ alarmPhase \in Phases /\ beep \in {"LOW", "HIGH"}
      BY Zenon DEF Init, Phases
    <2> QED
      BY <2>1, <2>2, <2>3, Zenon DEF TypeOK, fun1Labels, mainLabels
  <1>2. Gathered
    <2>1. cnt = 0 /\ temp_max = 0 /\ temp_min = 0 /\ temp_value = 0 /\ pc["fun1"] = "measure"
      BY DEF Init
    <2> QED
      BY <2>1 DEF Gathered, IsMax, IsMin, IsSum
  <1>3. TwoSmallerDecide
    <2>1. pc["fun1"] # "powerTest"
      BY DEF Init
    <2> QED
      BY <2>1, Zenon DEF TwoSmallerDecide
  <1> QED
    BY <1>1, <1>2, <1>3 DEF IInv

LEMMA NextTypeOK ==
  ASSUME IInv, [Next]_vars
  PROVE  TypeOK'
  <1> USE DEF IInv, TypeOK
  <1>1. CASE Measure
    <2>1. sample' \in [Reading -> Int] /\ cnt' \in 0 .. 3
          /\ {temp_min, temp_max, temp_value}' \subseteq Int
      BY <1>1, OneMore
    <2>2. pc' \in [fun1 : fun1Labels, main : mainLabels]
      BY <1>1 DEF Measure, Goto, fun1Labels, mainLabels
    <2> QED
      BY <1>1, <2>1, <2>2 DEF Measure, alarmVars, mainVars, limitVars, fun1Labels, mainLabels
  <1>2. CASE Decide
    BY <1>2 DEF Decide, Restart, Goto, alarmVars, mainVars, limitVars
  <1>3. CASE PowerTest
    BY <1>3 DEF PowerTest, Goto, alarmVars, mainVars, limitVars, Reading
  <1>4. CASE Alarm
    <2>1. PICK phase \in Phases : /\ alarmPhase' = phase
                                  /\ flag' = (phase # "over")
                                  /\ beep' = Tone(phase)
      BY <1>4 DEF Alarm, Sound
    <2>2. beep' \in {"LOW", "HIGH"}
      BY <2>1 DEF Tone
    <2>3. /\ pc' \in [fun1 : fun1Labels, main : mainLabels]
          /\ canStopBeep' = TRUE
          /\ UNCHANGED <<filterVars, disWarning, mainVars, limitVars>>
      BY <1>4 DEF Alarm, Sound, Goto, fun1Labels, mainLabels
    <2> QED
      BY <2>1, <2>2, <2>3 DEF filterVars, mainVars, limitVars, fun1Labels, mainLabels
  <1>5. CASE AlarmOver
    BY <1>5 DEF AlarmOver, Goto, filterVars, mainVars, limitVars
  <1>6. CASE LimitTest \/ LimitClear \/ LimitHigh \/ LimitLow
    BY <1>6 DEF LimitTest, LimitClear, LimitHigh, LimitLow, Goto, filterVars, alarmVars,
                mainVars, limitVars
  <1>7. CASE mainSteps
    BY <1>7 DEF mainSteps, BEEP_OPEN, Opened, ExitCar, Goto, filterVars, alarmVars, mainVars,
                limitVars
  <1>8. CASE clientSteps
    BY <1>8 DEF clientSteps, Hangup, Horn, ServoLimit, PowerOff, Goto, filterVars, alarmVars,
                mainVars, limitVars
  <1>9. CASE Tick
    <2>1. alarmPhase' \in Phases
      BY <1>9 DEF Tick, Phases
    <2> QED
      BY <1>9, <2>1 DEF Tick, filterVars, mainVars, limitVars
  <1>10. CASE UNCHANGED vars
    BY <1>10 DEF vars, filterVars, alarmVars, mainVars, limitVars
  <1> QED
    BY <1>1, <1>2, <1>3, <1>4, <1>5, <1>6, <1>7, <1>8, <1>9, <1>10 DEF Next, fun1Steps

LEMMA NextIInv ==
  ASSUME IInv, [Next]_vars
  PROVE  IInv'
  <1>1. TypeOK'
    BY NextTypeOK
  <1>2. Gathered' /\ TwoSmallerDecide'
    <2> USE DEF IInv
    <2>1. CASE Measure
      BY <2>1, OneMore DEF Measure, Goto, TwoSmallerDecide, TypeOK
    <2>2. CASE Decide
      BY <2>2, Decided
    <2>3. CASE PowerTest
      BY <2>3, OtherSteps DEF PowerTest, Goto, TypeOK, Gathered
    <2>4. CASE Alarm
      BY <2>4, OtherSteps DEF Alarm, Sound, Goto, TypeOK, Gathered, filterVars
    <2>5. CASE AlarmOver \/ LimitTest \/ LimitClear \/ LimitHigh \/ LimitLow
      BY <2>5, OtherSteps DEF AlarmOver, LimitTest, LimitClear, LimitHigh, LimitLow, Goto,
                              TypeOK, Gathered, filterVars
    <2>6. CASE mainSteps \/ clientSteps \/ Tick
      <3>1. UNCHANGED filterVars /\ disWarning' = disWarning /\ pc'["fun1"] = pc["fun1"]
        BY <2>6 DEF mainSteps, clientSteps, BEEP_OPEN, Opened, ExitCar, Hangup, Horn,
                    ServoLimit, PowerOff, Tick, Goto, TypeOK
      <3> QED
        BY <3>1, OtherSteps DEF Gathered, filterVars
    <2>7. CASE UNCHANGED vars
      BY <2>7, OtherSteps DEF vars, filterVars, Gathered
    <2> QED
      BY <2>1, <2>2, <2>3, <2>4, <2>5, <2>6, <2>7 DEF Next, fun1Steps
  <1> QED
    BY <1>1, <1>2 DEF IInv

LEMMA Inductive == Spec => []IInv
  <1>1. Init => IInv
    BY InitIInv
  <1>2. IInv /\ [Next]_vars => IInv'
    BY NextIInv
  <1> QED
    BY <1>1, <1>2, PTL DEF Spec

(* Every variable of fun1 keeps its type, and a loop takes three readings.  *)
THEOREM TypeCorrect == Spec => []TypeOK
  <1>1. IInv => TypeOK
    BY DEF IInv
  <1> QED
    BY <1>1, Inductive, PTL

(* The filter of fun1, for all readings there can be: what exactly warns.   *)
THEOREM FilterIsExact == Spec => []TwoSmallerDecide
  <1>1. IInv => TwoSmallerDecide
    BY DEF IInv
  <1> QED
    BY <1>1, Inductive, PTL
-------------------------------------------------------------------------------
(* The beeper. fun1 is in no beepWarning any more once the car is being     *)
(* turned off and the exit function has silenced the pin: without that,     *)
(* the alarm could leave it on after the last call that would end it.      *)
NoLateAlarm == poweroffFlag /\ pc["main"] # "exit" => pc["fun1"] # "alarm"

(* servoBeep: main may set it at any moment of fun1's last beep; a limit     *)
(* whose beep has not begun is never forgotten.                            *)
LimitIsRemembered == due => servoBeep \/ pc["fun1"] = "limitHigh"

BeepInv == IInv /\ NoLateAlarm /\ SilenceIsOwed /\ LimitIsRemembered

LEMMA BeepInit == Init => BeepInv
  <1>1. Init => NoLateAlarm /\ SilenceIsOwed /\ LimitIsRemembered
    BY DEF Init, NoLateAlarm, SilenceIsOwed, LimitIsRemembered
  <1> QED
    BY <1>1, InitIInv DEF BeepInv

LEMMA Goes ==
  ASSUME TypeOK, NEW from, NEW to
  PROVE  /\ Goto("fun1", from, to) =>
              pc["fun1"] = from /\ pc'["fun1"] = to /\ pc'["main"] = pc["main"]
         /\ Goto("main", from, to) =>
              pc["main"] = from /\ pc'["main"] = to /\ pc'["fun1"] = pc["fun1"]
BY DEF TypeOK, Goto

LEMMA BeepNext ==
  ASSUME BeepInv, [Next]_vars
  PROVE  BeepInv'
  <1>t. TypeOK
    BY DEF BeepInv, IInv
  <1> SUFFICES NoLateAlarm' /\ SilenceIsOwed' /\ LimitIsRemembered'
    BY NextIInv DEF BeepInv
  <1> USE DEF BeepInv, NoLateAlarm, SilenceIsOwed, LimitIsRemembered
  <1>1. CASE Measure \/ Decide \/ LimitTest
    <2>1. /\ pc'["main"] = pc["main"] /\ pc'["fun1"] \notin {"alarm"}
          /\ pc["fun1"] \notin {"limitLow", "limitHigh"}
      BY <1>t, <1>1, Goes DEF Measure, Decide, LimitTest
    <2>2. UNCHANGED <<beep, horn, poweroffFlag, canStopBeep, due, servoBeep>>
      BY <1>1 DEF Measure, Decide, LimitTest, alarmVars, mainVars, limitVars
    <2> QED
      BY <2>1, <2>2
  <1>2. CASE PowerTest
    <2>1. /\ pc'["main"] = pc["main"] /\ pc["fun1"] = "powerTest"
          /\ pc'["fun1"] = IF poweroffFlag THEN "limitTest" ELSE "alarm"
      BY <1>t, <1>2, Goes DEF PowerTest
    <2>2. UNCHANGED <<beep, horn, poweroffFlag, canStopBeep, due, servoBeep>>
      BY <1>2 DEF PowerTest, alarmVars, mainVars, limitVars
    <2> QED
      BY <2>1, <2>2
  <1>3. CASE Alarm
    <2>1. pc'["main"] = pc["main"] /\ pc["fun1"] = "alarm" /\ pc'["fun1"] = "limitTest"
      BY <1>t, <1>3, Goes DEF Alarm, Sound
    <2>2. canStopBeep' = TRUE /\ UNCHANGED <<poweroffFlag, servoBeep, due>>
      BY <1>3 DEF Alarm, Sound, mainVars, limitVars
    <2> QED
      BY <2>1, <2>2
  <1>4. CASE AlarmOver
    <2>1. pc'["main"] = pc["main"] /\ pc["fun1"] = "alarm" /\ pc'["fun1"] = "limitTest"
      BY <1>t, <1>4, Goes DEF AlarmOver
    <2>2. /\ beep' = IF canStopBeep THEN "LOW" ELSE beep
          /\ UNCHANGED <<horn, poweroffFlag, servoBeep, due>>
      BY <1>4 DEF AlarmOver, mainVars, limitVars
    <2> QED
      BY <2>1, <2>2
  <1>5. CASE LimitClear
    <2>1. pc'["main"] = pc["main"] /\ pc["fun1"] = "limitClear" /\ pc'["fun1"] = "limitHigh"
      BY <1>t, <1>5, Goes DEF LimitClear
    <2> QED
      BY <1>5, <2>1 DEF LimitClear, alarmVars, mainVars
  <1>6. CASE LimitHigh
    <2>1. pc'["main"] = pc["main"] /\ pc["fun1"] = "limitHigh" /\ pc'["fun1"] = "limitLow"
      BY <1>t, <1>6, Goes DEF LimitHigh
    <2> QED
      BY <1>6, <2>1 DEF LimitHigh, alarmVars, mainVars
  <1>7. CASE LimitLow
    <2>1. pc'["main"] = pc["main"] /\ pc["fun1"] = "limitLow" /\ pc'["fun1"] = "measure"
      BY <1>t, <1>7, Goes DEF LimitLow
    <2> QED
      BY <1>7, <2>1 DEF LimitLow, alarmVars, mainVars, limitVars
  <1>8. CASE BEEP_OPEN \/ Opened
    <2>1. /\ pc'["fun1"] = pc["fun1"]
          /\ pc'["main"] = "opening" \/ beep' = "LOW"
          /\ pc["main"] # "exit"
      BY <1>t, <1>8, Goes DEF BEEP_OPEN, Opened
    <2> QED
      BY <1>8, <2>1 DEF BEEP_OPEN, Opened, alarmVars, mainVars, limitVars
  <1>9. CASE ExitCar
    <2>1. pc'["fun1"] = pc["fun1"] /\ pc["fun1"] # "alarm" /\ beep' = "LOW"
      BY <1>t, <1>9, Goes DEF ExitCar
    <2> QED
      BY <1>9, <2>1 DEF ExitCar, limitVars
  <1>10. CASE PowerOff
    <2>1. pc'["fun1"] = pc["fun1"] /\ pc["main"] = "serve" /\ pc'["main"] = "exit"
      BY <1>t, <1>10, Goes DEF PowerOff
    <2> QED
      BY <1>10, <2>1 DEF PowerOff, alarmVars, limitVars
  <1>11. CASE Hangup
    <2>1. pc'["fun1"] = pc["fun1"] /\ pc["main"] = "serve" /\ pc'["main"] = "listen"
      BY <1>t, <1>11, Goes DEF Hangup
    <2> QED
      BY <1>11, <2>1 DEF Hangup, alarmVars, mainVars, limitVars
  <1>12. ASSUME NEW on \in BOOLEAN, Horn(on)
         PROVE  NoLateAlarm' /\ SilenceIsOwed' /\ LimitIsRemembered'
    <2>1. pc'["fun1"] = pc["fun1"] /\ pc["main"] = "serve" /\ pc'["main"] = "serve"
      BY <1>t, <1>12, Goes DEF Horn
    <2>2. beep' = "HIGH" => horn'
      BY <1>12 DEF Horn
    <2> QED
      BY <1>12, <2>1, <2>2 DEF Horn, limitVars
  <1>13. CASE ServoLimit
    <2>1. pc'["fun1"] = pc["fun1"] /\ pc["main"] = "serve" /\ pc'["main"] = "serve"
      BY <1>t, <1>13, Goes DEF ServoLimit
    <2> QED
      BY <1>13, <2>1 DEF ServoLimit, alarmVars, mainVars
  <1>14. CASE Tick \/ UNCHANGED vars
    BY <1>14 DEF Tick, vars, alarmVars, mainVars, limitVars
  <1> QED
    BY <1>1, <1>2, <1>3, <1>4, <1>5, <1>6, <1>7, <1>8, <1>9, <1>10, <1>11, <1>12, <1>13, <1>14
    DEF Next, fun1Steps, mainSteps, clientSteps

LEMMA BeepsAlways == Spec => []BeepInv
  <1>1. BeepInv /\ [Next]_vars => BeepInv'
    BY BeepNext
  <1> QED
    BY <1>1, BeepInit, PTL DEF Spec

(* However fun1, main and the client interleave at the pin: a beeper that    *)
(* sounds and that nobody wants to sound has its silence still to come.    *)
THEOREM BeeperOwesSilence == Spec => []SilenceIsOwed
  <1>1. BeepInv => SilenceIsOwed
    BY DEF BeepInv
  <1> QED
    BY <1>1, BeepsAlways, PTL

(* No beep of a servo at its limit gets lost, not even one that becomes due  *)
(* while fun1 sounds the one before.                                       *)
THEOREM NoLimitForgotten == Spec => []LimitIsRemembered
  <1>1. BeepInv => LimitIsRemembered
    BY DEF BeepInv
  <1> QED
    BY <1>1, BeepsAlways, PTL
===============================================================================
