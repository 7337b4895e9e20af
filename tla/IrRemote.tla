------------------------------- MODULE IrRemote -------------------------------
(***************************************************************************)
(* The IR remote and the camera's servos. getIR, in the interrupt thread of *)
(* wiringPi, shifts a frame bit by bit into buf while fun2 may be reading  *)
(* it; fun2 runs the command, and main those of the app and of Scratch.    *)
(* Both move the servos, each with angles of its own, over servo bits they *)
(* share without a lock.                                                   *)
(*                                                                         *)
(* Of buf only the command byte and its inverse, buf[2] and buf[3], are     *)
(* used. The signal of a frame may get lost on the way, then for the rest  *)
(* of that frame; frames are as far apart as NEC remotes send them, so a   *)
(* run of getIR that times out is over before the next frame. A bit takes a *)
(* millisecond or more: at most one is assumed to come while fun2 reads    *)
(* first one byte and then the other.                                      *)
(***************************************************************************)
EXTENDS Integers

CONSTANTS Codes,          \* the frames that are sent
          Known,          \* every code of remoteserver.h
          ServoBits,      \* the servo commands in use
          ServoCode,      \* the frame that asks for each of them
          Start, Low, High  \* of each copy of the angles, for each axis

Copies == {"app", "Scratch", "IR"}
Buttons == {"servoLeft", "servoRight", "servoUp", "servoDown"}
Axis(b) == IF b \in {"servoLeft", "servoRight"} THEN "A" ELSE "B"
Axes == {"A", "B"}

ASSUME CodesAssumption ==
  /\ Codes \subseteq Known /\ Known \subseteq Nat \ {0}
  /\ ServoCode \in [Buttons -> Known]

(* remoteserver.h: a code is a command and its inverse, as NEC remotes send  *)
(* them, and no command of the two remotes has its top bit set.            *)
ASSUME PairsAssumption ==
  \A c \in Known : c \div 256 < 128 /\ c % 256 = 255 - c \div 256

ASSUME ServoBitsAssumption == ServoBits \subseteq Buttons /\ ServoBits # {}

ASSUME AngleAssumption ==
  /\ Start \in [Copies -> [Axes -> Int]]
  /\ Low \in [Copies -> [Axes -> Int]] /\ High \in [Copies -> [Axes -> Int]]
  /\ \A k \in Copies, x \in Axes : Low[k][x] <= Start[k][x] /\ Start[k][x] <= High[k][x]

VARIABLES buf, done, bitsIn,     \* getIR: the two bytes, the flag, bits of them received
          taken, pc,             \* the command fun2 runs; where fun2 and main are
          carstate,              \* its servo bits
          angle,                 \* angleA and angleB of the three functions: what
                                 \* each of them last told the servos
          coming, standing,      \* history: the frame on the air, the last one complete
          owed                   \* history: the frame that stands in buf has not been run

receiver == <<buf, done, bitsIn, coming, standing>>
servos == <<carstate, angle>>
vars == <<receiver, taken, pc, servos, owed>>

None == 0
Idle == -1                       \* bitsIn between frames
HighByte(c) == c \div 256
LowByte(c) == c % 256

Init == /\ buf = [j \in 2 .. 3 |-> 0] /\ done = FALSE /\ bitsIn = Idle
        /\ taken = None /\ pc = [fun2 |-> "loop", main |-> "read"]
        /\ carstate = [b \in ServoBits |-> FALSE]
        /\ angle = Start
        /\ coming = None /\ standing = None /\ owed = FALSE

(***************************************************************************)
(* getIR                                                                   *)
(***************************************************************************)
(* The leader and the two address bytes.                                   *)
FrameBegins ==
  /\ bitsIn = Idle /\ bitsIn' = 0
  /\ coming' \in Codes /\ owed' = FALSE
  /\ UNCHANGED <<buf, done, standing, taken, pc, servos>>

Bit(c, n) == ((IF n < 8 THEN HighByte(c) ELSE LowByte(c)) \div (2 ^ (n % 8))) % 2

Shifted_NotHalved(byte, bit) == byte + 128 * bit
Shifted(byte, bit) == (byte \div 2) + 128 * bit

NextBit ==
  /\ bitsIn \in 0 .. 15
  /\ LET j == 2 + (bitsIn \div 8)
     IN buf' = [buf EXCEPT ![j] = Shifted(buf[j], Bit(coming, bitsIn))]
  /\ bitsIn' = bitsIn + 1
  /\ UNCHANGED <<done, coming, standing>>

(* countLow times out within the frame: the byte is shifted to its place.  *)
SignalLost ==
  /\ bitsIn \in 0 .. 15
  /\ LET j == 2 + (bitsIn \div 8)
     IN buf' = [buf EXCEPT ![j] = buf[j] \div (2 ^ (8 - (bitsIn % 8)))]
  /\ bitsIn' = Idle /\ done' = TRUE /\ coming' = None
  /\ UNCHANGED standing

BitComes == NextBit /\ UNCHANGED <<taken, pc, servos, owed>>

FrameIsLost == SignalLost /\ UNCHANGED <<taken, pc, servos, owed>>

(* countLow times out after the last bit.                                  *)
FrameEnds ==
  /\ bitsIn = 16
  /\ bitsIn' = Idle /\ done' = TRUE
  /\ standing' = coming /\ coming' = None /\ owed' = TRUE
  /\ UNCHANGED <<buf, taken, pc, servos>>

(* A run for an edge of the frame just read, or for a repeat code: both    *)
(* time out at the first bit, which clears buf[0] and reports the old      *)
(* command again.                                                          *)
Echo ==
  /\ bitsIn = Idle
  /\ done' = TRUE
  /\ UNCHANGED <<buf, bitsIn, coming, standing, taken, pc, servos, owed>>

(***************************************************************************)
(* The servos                                                              *)
(***************************************************************************)
Up(b) == b \in {"servoLeft", "servoDown"}

Stepped_Unchecked(k, b) == angle[k][Axis(b)] + (IF Up(b) THEN 50 ELSE -50)
Stepped(k, b) ==
  LET now == angle[k][Axis(b)]
  IN IF Up(b) THEN IF now < High[k][Axis(b)] THEN now + 50 ELSE High[k][Axis(b)]
              ELSE IF now > Low[k][Axis(b)] THEN now - 50 ELSE Low[k][Axis(b)]

Move(k, b) == angle' = [angle EXCEPT ![k][Axis(b)] = Stepped(k, b)]

(* The tests of updateCarMotion and IR_updateCarMotion come in this order;  *)
(* a thread that is at the test of a button goes on to the next.           *)
Order == <<"servoLeft", "servoRight", "servoUp", "servoDown">>
Later(i) == {j \in i .. 4 : Order[j] \in ServoBits}
Earliest(J) == Order[CHOOSE j \in J : \A h \in J : j <= h]
First == Earliest(Later(1))
After(b, end) == LET J == Later(1 + CHOOSE i \in 1 .. 4 : Order[i] = b)
                 IN IF J = {} THEN end ELSE Earliest(J)

(* When both threads are at the test of a bit, the other may pass it before *)
(* this one clears the bit.                                                *)
Cleared(b) == {[carstate EXCEPT ![b] = FALSE]}
                \cup (IF pc["fun2"] = b /\ pc["main"] = b THEN {carstate} ELSE {})

Test(t, k, b, next) ==
  /\ pc[t] = b
  /\ \/ carstate[b] /\ carstate' \in Cleared(b) /\ Move(k, b)
     \/ ~carstate[b] /\ UNCHANGED servos
  /\ pc' = [pc EXCEPT ![t] = next]

(***************************************************************************)
(* fun2                                                                    *)
(***************************************************************************)
Goto(t, from, to) == pc[t] = from /\ pc' = [pc EXCEPT ![t] = to]

(* Line tracking and avoidance run until they are switched off.            *)
EnterMode == /\ Goto("fun2", "loop", "mode")
             /\ UNCHANGED <<receiver, taken, servos, owed>>
LeaveMode == /\ Goto("fun2", "mode", "done")
             /\ UNCHANGED <<receiver, taken, servos, owed>>
NoMode == /\ Goto("fun2", "loop", "done")
          /\ UNCHANGED <<receiver, taken, servos, owed>>

TestDone == /\ Goto("fun2", "done", IF done THEN "clear" ELSE "loop")
            /\ UNCHANGED <<receiver, taken, servos, owed>>

Clear == /\ Goto("fun2", "clear", "read")
         /\ done' = FALSE
         /\ UNCHANGED <<buf, bitsIn, coming, standing, taken, servos, owed>>

Joined_InverseIgnored(high, low) == high * 256 + 255 - high
Joined(high, low) == high * 256 + low

(* IR_updateCarState: the bits of the servos; the rest of the command is    *)
(* CarControl's.                                                           *)
IR_updateCarState(IRVal) ==
  /\ carstate' = [b \in ServoBits |-> carstate[b] \/ ServoCode[b] = IRVal]
  /\ taken' = (IF IRVal \in Known THEN IRVal ELSE None)
  /\ owed' = (owed /\ IRVal # standing)
  /\ UNCHANGED angle

Read == /\ Goto("fun2", "read", First)
        /\ IR_updateCarState(Joined(buf[2], buf[3]))
        /\ UNCHANGED receiver

(* getIR changes buf between the two reads.                                *)
ReadMeanwhile ==
  /\ Goto("fun2", "read", First)
  /\ NextBit \/ SignalLost
  /\ IR_updateCarState(Joined(buf[2], buf'[3]))

IR_updateCarMotion ==
  \E b \in ServoBits :
    /\ Test("fun2", "IR", b, After(b, "end")) /\ UNCHANGED <<receiver, taken, owed>>

CommandDone_Clears ==
  /\ Goto("fun2", "end", "loop") /\ taken' = None /\ done' = FALSE
  /\ UNCHANGED <<buf, bitsIn, coming, standing, servos, owed>>

CommandDone == /\ Goto("fun2", "end", "loop") /\ taken' = None
               /\ UNCHANGED <<receiver, servos, owed>>

(***************************************************************************)
(* main                                                                    *)
(***************************************************************************)
updateCarState ==
  /\ Goto("main", "read", First)
  /\ \E b \in ServoBits : carstate' = [carstate EXCEPT ![b] = TRUE]
  /\ UNCHANGED <<receiver, taken, angle, owed>>

(* Here down is only tested when up is not set.                            *)
updateCarMotion ==
  \E b \in ServoBits :
    /\ Test("main", "app", b, IF b = "servoUp" /\ carstate[b] THEN "read" ELSE After(b, "read"))
    /\ UNCHANGED <<receiver, taken, owed>>

PhaseScratchCmd ==
  /\ pc["main"] = "read"
  /\ \E b \in ServoBits : Move("Scratch", b)
  /\ UNCHANGED <<receiver, taken, pc, carstate, owed>>

getIR == FrameBegins \/ BitComes \/ FrameEnds \/ FrameIsLost \/ Echo
fun2 == \/ NoMode \/ TestDone \/ Clear \/ Read \/ ReadMeanwhile
        \/ IR_updateCarMotion \/ CommandDone
main == updateCarState \/ updateCarMotion \/ PhaseScratchCmd

Next == getIR \/ fun2 \/ EnterMode \/ LeaveMode \/ main

(* fun2 does not stop between two statements; it may stay in a mode, and no *)
(* frame has to come.                                                      *)
Spec == Init /\ [][Next]_vars /\ WF_vars(fun2)

(***************************************************************************)
(* Properties                                                              *)
(***************************************************************************)
Points == Buttons \cup {"loop", "mode", "done", "clear", "read", "end"}

(* buf holds bytes, fun2 runs known commands, the angles are integers.       *)
TypeOK ==
  /\ buf \in [2 .. 3 -> 0 .. 255] /\ done \in BOOLEAN
  /\ bitsIn \in -1 .. 16
  /\ taken \in Known \cup {None} /\ pc \in [{"fun2", "main"} -> Points]
  /\ carstate \in [ServoBits -> BOOLEAN]
  /\ angle \in [Copies -> [Axes -> Int]]
  /\ coming \in Codes \cup {None} /\ standing \in Codes \cup {None} /\ owed \in BOOLEAN

(* fun2 may read buf while getIR shifts a frame in, or after the signal was *)
(* lost in the middle of one: what it then takes for a command is one that *)
(* was sent, the last complete one or the one on the air, never a third.   *)
OnlySentCommands ==
  [][taken' \notin {taken, None} => taken' \in {standing, coming}]_vars

(* No controller ever drives a servo a whole step beyond its limits,       *)
(* although it tests the limit before it makes the step, and although the  *)
(* other thread may have set the bit, or be about to clear it.             *)
PulseInRange ==
  \A k \in Copies, x \in Axes : /\ Low[k][x] - 50 < angle[k][x]
                               /\ angle[k][x] < High[k][x] + 50

(* A command that was received completely is run, whatever getIR reports in *)
(* between, unless another frame comes or fun2 stays in a mode for ever:    *)
(* done is cleared before buf is read, so that no report is lost.          *)
LastPressIsRun ==
  []<>(pc["fun2"] # "mode") => (owed ~> ~owed)
=============================================================================
