----------------------------- MODULE MotorDriver ------------------------------
(***************************************************************************)
(* motordriver.c at the level of memory accesses and pin writes.  Every    *)
(* DCMotorRun call updates the file-static latch_state with two            *)
(* read-modify-write sequences and then bit-bangs the whole byte into the  *)
(* board's shift register (latch_tx).  main, fun1 and fun2 all call it and *)
(* nothing in motordriver.c takes a lock, so the steps of two calls may    *)
(* interleave anywhere a load, a store or a digitalWrite ends.             *)
(*                                                                         *)
(* latch_state and the two registers of the board are sets: the bits that  *)
(* are 1.                                                                  *)
(***************************************************************************)
EXTENDS Integers

CONSTANTS Thread,       \* the threads that call the driver
          Main,         \* the thread that runs ControllerInit
          Motor,        \* the motors DCMotorRun accepts
          Width,        \* bits of latch_state: 8 in the code
          BitA, BitB,   \* MOTORn_A and MOTORn_B of motordriver.h
          PowerUp       \* what the board's registers may hold at power-up

Bit == 0 .. Width - 1

(* The wiring of motordriver.h: no two of the MOTORn_A, MOTORn_B agree.     *)
ASSUME WiringAssumption ==
  /\ Main \in Thread
  /\ Width \in Nat \ {0}
  /\ BitA \in [Motor -> Bit]
  /\ BitB \in [Motor -> Bit]
  /\ \A m, n \in Motor : BitA[m] # BitB[n]
  /\ \A m, n \in Motor : m # n => BitA[m] # BitA[n] /\ BitB[m] # BitB[n]
  /\ PowerUp \subseteq SUBSET Bit

Command == {"FORWARD", "BACKWARD", "RELEASE"}

(* The first and the second assignment to latch_state of each case of       *)
(* DCMotorRun's second switch, applied to a value read from latch_state.    *)
FirstEdit_BitsFromOne(latch, op) ==
  IF op.cmd = "FORWARD" THEN latch \cup {BitA[op.motor] + 1} ELSE latch \ {BitA[op.motor] + 1}
FirstEdit_ReleasesAll(latch, op) ==
  IF op.cmd = "FORWARD" THEN latch \cup {BitA[op.motor]}
  ELSE IF op.cmd = "RELEASE" THEN {} ELSE latch \ {BitA[op.motor]}
FirstEdit(latch, op) == IF op.cmd = "FORWARD" THEN latch \cup {BitA[op.motor]}
                                              ELSE latch \ {BitA[op.motor]}
SecondEdit_ForwardKeepsB(latch, op) ==
  IF op.cmd = "BACKWARD" THEN latch \cup {BitB[op.motor]}
  ELSE IF op.cmd = "FORWARD" THEN latch ELSE latch \ {BitB[op.motor]}
SecondEdit(latch, op) == IF op.cmd = "BACKWARD" THEN latch \cup {BitB[op.motor]}
                                                ELSE latch \ {BitB[op.motor]}

(* How a register that holds the bits r drives motor m.                     *)
Reading(r, m) ==
  IF BitA[m] \in r THEN IF BitB[m] \in r THEN "BOTH" ELSE "FORWARD"
                   ELSE IF BitB[m] \in r THEN "BACKWARD" ELSE "RELEASE"

VARIABLES latch_state,  \* the file-static byte of motordriver.c
          latchPin,     \* level of MOTORLATCH
          clkPin,       \* level of MOTORCLK
          dataPin,      \* level of MOTORDATA
          stages,       \* the board: stages of the shift register
          outputs,      \* the board: the latched outputs, which drive the motors
          pc,           \* pc[t]: where thread t is in DCMotorRun or latch_tx
          op,           \* op[t]: the arguments of t's call
          reg,          \* reg[t]: the byte t read last from latch_state
          i,            \* i[t]: latch_tx's loop counter
          ready,        \* ControllerInit has returned
          crowded,      \* calls have overlapped since the driver was last idle
          mixed         \* motors of overlapping calls, until a call alone names them

board == <<stages, outputs>>
pins == <<latchPin, clkPin, dataPin>>
locals == <<op, reg, i>>
history == <<crowded, mixed>>   \* not in the code: what the properties tell apart
vars == <<latch_state, pins, board, pc, locals, ready, history>>

Boot == [motor |-> "none", cmd |-> "INIT"]
Op == {Boot} \cup [motor : Motor, cmd : Command]

Goto(t, label) == pc' = [pc EXCEPT ![t] = label]

(***************************************************************************)
(* The board: a serial-in shift register with an output latch.  A rising   *)
(* edge of CLK shifts DATA in, a rising edge of LATCH copies the stages to *)
(* the outputs.                                                            *)
(***************************************************************************)
Shifted(s, d) == {k \in Bit : IF k = 0 THEN d = "HIGH" ELSE k - 1 \in s}

WriteClk(v) == /\ clkPin' = v
               /\ stages' = IF clkPin = "LOW" /\ v = "HIGH"
                              THEN Shifted(stages, dataPin) ELSE stages
               /\ UNCHANGED <<latchPin, dataPin, outputs>>

WriteLatch(v) == /\ latchPin' = v
                 /\ outputs' = IF latchPin = "LOW" /\ v = "HIGH" THEN stages ELSE outputs
                 /\ UNCHANGED <<clkPin, dataPin, stages>>

WriteData(v) == dataPin' = v /\ UNCHANGED <<latchPin, clkPin, board>>

(***************************************************************************)
(* main runs ControllerInit first, before it creates the other threads:    *)
(* latch_state = 0 and one latch_tx.                                       *)
(***************************************************************************)
Init == /\ latch_state = {}
        /\ latchPin = "LOW" /\ clkPin = "LOW" /\ dataPin = "LOW"
        /\ stages \in PowerUp
        /\ outputs \in PowerUp
        /\ pc = [t \in Thread |-> IF t = Main THEN "latchLow" ELSE "idle"]
        /\ op = [t \in Thread |-> Boot]
        /\ reg = [t \in Thread |-> {}]
        /\ i = [t \in Thread |-> 0]
        /\ ready = FALSE
        /\ crowded = FALSE
        /\ mixed = {}

Inside == {t \in Thread : pc[t] # "idle"}

(***************************************************************************)
(* DCMotorRun(m, c).  Other arguments return at a `default:` and are not   *)
(* modelled.                                                               *)
(***************************************************************************)
Enter(t, m, c) ==
  /\ ready
  /\ pc[t] = "idle"
  /\ Goto(t, "load1")
  /\ op' = [op EXCEPT ![t] = [motor |-> m, cmd |-> c]]
  /\ crowded' = (Inside # {})
  /\ mixed' =
       IF Inside = {}
         THEN mixed \ {m}
         ELSE mixed \cup {n \in Motor : n = m \/ \E u \in Inside : op[u].motor = n}
  /\ UNCHANGED <<latch_state, pins, board, reg, i, ready>>

Load(t, from, to) == /\ pc[t] = from
                     /\ Goto(t, to)
                     /\ reg' = [reg EXCEPT ![t] = latch_state]
                     /\ UNCHANGED <<latch_state, pins, board, op, i, ready, history>>

Store(value) == /\ latch_state' = value
                /\ UNCHANGED <<pins, board, locals, ready, history>>

Store1(t) == pc[t] = "store1" /\ Goto(t, "load2") /\ Store(FirstEdit(reg[t], op[t]))
Store2(t) == pc[t] = "store2" /\ Goto(t, "latchLow") /\ Store(SecondEdit(reg[t], op[t]))

(***************************************************************************)
(* latch_tx: the bits go out from the highest to the lowest.               *)
(***************************************************************************)
LatchLow(t) == /\ pc[t] = "latchLow"
               /\ Goto(t, "dataLow")
               /\ WriteLatch("LOW")
               /\ UNCHANGED <<latch_state, locals, ready, history>>

DataLow(t) == /\ pc[t] = "dataLow"
              /\ Goto(t, "clkLow")
              /\ i' = [i EXCEPT ![t] = 0]
              /\ WriteData("LOW")
              /\ UNCHANGED <<latch_state, op, reg, ready, history>>

ClkLow(t) == /\ pc[t] = "clkLow"
             /\ Goto(t, "testBit")
             /\ WriteClk("LOW")
             /\ UNCHANGED <<latch_state, locals, ready, history>>

DriveData(t) == /\ pc[t] = "driveData"
                /\ Goto(t, "clkHigh")
                /\ WriteData(IF Width - 1 - i[t] \in reg[t] THEN "HIGH" ELSE "LOW")
                /\ UNCHANGED <<latch_state, locals, ready, history>>

ClkHigh_OneBitShort(t) ==
  /\ pc[t] = "clkHigh"
  /\ i' = [i EXCEPT ![t] = @ + 1]
  /\ Goto(t, IF i[t] + 1 < Width - 1 THEN "clkLow" ELSE "latchHigh")
  /\ WriteClk("HIGH")
  /\ UNCHANGED <<latch_state, op, reg, ready, history>>

ClkHigh(t) == /\ pc[t] = "clkHigh"
              /\ i' = [i EXCEPT ![t] = @ + 1]
              /\ Goto(t, IF i[t] + 1 < Width THEN "clkLow" ELSE "latchHigh")
              /\ WriteClk("HIGH")
              /\ UNCHANGED <<latch_state, op, reg, ready, history>>

LatchHigh(t) == /\ pc[t] = "latchHigh"
                /\ Goto(t, "return")
                /\ WriteLatch("HIGH")
                /\ UNCHANGED <<latch_state, locals, ready, history>>

Return(t) == /\ pc[t] = "return"
             /\ Goto(t, "idle")
             /\ ready' = TRUE
             /\ UNCHANGED <<latch_state, pins, board, locals, history>>

Step(t) == \/ Load(t, "load1", "store1") \/ Store1(t)
           \/ Load(t, "load2", "store2") \/ Store2(t)
           \/ LatchLow(t) \/ DataLow(t)
           \/ ClkLow(t) \/ Load(t, "testBit", "driveData") \/ DriveData(t) \/ ClkHigh(t)
           \/ LatchHigh(t) \/ Return(t)

Next == \E t \in Thread :
           \/ Step(t)
           \/ \E m \in Motor, c \in Command : Enter(t, m, c)

(* A thread inside the driver is never blocked; whether it calls again is   *)
(* up to its caller.                                                       *)
Spec == Init /\ [][Next]_vars /\ \A t \in Thread : WF_vars(Step(t))
-------------------------------------------------------------------------------
(* Every variable has its type.                                             *)
TypeOK == /\ latch_state \subseteq Bit
          /\ latchPin \in {"LOW", "HIGH"}
          /\ clkPin \in {"LOW", "HIGH"}
          /\ dataPin \in {"LOW", "HIGH"}
          /\ stages \subseteq Bit
          /\ outputs \subseteq Bit
          /\ pc \in [Thread -> {"idle", "load1", "store1", "load2", "store2",
                                "latchLow", "dataLow", "clkLow", "testBit",
                                "driveData", "clkHigh", "latchHigh", "return"}]
          /\ op \in [Thread -> Op]
          /\ reg \in [Thread -> SUBSET Bit]
          /\ i \in [Thread -> Nat]
          /\ ready \in BOOLEAN
          /\ crowded \in BOOLEAN
          /\ mixed \subseteq Motor

(* A call that no other call overlapped does what its arguments say: when   *)
(* latch_tx returns, the motor named in the call is driven as commanded and *)
(* the board shows exactly latch_state -- whatever races happened before.   *)
UndisturbedCall ==
  \A t \in Thread : pc[t] = "return" /\ ~crowded =>
     /\ outputs = latch_state
     /\ op[t].cmd # "INIT" => Reading(outputs, op[t].motor) = op[t].cmd

(* No undisturbed call drives both inputs of a motor high, although         *)
(* latch_state has both set between the two edits of a reversal, and        *)
(* although the call sends the bits of every motor: only overlapping calls  *)
(* on the motor itself can leave it so, until an undisturbed one names it.  *)
NeverBothInputs ==
  \A t \in Thread : pc[t] = "return" /\ ~crowded =>
     \A m \in Motor \ mixed : Reading(outputs, m) # "BOTH"

(* How the pin-level state shows as a MotorBoard.                           *)
CallOf(t) ==
  IF pc[t] = "idle" \/ op[t].cmd = "INIT" THEN [phase |-> "idle"]
  ELSE [phase |-> IF pc[t] = "return" THEN "applied" ELSE "invoked",
        motor |-> op[t].motor, cmd |-> op[t].cmd]

(* A call on m that is under way, undisturbed if m is not mixed.            *)
Sets(t, m) == pc[t] # "idle" /\ op[t].cmd # "INIT" /\ op[t].motor = m

WantOf(m) ==
  IF m \in mixed THEN "unknown"
  ELSE IF \E t \in Thread : Sets(t, m) THEN op[CHOOSE t \in Thread : Sets(t, m)].cmd
  ELSE Reading(latch_state, m)

Board == INSTANCE MotorBoard
           WITH dir <- [m \in Motor |-> Reading(outputs, m)],
                want <- [m \in Motor |-> WantOf(m)],
                call <- [t \in Thread |-> CallOf(t)],
                ready <- ready \/ pc[Main] = "return"

(* However its callers interleave, the driver implements the board: a call  *)
(* that nobody overlaps is atomic and drives every motor as it was last    *)
(* told, but for those that overlapping calls named; each call returns.    *)
ImplementsBoard == Board!Spec
===============================================================================
