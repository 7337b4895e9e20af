-------------------------- MODULE MotorDriverProofs ---------------------------
(***************************************************************************)
(* Proofs about MotorDriver for every number of threads and motors, every  *)
(* register width and every wiring that shares no bit.                     *)
(*                                                                         *)
(* TypeOK is inductive.  UndisturbedCall is not: the strengthening IInv    *)
(* adds that while no calls have overlapped, one thread at most is inside  *)
(* (Exclusive), and what its call has achieved at each label (Achieved),   *)
(* whose heart is the loop invariant of latch_tx (Sent).  BInv adds what   *)
(* latch_state remembers of the motors that are not mixed: an overlapping  *)
(* call may store a byte it read before others stored theirs, but in that  *)
(* byte the bits of such a motor are those of latch_state (RegAgrees).     *)
(***************************************************************************)
EXTENDS MotorDriver, TLAPS

Exclusive == ~crowded => \A t, u \in Thread :
                            pc[t] # "idle" /\ u # t => pc[u] = "idle"

Editing(t) == pc[t] \in {"load1", "store1", "load2", "store2"}

(* Only a DCMotorRun call is ever at the two edits of latch_state.          *)
EditsHaveArguments == \A t \in Thread : Editing(t) => op[t].cmd # "INIT"

HalfEdited(t) == (BitA[op[t].motor] \in latch_state) <=> (op[t].cmd = "FORWARD")

Edited(t) == op[t].cmd # "INIT" => Reading(latch_state, op[t].motor) = op[t].cmd

(* After k bits, stage j holds bit Width - k + j of latch_state.            *)
Sent(k) == \A j \in Bit : j < k => (j \in stages <=> Width - k + j \in latch_state)

InLoop(t) == pc[t] \in {"clkLow", "testBit", "driveData", "clkHigh"}

Achieved(t) ==
  /\ pc[t] \in {"store1", "store2", "driveData"} => reg[t] = latch_state
  /\ pc[t] \in {"load2", "store2"} => HalfEdited(t)
  /\ pc[t] # "idle" /\ ~Editing(t) => Edited(t)
  /\ InLoop(t) \/ pc[t] \in {"dataLow", "latchHigh"} => latchPin = "LOW"
  /\ InLoop(t) => i[t] < Width
  /\ InLoop(t) \/ pc[t] = "latchHigh" => Sent(i[t])
  /\ pc[t] \in {"testBit", "driveData", "clkHigh"} => clkPin = "LOW"
  /\ pc[t] = "clkHigh" => (dataPin = "HIGH" <=> Width - 1 - i[t] \in latch_state)
  /\ pc[t] = "latchHigh" => i[t] = Width
  /\ pc[t] = "return" => outputs = latch_state

IInv == /\ TypeOK
        /\ Exclusive
        /\ EditsHaveArguments
        /\ ~crowded => \A t \in Thread : Achieved(t)
-------------------------------------------------------------------------------
(* A thread that is outside the driver has nothing to have achieved.        *)
LEMMA IdleAchieves == ASSUME NEW t \in Thread, pc[t] = "idle"
                      PROVE  Achieved(t)
  BY DEF Achieved, Editing, InLoop

(* A step of a thread inside the driver that moves only its own pc disturbs *)
(* no other undisturbed call: there is none.                               *)
LEMMA OneThreadSteps ==
  ASSUME IInv, TypeOK',
         NEW t \in Thread, pc[t] # "idle",
         NEW to, Goto(t, to), UNCHANGED <<op, history>>,
         to \in {"load1", "store1", "load2", "store2"} => Editing(t),
         ~crowded => Achieved(t)'
  PROVE  IInv'
<1>1. \A u \in Thread : u # t => pc'[u] = pc[u]
  BY DEF Goto, IInv, TypeOK
<1>2. pc'[t] = to
  BY DEF Goto, IInv, TypeOK
<1>3. Exclusive'
  BY <1>1, <1>2 DEF IInv, Exclusive, history
<1>4. EditsHaveArguments'
  BY <1>1, <1>2 DEF IInv, EditsHaveArguments, Editing
<1>5. ASSUME NEW u \in Thread, ~crowded' PROVE Achieved(u)'
  <2>1. CASE u = t
    BY <1>5, <2>1 DEF history
  <2>2. CASE u # t
    <3>1. pc[u] = "idle"
      BY <1>5, <2>2 DEF IInv, Exclusive, history
    <3>2. pc'[u] = "idle"
      BY <1>1, <2>2, <3>1
    <3> QED BY <3>2 DEF Achieved, Editing, InLoop
  <2> QED BY <2>1, <2>2
<1> QED BY <1>3, <1>4, <1>5 DEF IInv

(* The loop of latch_tx starts with nothing sent and, once Width bits are   *)
(* sent, the stages hold latch_state.                                      *)
LEMMA NothingSent == Sent(0)
  BY WiringAssumption DEF Sent, Bit

LEMMA AllSent == ASSUME TypeOK, Sent(Width) PROVE stages = latch_state
<1>1. \A j \in Bit : j \in stages <=> j \in latch_state
  BY WiringAssumption DEF Sent, Bit
<1> QED BY <1>1 DEF TypeOK

(* One rising edge of CLK with the next bit on DATA sends one more bit.     *)
LEMMA OneMoreSent ==
  ASSUME TypeOK, NEW k \in 0 .. Width - 1, Sent(k),
         dataPin = "HIGH" <=> Width - 1 - k \in latch_state,
         stages' = Shifted(stages, dataPin), UNCHANGED latch_state
  PROVE  Sent(k + 1)'
<1> SUFFICES ASSUME NEW j \in Bit, j < k + 1
             PROVE  j \in stages' <=> Width - (k + 1) + j \in latch_state
  BY DEF Sent
<1>1. Width \in Nat /\ k \in Nat /\ j \in Nat
  BY WiringAssumption DEF Bit
<1>2. j \in stages' <=> IF j = 0 THEN dataPin = "HIGH" ELSE j - 1 \in stages
  BY DEF Shifted
<1>3. CASE j = 0
  BY <1>1, <1>2, <1>3
<1>4. CASE j # 0
  <2>1. j - 1 \in Bit /\ j - 1 < k
    BY <1>1, <1>4 DEF Bit
  <2>2. j - 1 \in stages <=> Width - k + (j - 1) \in latch_state
    BY <2>1 DEF Sent
  <2>3. Width - k + (j - 1) = Width - (k + 1) + j
    BY <1>1
  <2> QED BY <1>2, <1>4, <2>2, <2>3
<1> QED BY <1>3, <1>4
-------------------------------------------------------------------------------
(* Types are preserved by every step.                                       *)
LEMMA Types ==
  ASSUME TypeOK, [Next]_vars
  PROVE  TypeOK'
<1> USE WiringAssumption DEF TypeOK, pins, board, locals, history, Goto
<1>1. CASE UNCHANGED vars
  BY <1>1 DEF vars
<1>2. ASSUME NEW t \in Thread, NEW m \in Motor, NEW c \in Command, Enter(t, m, c)
      PROVE  TypeOK'
  BY <1>2 DEF Enter, Op
<1>3. ASSUME NEW t \in Thread, Step(t) PROVE TypeOK'
  <2>1. CASE Load(t, "load1", "store1")
    BY <2>1 DEF Load
  <2>2. CASE Store1(t)
    <3>1. op[t] \in [motor : Motor, cmd : Command] \/ op[t] = Boot
      BY DEF Op
    <3>2. FirstEdit(reg[t], op[t]) \subseteq Bit
      <4>1. CASE op[t] = Boot
        BY <4>1 DEF FirstEdit, Boot
      <4>2. CASE op[t] \in [motor : Motor, cmd : Command]
        BY <4>2 DEF FirstEdit
      <4> QED BY <3>1, <4>1, <4>2
    <3> QED BY <2>2, <3>2 DEF Store1, Store
  <2>3. CASE Load(t, "load2", "store2")
    BY <2>3 DEF Load
  <2>4. CASE Store2(t)
    <3>1. op[t] \in [motor : Motor, cmd : Command] \/ op[t] = Boot
      BY DEF Op
    <3>2. SecondEdit(reg[t], op[t]) \subseteq Bit
      <4>1. CASE op[t] = Boot
        BY <4>1 DEF SecondEdit, Boot
      <4>2. CASE op[t] \in [motor : Motor, cmd : Command]
        BY <4>2 DEF SecondEdit
      <4> QED BY <3>1, <4>1, <4>2
    <3> QED BY <2>4, <3>2 DEF Store2, Store
  <2>5. CASE LatchLow(t)
    BY <2>5 DEF LatchLow, WriteLatch
  <2>6. CASE DataLow(t)
    BY <2>6 DEF DataLow, WriteData
  <2>7. CASE ClkLow(t)
    BY <2>7 DEF ClkLow, WriteClk, Shifted
  <2>8. CASE Load(t, "testBit", "driveData")
    BY <2>8 DEF Load
  <2>9. CASE DriveData(t)
    BY <2>9 DEF DriveData, WriteData
  <2>10. CASE ClkHigh(t)
    BY <2>10 DEF ClkHigh, WriteClk, Shifted
  <2>11. CASE LatchHigh(t)
    BY <2>11 DEF LatchHigh, WriteLatch
  <2>12. CASE Return(t)
    BY <2>12 DEF Return
  <2> QED BY <1>3, <2>1, <2>2, <2>3, <2>4, <2>5, <2>6, <2>7, <2>8, <2>9, <2>10,
             <2>11, <2>12 DEF Step
<1> QED BY <1>1, <1>2, <1>3 DEF Next
-------------------------------------------------------------------------------
(* A call that starts achieves nothing yet; if it overlaps others, none is  *)
(* undisturbed any more.                                                   *)
LEMMA EnterKeeps ==
  ASSUME IInv, TypeOK', NEW t \in Thread, NEW m \in Motor, NEW c \in Command,
         Enter(t, m, c)
  PROVE  IInv'
<1> USE DEF IInv, Enter, Goto, TypeOK
<1>1. pc'[t] = "load1" /\ \A u \in Thread : u # t => pc'[u] = pc[u]
  OBVIOUS
<1>2. op'[t].cmd # "INIT" /\ \A u \in Thread : u # t => op'[u] = op[u]
  BY DEF Command
<1>3. Exclusive'
  BY <1>1 DEF Exclusive, Inside
<1>4. EditsHaveArguments'
  BY <1>1, <1>2 DEF EditsHaveArguments, Editing
<1>5. ASSUME NEW u \in Thread, ~crowded' PROVE Achieved(u)'
  <2>1. CASE u = t
    BY <1>1, <2>1 DEF Achieved, Editing, InLoop
  <2>2. CASE u # t
    <3>1. pc'[u] = "idle"
      BY <1>1, <1>5, <2>2 DEF Inside
    <3> QED BY <3>1 DEF Achieved, Editing, InLoop
  <2> QED BY <2>1, <2>2
<1> QED BY <1>3, <1>4, <1>5

(* Every step inside the driver keeps the invariant: the obligation left by *)
(* OneThreadSteps is that the stepping thread, if alone, achieves what its *)
(* next label demands.                                                     *)
LEMMA StepKeeps ==
  ASSUME IInv, TypeOK', NEW t \in Thread, Step(t)
  PROVE  IInv'
<1> USE DEF IInv, Goto, TypeOK, pins, board, locals, history
<1>1. CASE Load(t, "load1", "store1")
  <2>1. ~crowded => Achieved(t)'
    BY <1>1 DEF Load, Achieved, Editing, InLoop
  <2> QED BY <1>1, <2>1, OneThreadSteps DEF Load, Editing
<1>2. CASE Store1(t)
  <2>1. op[t] \in [motor : Motor, cmd : Command]
    BY <1>2 DEF Store1, EditsHaveArguments, Editing, Op, Boot
  <2>2. ~crowded => reg[t] = latch_state
    BY <1>2 DEF Store1, Achieved
  <2>3. ~crowded => HalfEdited(t)'
    BY <1>2, <2>1, <2>2, WiringAssumption DEF Store1, Store, HalfEdited, FirstEdit
  <2>4. ~crowded => Achieved(t)'
    BY <1>2, <2>3 DEF Store1, Store, Achieved, Editing, InLoop
  <2> QED BY <1>2, <2>4, OneThreadSteps DEF Store1, Store, Editing
<1>3. CASE Load(t, "load2", "store2")
  <2>1. ~crowded => Achieved(t)'
    BY <1>3 DEF Load, Achieved, Editing, InLoop, HalfEdited
  <2> QED BY <1>3, <2>1, OneThreadSteps DEF Load, Editing
<1>4. CASE Store2(t)
  <2>1. op[t] \in [motor : Motor, cmd : Command]
    BY <1>4 DEF Store2, EditsHaveArguments, Editing, Op, Boot
  <2>2. ~crowded => reg[t] = latch_state /\ HalfEdited(t)
    BY <1>4 DEF Store2, Achieved
  <2>3. ~crowded => Edited(t)'
    BY <1>4, <2>1, <2>2, WiringAssumption
       DEF Store2, Store, HalfEdited, Edited, SecondEdit, Reading, Command
  <2>4. ~crowded => Achieved(t)'
    BY <1>4, <2>3 DEF Store2, Store, Achieved, Editing, InLoop
  <2> QED BY <1>4, <2>4, OneThreadSteps DEF Store2, Store, Editing
<1>5. CASE LatchLow(t)
  <2>1. ~crowded => Achieved(t)'
    BY <1>5 DEF LatchLow, WriteLatch, Achieved, Editing, InLoop, Edited
  <2> QED BY <1>5, <2>1, OneThreadSteps DEF LatchLow
<1>6. CASE DataLow(t)
  <2>1. i'[t] = 0 /\ 0 < Width /\ Sent(0)'
    BY <1>6, NothingSent, WiringAssumption DEF DataLow, Sent, Bit
  <2>2. ~crowded => Sent(i[t])'
    BY <2>1 DEF Sent
  <2>3. ~crowded => Achieved(t)'
    BY <1>6, <2>1, <2>2 DEF DataLow, WriteData, Achieved, Editing, InLoop, Edited
  <2> QED BY <1>6, <2>3, OneThreadSteps DEF DataLow
<1>7. CASE ClkLow(t)
  <2>1. stages' = stages
    BY <1>7 DEF ClkLow, WriteClk
  <2>2. ~crowded => Sent(i[t])'
    BY <1>7, <2>1 DEF ClkLow, Sent, Achieved, InLoop
  <2>3. ~crowded => Achieved(t)'
    BY <1>7, <2>2 DEF ClkLow, WriteClk, Achieved, Editing, InLoop, Edited
  <2> QED BY <1>7, <2>3, OneThreadSteps DEF ClkLow
<1>8. CASE Load(t, "testBit", "driveData")
  <2>1. ~crowded => Sent(i[t])'
    BY <1>8 DEF Load, Sent, Achieved, InLoop
  <2>2. ~crowded => Achieved(t)'
    BY <1>8, <2>1 DEF Load, Achieved, Editing, InLoop, Edited
  <2> QED BY <1>8, <2>2, OneThreadSteps DEF Load, Editing
<1>9. CASE DriveData(t)
  <2>1. ~crowded => Sent(i[t])'
    BY <1>9 DEF DriveData, WriteData, Sent, Achieved, InLoop
  <2>2. ~crowded => Achieved(t)'
    BY <1>9, <2>1 DEF DriveData, WriteData, Achieved, Editing, InLoop, Edited
  <2> QED BY <1>9, <2>2, OneThreadSteps DEF DriveData
<1>10. CASE ClkHigh(t)
  <2>1. ASSUME ~crowded PROVE Achieved(t)'
    <3>1. PICK k \in 0 .. Width - 1 : k = i[t]
      BY <1>10, <2>1, WiringAssumption DEF ClkHigh, Achieved, InLoop
    <3>2. /\ Sent(k)
          /\ dataPin = "HIGH" <=> Width - 1 - k \in latch_state
          /\ clkPin = "LOW"
      BY <1>10, <2>1, <3>1 DEF ClkHigh, Achieved, InLoop
    <3>3. stages' = Shifted(stages, dataPin) /\ UNCHANGED latch_state
      BY <1>10, <3>2 DEF ClkHigh, WriteClk
    <3>4. Sent(k + 1)'
      BY <3>2, <3>3, OneMoreSent
    <3>5. i'[t] = k + 1
      BY <1>10, <3>1 DEF ClkHigh
    <3>6. Sent(i[t])'
      BY <3>4, <3>5 DEF Sent
    <3>7. IF k + 1 < Width THEN pc'[t] = "clkLow"
                           ELSE pc'[t] = "latchHigh" /\ k + 1 = Width
      BY <1>10, <3>1, WiringAssumption DEF ClkHigh
    <3>8. latchPin = "LOW" /\ Edited(t)' /\ latchPin' = latchPin
      BY <1>10, <2>1 DEF ClkHigh, WriteClk, Achieved, Editing, InLoop, Edited
    <3>9. CASE k + 1 < Width
      BY <3>5, <3>6, <3>7, <3>8, <3>9 DEF Achieved, Editing, InLoop
    <3>10. CASE ~(k + 1 < Width)
      BY <3>5, <3>6, <3>7, <3>8, <3>10 DEF Achieved, Editing, InLoop
    <3> QED BY <3>9, <3>10
  <2> QED BY <1>10, <2>1, OneThreadSteps DEF ClkHigh
<1>11. CASE LatchHigh(t)
  <2>1. ~crowded => stages = latch_state /\ latchPin = "LOW"
    BY <1>11, AllSent DEF LatchHigh, Achieved
  <2>2. ~crowded => Achieved(t)'
    BY <1>11, <2>1 DEF LatchHigh, WriteLatch, Achieved, Editing, InLoop, Edited
  <2> QED BY <1>11, <2>2, OneThreadSteps DEF LatchHigh
<1>12. CASE Return(t)
  <2>1. ~crowded => Achieved(t)'
    BY <1>12 DEF Return, Achieved, Editing, InLoop
  <2> QED BY <1>12, <2>1, OneThreadSteps DEF Return
<1> QED BY <1>1, <1>2, <1>3, <1>4, <1>5, <1>6, <1>7, <1>8, <1>9, <1>10, <1>11,
           <1>12 DEF Step

(* IInv is inductive.                                                       *)
THEOREM Inductive == IInv /\ [Next]_vars => IInv'
<1> SUFFICES ASSUME IInv, [Next]_vars PROVE IInv'
  OBVIOUS
<1>1. TypeOK'
  BY Types DEF IInv
<1>2. CASE UNCHANGED vars
  BY <1>1, <1>2 DEF IInv, vars, pins, board, locals, history, Exclusive, EditsHaveArguments,
                    Achieved, Editing, InLoop, HalfEdited, Edited, Sent
<1>3. CASE Next
  BY <1>1, <1>3, EnterKeeps, StepKeeps DEF Next
<1> QED BY <1>2, <1>3

THEOREM Initial == Init => IInv
<1> SUFFICES ASSUME Init PROVE IInv
  OBVIOUS
<1>1. TypeOK
  BY WiringAssumption DEF Init, TypeOK, Op
<1>2. Exclusive
  BY DEF Init, Exclusive
<1>3. EditsHaveArguments
  BY DEF Init, EditsHaveArguments, Editing
<1>4. ASSUME NEW t \in Thread PROVE Achieved(t)
  BY DEF Init, Achieved, Editing, InLoop, Edited, Boot
<1> QED BY <1>1, <1>2, <1>3, <1>4 DEF IInv

(* The type invariant holds for every wiring and every number of threads.   *)
THEOREM TypeCorrect == Spec => []TypeOK
<1>1. IInv => TypeOK
  BY DEF IInv
<1> QED BY <1>1, Initial, Inductive, PTL DEF Spec

(* A call of DCMotorRun that no other call overlaps leaves the board        *)
(* showing latch_state, with its motor driven as commanded, whatever the   *)
(* calls before it did to each other.                                      *)
THEOREM UndisturbedCallsWork == Spec => []UndisturbedCall
<1>1. IInv => UndisturbedCall
  BY DEF IInv, TypeOK, UndisturbedCall, Achieved, Editing, Edited
<1> QED BY <1>1, Initial, Inductive, PTL DEF Spec
-------------------------------------------------------------------------------
(***************************************************************************)
(* What latch_state remembers of the motors, whoever calls.                *)
(***************************************************************************)
BootRunning == ~ready => /\ \A t \in Thread : pc[t] # "idle" => t = Main
                         /\ pc[Main] # "idle" /\ ~Editing(Main)
                         /\ op[Main].cmd = "INIT"
                         /\ latch_state = {} /\ mixed = {} /\ ~crowded

CallsHaveArguments == ready => \A t \in Thread : pc[t] # "idle" => op[t].cmd # "INIT"

MixedNamed == \A t \in Thread : pc[t] # "idle" /\ op[t].cmd # "INIT"
                                   => (op[t].motor \in mixed <=> crowded)

RegAgrees ==
  \A t \in Thread : pc[t] \in {"store1", "store2"} =>
     \A n \in Motor \ mixed : Reading(reg[t], n) = Reading(latch_state, n)

Settled(n) == \A t \in Thread : ~Sets(t, n)

SettledNotBoth == \A n \in Motor \ mixed : Settled(n) => Reading(latch_state, n) # "BOTH"

BInv == /\ IInv
        /\ BootRunning
        /\ CallsHaveArguments
        /\ MixedNamed
        /\ RegAgrees
        /\ SettledNotBoth

(* An edit of the two bits of one motor does not show on any other.         *)
LEMMA EditsAreLocal ==
  ASSUME NEW o \in [motor : Motor, cmd : Command], NEW latch, NEW n \in Motor,
         n # o.motor
  PROVE  /\ Reading(FirstEdit(latch, o), n) = Reading(latch, n)
         /\ Reading(SecondEdit(latch, o), n) = Reading(latch, n)
<1>1. BitA[n] # BitA[o.motor] /\ BitB[n] # BitB[o.motor]
      /\ BitA[n] # BitB[o.motor] /\ BitB[n] # BitA[o.motor]
  BY WiringAssumption
<1>2. /\ BitA[n] \in FirstEdit(latch, o) <=> BitA[n] \in latch
      /\ BitB[n] \in FirstEdit(latch, o) <=> BitB[n] \in latch
      /\ BitA[n] \in SecondEdit(latch, o) <=> BitA[n] \in latch
      /\ BitB[n] \in SecondEdit(latch, o) <=> BitB[n] \in latch
  BY <1>1 DEF FirstEdit, SecondEdit
<1> QED BY <1>2 DEF Reading

LEMMA BoardInitial == Init => BInv
<1> SUFFICES ASSUME Init PROVE BInv
  OBVIOUS
<1>1. /\ pc[Main] = "latchLow" /\ ~ready /\ latch_state = {} /\ mixed = {} /\ ~crowded
      /\ \A t \in Thread : op[t].cmd = "INIT"
      /\ \A t \in Thread : pc[t] # "idle" => t = Main /\ pc[t] = "latchLow"
  BY WiringAssumption DEF Init, Boot
<1>2. BootRunning /\ CallsHaveArguments /\ MixedNamed /\ RegAgrees
  BY <1>1, WiringAssumption DEF BootRunning, CallsHaveArguments, MixedNamed, RegAgrees, Editing
<1>3. SettledNotBoth
  BY <1>1 DEF SettledNotBoth, Reading
<1> QED BY <1>2, <1>3, Initial DEF BInv

(* What a step inside the driver that only moves t's pc keeps.              *)
LEMMA QuietSteps ==
  ASSUME BInv, IInv', NEW t \in Thread,
         UNCHANGED <<latch_state, op, ready, crowded, mixed>>,
         pc[t] # "idle", pc'[t] # "idle",
         \A u \in Thread : u # t => pc'[u] = pc[u] /\ reg'[u] = reg[u],
         pc'[t] \in {"store1", "store2"} => Editing(t) /\ reg'[t] = latch_state,
         Editing(t)' => Editing(t)
  PROVE  BInv'
<1>1. \A u \in Thread : pc'[u] = "idle" <=> pc[u] = "idle"
  OBVIOUS
<1>2. \A n \in Motor : Settled(n)' = Settled(n)
  BY <1>1 DEF Settled, Sets
<1>3. SettledNotBoth'
  BY <1>2 DEF BInv, SettledNotBoth, Reading
<1>4. CallsHaveArguments' /\ MixedNamed'
  BY <1>1 DEF BInv, CallsHaveArguments, MixedNamed
<1>5. BootRunning'
  BY <1>1, WiringAssumption DEF BInv, BootRunning, Editing
<1>6. RegAgrees'
  <2> SUFFICES ASSUME NEW u \in Thread, pc'[u] \in {"store1", "store2"},
                      NEW n \in Motor \ mixed
               PROVE  Reading(reg[u], n)' = Reading(latch_state, n)'
    BY DEF RegAgrees
  <2>1. CASE u = t
    BY <2>1 DEF Reading
  <2>2. CASE u # t
    BY <2>2 DEF BInv, RegAgrees, Reading
  <2> QED BY <2>1, <2>2
<1> QED BY <1>3, <1>4, <1>5, <1>6 DEF BInv

(* A store of t leaves latch_state's bits of every motor alone that is not  *)
(* mixed and not the one t sets.                                           *)
LEMMA StoresAreLocal ==
  ASSUME BInv, IInv', NEW t \in Thread, ready,
         UNCHANGED <<reg, op, ready, crowded, mixed>>,
         pc[t] \in {"store1", "store2"}, pc'[t] \in {"load2", "latchLow"},
         \A u \in Thread : u # t => pc'[u] = pc[u],
         latch_state' \in {FirstEdit(reg[t], op[t]), SecondEdit(reg[t], op[t])}
  PROVE  /\ BInv'
         /\ \A n \in Motor \ mixed : ~Sets(t, n)
               => Reading(latch_state', n) = Reading(latch_state, n)
<1>1. \A u \in Thread : pc'[u] = "idle" <=> pc[u] = "idle"
  OBVIOUS
<1>2. op[t] \in [motor : Motor, cmd : Command] /\ op[t].cmd # "INIT"
  BY DEF BInv, IInv, EditsHaveArguments, Editing, TypeOK, Op, Boot
<1>3. ASSUME NEW n \in Motor \ mixed, ~Sets(t, n)
      PROVE  Reading(latch_state', n) = Reading(latch_state, n)
  <2>1. n # op[t].motor
    BY <1>2, <1>3 DEF Sets
  <2>2. Reading(latch_state', n) = Reading(reg[t], n)
    BY <1>2, <2>1, EditsAreLocal
  <2> QED BY <2>2 DEF BInv, RegAgrees
<1>4. \A n \in Motor : Settled(n)' = Settled(n)
  BY <1>1 DEF Settled, Sets
<1>5. SettledNotBoth'
  <2> SUFFICES ASSUME NEW n \in Motor \ mixed, Settled(n)
               PROVE  Reading(latch_state', n) # "BOTH"
    BY <1>4 DEF SettledNotBoth, Reading
  <2>1. ~Sets(t, n)
    BY DEF Settled
  <2> QED BY <1>3, <2>1 DEF BInv, SettledNotBoth
<1>6. CallsHaveArguments' /\ MixedNamed' /\ BootRunning'
  BY <1>1 DEF BInv, CallsHaveArguments, MixedNamed, BootRunning
<1>7. RegAgrees'
  <2> SUFFICES ASSUME NEW u \in Thread, pc'[u] \in {"store1", "store2"},
                      NEW n \in Motor \ mixed
               PROVE  Reading(reg[u], n) = Reading(latch_state', n)
    BY DEF RegAgrees, Reading
  <2>1. u # t /\ pc[u] = pc'[u]
    OBVIOUS
  <2>2. crowded
    BY <2>1 DEF BInv, IInv, Exclusive
  <2>3. ~Sets(t, n)
    BY <1>2, <2>2 DEF BInv, MixedNamed, Sets
  <2>4. Reading(reg[u], n) = Reading(latch_state, n)
    BY <2>1 DEF BInv, RegAgrees
  <2> QED BY <1>3, <2>3, <2>4
<1> QED BY <1>3, <1>5, <1>6, <1>7 DEF BInv

(* A call that enters alone names a motor whose bits nobody else sets; one  *)
(* that enters among others mixes its motor with theirs.                   *)
LEMMA EnterKeepsBoard ==
  ASSUME BInv, IInv', NEW t \in Thread, NEW m \in Motor, NEW c \in Command,
         Enter(t, m, c)
  PROVE  BInv'
<1> USE DEF Goto
<1>1. /\ pc[t] = "idle" /\ pc'[t] = "load1" /\ ready /\ ready'
      /\ op'[t] = [motor |-> m, cmd |-> c] /\ c # "INIT"
      /\ \A u \in Thread : u # t => pc'[u] = pc[u] /\ op'[u] = op[u]
      /\ UNCHANGED <<latch_state, reg>>
  BY DEF Enter, Command, BInv, IInv, TypeOK
<1>2. \A u \in Thread : pc'[u] \in {"store1", "store2"} => pc[u] = pc'[u]
  BY <1>1
<1>3. BootRunning' /\ CallsHaveArguments'
  BY <1>1 DEF BInv, BootRunning, CallsHaveArguments
<1>4. CASE Inside = {}
  <2>1. /\ ~crowded' /\ mixed' = mixed \ {m}
        /\ \A u \in Thread : pc[u] = "idle"
    BY <1>4 DEF Enter, Inside
  <2>2. \A u \in Thread : pc'[u] # "idle" => u = t
    BY <1>1, <2>1
  <2>3. MixedNamed'
    BY <1>1, <2>1, <2>2 DEF MixedNamed
  <2>4. RegAgrees'
    BY <1>1, <2>1 DEF RegAgrees
  <2>5. SettledNotBoth'
    <3> SUFFICES ASSUME NEW n \in Motor \ mixed', Settled(n)'
                 PROVE  Reading(latch_state, n) # "BOTH"
      BY <1>1 DEF SettledNotBoth, Reading
    <3>1. n # m
      BY <1>1 DEF Settled, Sets
    <3>2. n \in Motor \ mixed /\ Settled(n)
      BY <2>1, <3>1 DEF Settled, Sets
    <3> QED BY <3>2 DEF BInv, SettledNotBoth
  <2> QED BY <1>3, <2>3, <2>4, <2>5 DEF BInv
<1>5. CASE Inside # {}
  <2>1. /\ crowded'
        /\ mixed' = mixed \cup {n \in Motor : n = m \/ \E u \in Inside : op[u].motor = n}
    BY <1>5 DEF Enter
  <2>2. \A u \in Thread : pc[u] # "idle" => op[u] \in [motor : Motor, cmd : Command]
    BY <1>1 DEF BInv, CallsHaveArguments, IInv, TypeOK, Op, Boot
  <2>3. \A u \in Thread : pc'[u] # "idle" => op'[u].motor \in mixed'
    BY <1>1, <2>1, <2>2 DEF Inside
  <2>4. MixedNamed'
    BY <2>1, <2>3 DEF MixedNamed
  <2>5. RegAgrees'
    BY <1>1, <1>2, <2>1 DEF BInv, RegAgrees, Reading
  <2>6. SettledNotBoth'
    <3> SUFFICES ASSUME NEW n \in Motor \ mixed'
                 PROVE  Reading(latch_state, n) # "BOTH"
      BY <1>1 DEF SettledNotBoth, Reading
    <3>1. n \in Motor \ mixed /\ n # m
      BY <2>1
    <3>2. ASSUME NEW u \in Thread PROVE ~Sets(u, n)
      BY <2>1 DEF Sets, Inside
    <3>3. Settled(n)
      BY <3>2 DEF Settled
    <3> QED BY <3>1, <3>3 DEF BInv, SettledNotBoth
  <2> QED BY <1>3, <2>4, <2>5, <2>6 DEF BInv
<1> QED BY <1>4, <1>5

(* What an undisturbed call of t sent is what is known of its motor.        *)
LEMMA ReturnKeepsBoard ==
  ASSUME BInv, IInv', NEW t \in Thread, Return(t)
  PROVE  BInv'
<1> USE DEF Goto
<1>1. /\ pc[t] = "return" /\ pc'[t] = "idle" /\ ready'
      /\ \A u \in Thread : u # t => pc'[u] = pc[u]
      /\ UNCHANGED <<latch_state, op, reg, crowded, mixed>>
  BY DEF Return, BInv, IInv, TypeOK, locals, history
<1>2. ~ready => \A u \in Thread : pc'[u] = "idle"
  BY <1>1 DEF BInv, BootRunning
<1>3. BootRunning' /\ CallsHaveArguments'
  BY <1>1, <1>2 DEF BInv, BootRunning, CallsHaveArguments
<1>4. MixedNamed'
  BY <1>1 DEF BInv, MixedNamed
<1>5. RegAgrees'
  BY <1>1 DEF BInv, RegAgrees, Reading
<1>6. SettledNotBoth'
  <2> SUFFICES ASSUME NEW n \in Motor \ mixed, Settled(n)'
               PROVE  Reading(latch_state, n) # "BOTH"
    BY <1>1 DEF SettledNotBoth, Reading
  <2>1. CASE Sets(t, n)
    <3>1. ~crowded
      BY <2>1 DEF BInv, MixedNamed, Sets
    <3>2. Reading(latch_state, n) = op[t].cmd
      BY <1>1, <2>1, <3>1 DEF BInv, IInv, Achieved, Editing, Edited, Sets
    <3>3. op[t].cmd \in Command
      BY <2>1 DEF BInv, IInv, TypeOK, Op, Boot, Sets
    <3> QED BY <3>2, <3>3 DEF Command
  <2>2. CASE ~Sets(t, n)
    <3>1. Settled(n)
      BY <1>1, <2>2 DEF Settled, Sets
    <3> QED BY <3>1 DEF BInv, SettledNotBoth
  <2> QED BY <2>1, <2>2
<1> QED BY <1>3, <1>4, <1>5, <1>6 DEF BInv

(* The stores of DCMotorRun, and nothing else, change latch_state.          *)
LEMMA StoreStep ==
  ASSUME BInv, IInv', NEW t \in Thread, Store1(t) \/ Store2(t)
  PROVE  /\ BInv'
         /\ UNCHANGED <<reg, op, ready, crowded, mixed, outputs>>
         /\ ready
         /\ pc[t] \notin {"idle", "return"} /\ pc'[t] \notin {"idle", "return"}
         /\ \A u \in Thread : u # t => pc'[u] = pc[u]
         /\ \A n \in Motor \ mixed : ~Sets(t, n)
               => Reading(latch_state', n) = Reading(latch_state, n)
<1> USE DEF Goto
<1>1. /\ pc[t] \in {"store1", "store2"} /\ pc'[t] \in {"load2", "latchLow"}
      /\ \A u \in Thread : u # t => pc'[u] = pc[u]
      /\ UNCHANGED <<reg, op, ready, crowded, mixed, outputs>>
      /\ latch_state' \in {FirstEdit(reg[t], op[t]), SecondEdit(reg[t], op[t])}
  BY DEF Store1, Store2, Store, BInv, IInv, TypeOK, locals, history, board
<1>2. ready
  BY <1>1 DEF BInv, BootRunning, Editing
<1> QED BY <1>1, <1>2, StoresAreLocal

(* All other steps inside the driver, LatchHigh among them.                 *)
LEMMA OtherSteps ==
  ASSUME BInv, IInv', NEW t \in Thread, Step(t), ~Store1(t), ~Store2(t), ~Return(t)
  PROVE  /\ BInv'
         /\ UNCHANGED <<latch_state, op, ready, crowded, mixed>>
         /\ pc[t] \notin {"idle", "return"} /\ pc'[t] # "idle"
         /\ \A u \in Thread : u # t => pc'[u] = pc[u]
         /\ ~LatchHigh(t) => outputs' = outputs /\ pc'[t] # "return"
<1> USE DEF Goto, BInv, IInv, TypeOK, locals, history, board, pins
<1>1. /\ UNCHANGED <<latch_state, op, ready, crowded, mixed>>
      /\ \A u \in Thread : u # t => pc'[u] = pc[u] /\ reg'[u] = reg[u]
  BY DEF Step, Load, LatchLow, DataLow, ClkLow, DriveData, ClkHigh, LatchHigh
<1>2. /\ pc[t] \notin {"idle", "return"} /\ pc'[t] # "idle"
      /\ pc'[t] \in {"store1", "store2"} => Editing(t) /\ reg'[t] = latch_state
      /\ Editing(t)' => Editing(t)
  BY DEF Step, Load, LatchLow, DataLow, ClkLow, DriveData, ClkHigh, LatchHigh, Editing
<1>3. ~LatchHigh(t) => outputs' = outputs /\ pc'[t] # "return"
  BY DEF Step, Load, LatchLow, DataLow, ClkLow, DriveData, ClkHigh, LatchHigh,
         WriteLatch, WriteData, WriteClk
<1>4. BInv'
  BY <1>1, <1>2, QuietSteps
<1> QED BY <1>1, <1>2, <1>3, <1>4

(* BInv is inductive, for any set of threads.                               *)
THEOREM BoardInductive == BInv /\ [Next]_vars => BInv'
<1> SUFFICES ASSUME BInv, [Next]_vars PROVE BInv'
  OBVIOUS
<1>1. IInv'
  BY Inductive DEF BInv
<1>2. CASE UNCHANGED vars
  <2>1. UNCHANGED <<latch_state, pc, op, reg, ready, crowded, mixed>>
    BY <1>2 DEF vars, locals, history
  <2>2. BootRunning' /\ CallsHaveArguments' /\ MixedNamed' /\ RegAgrees' /\ SettledNotBoth'
    BY <2>1 DEF BInv, BootRunning, CallsHaveArguments, MixedNamed, RegAgrees,
                SettledNotBoth, Settled, Sets, Editing, Reading
  <2> QED BY <1>1, <2>2 DEF BInv
<1>3. CASE Next
  BY <1>1, <1>3, EnterKeepsBoard, ReturnKeepsBoard, StoreStep, OtherSteps DEF Next
<1> QED BY <1>2, <1>3

(* In an undisturbed call no other thread sets a motor, and what the call   *)
(* has sent when it returns is right for every motor that is not mixed.    *)
LEMMA SentIsRight ==
  ASSUME BInv, NEW t \in Thread, pc[t] \in {"latchHigh", "return"}, ~crowded,
         NEW n \in Motor \ mixed
  PROVE  /\ Sets(t, n) => Reading(latch_state, n) = op[t].cmd /\ op[t].cmd \in Command
         /\ ~Sets(t, n) => Settled(n) /\ Reading(latch_state, n) # "BOTH"
<1>1. CASE Sets(t, n)
  BY <1>1 DEF BInv, IInv, Achieved, Editing, Edited, Sets, TypeOK, Op, Boot
<1>2. CASE ~Sets(t, n)
  <2>1. Settled(n)
    BY <1>2 DEF BInv, IInv, Exclusive, Settled, Sets
  <2> QED BY <1>2, <2>1 DEF BInv, SettledNotBoth
<1> QED BY <1>1, <1>2

(* However many threads call: an undisturbed call leaves no motor driven    *)
(* both ways but those that overlapping calls named and nobody since.      *)
THEOREM InputsExclusive == Spec => []NeverBothInputs
<1>1. BInv => NeverBothInputs
  <2> SUFFICES ASSUME BInv, NEW t \in Thread, pc[t] = "return", ~crowded,
                      NEW m \in Motor \ mixed
               PROVE  Reading(outputs, m) # "BOTH"
    BY DEF NeverBothInputs
  <2>1. outputs = latch_state
    BY DEF BInv, IInv, Achieved
  <2> QED BY <2>1, SentIsRight DEF Command
<1> QED BY <1>1, BoardInitial, BoardInductive, PTL DEF Spec
-------------------------------------------------------------------------------
(***************************************************************************)
(* Refinement.  The rising edge of LATCH is the linearization point: there *)
(* an undisturbed call shows on the board at once.  Everything else but    *)
(* Enter and Return is a stutter of MotorBoard.                            *)
(***************************************************************************)
BoardInputs == [m \in Motor |-> Reading(outputs, m)]
BoardWants == [m \in Motor |-> WantOf(m)]
BoardCalls == [t \in Thread |-> CallOf(t)]

(* What is known of a motor: the argument of the call that sets it, or the  *)
(* bits of latch_state.                                                    *)
LEMMA WantSet ==
  ASSUME BInv, NEW t \in Thread, NEW n \in Motor \ mixed, Sets(t, n)
  PROVE  WantOf(n) = op[t].cmd
<1>1. ~crowded
  BY DEF BInv, MixedNamed, Sets
<1>2. \A u \in Thread : Sets(u, n) => u = t
  BY <1>1 DEF BInv, IInv, Exclusive, Sets
<1>3. (CHOOSE u \in Thread : Sets(u, n)) = t
  BY <1>2
<1> QED BY <1>3 DEF WantOf

LEMMA WantSettled ==
  ASSUME NEW n \in Motor \ mixed, Settled(n)
  PROVE  WantOf(n) = Reading(latch_state, n)
  BY DEF WantOf, Settled

LEMMA WantUnknown == ASSUME NEW n \in mixed PROVE WantOf(n) = "unknown"
  BY DEF WantOf

LEMMA InitialBoard == ASSUME Init PROVE Board!Init
<1>1. BoardInputs \in [Motor -> Board!Drive]
  BY DEF BoardInputs, Reading, Board!Drive, Board!Command
<1>2. \A t \in Thread : CallOf(t) = Board!NoCall
  BY DEF Init, Boot, CallOf, Board!NoCall
<1>3. ~(ready \/ pc[Main] = "return") /\ ~crowded /\ mixed = {}
  BY WiringAssumption DEF Init
<1>4. \A m \in Motor : WantOf(m) = "RELEASE"
  <2>1. \A m \in Motor : Settled(m) /\ Reading(latch_state, m) = "RELEASE"
    BY DEF Init, Boot, Settled, Sets, Reading
  <2> QED BY <1>3, <2>1, WantSettled
<1> QED BY <1>1, <1>2, <1>3, <1>4 DEF Board!Init, BoardInputs

(* The calls of the board are those of the driver, boot apart.              *)
LEMMA CallsMatch ==
  ASSUME BInv, ready
  PROVE  /\ \A t \in Thread : CallOf(t) = Board!NoCall <=> pc[t] = "idle"
         /\ \A t \in Thread : pc[t] # "idle" => CallOf(t).motor = op[t].motor
         /\ Board!Inside = Inside
<1>1. \A t \in Thread : CallOf(t) = Board!NoCall <=> pc[t] = "idle"
  <2> SUFFICES ASSUME NEW t \in Thread, pc[t] # "idle" PROVE CallOf(t) # Board!NoCall
    BY DEF CallOf, Board!NoCall
  <2>1. CallOf(t).phase \in {"invoked", "applied"}
    BY DEF BInv, CallsHaveArguments, CallOf
  <2> QED BY <2>1 DEF Board!NoCall
<1>2. \A t \in Thread : pc[t] # "idle" => CallOf(t).motor = op[t].motor
  BY DEF BInv, CallsHaveArguments, CallOf
<1> QED BY <1>1, <1>2 DEF Board!Inside, Inside

(* A step that changes no argument, no output and nothing known of a motor, *)
(* and no phase of a call, is a stutter of the board.                      *)
LEMMA QuietOnBoard ==
  ASSUME BInv, BInv', UNCHANGED <<outputs, op, crowded, mixed, ready>>,
         \A t \in Thread : /\ pc'[t] = "idle" <=> pc[t] = "idle"
                           /\ pc'[t] = "return" <=> pc[t] = "return",
         \A n \in Motor \ mixed : Settled(n)
            => Reading(latch_state', n) = Reading(latch_state, n)
  PROVE  UNCHANGED Board!vars
<1>1. UNCHANGED BoardInputs
  BY DEF BoardInputs, Reading
<1>2. \A t \in Thread : CallOf(t)' = CallOf(t)
  BY DEF CallOf
<1>3. UNCHANGED BoardCalls
  BY <1>2 DEF BoardCalls
<1>4. ASSUME NEW n \in Motor PROVE WantOf(n)' = WantOf(n)
  <2>1. CASE n \in mixed
    BY <2>1 DEF WantOf
  <2>2. CASE n \notin mixed /\ Settled(n)
    BY <2>2 DEF WantOf, Settled, Sets, Reading
  <2>3. CASE n \notin mixed /\ ~Settled(n)
    <3>1. PICK t \in Thread : Sets(t, n)
      BY <2>3 DEF Settled
    <3>2. WantOf(n) = op[t].cmd
      BY <2>3, <3>1, WantSet
    <3>3. Sets(t, n)'
      BY <3>1 DEF Sets
    <3>4. ~crowded'
      BY <2>3, <3>3 DEF BInv, MixedNamed, Sets
    <3>5. \A u \in Thread : Sets(u, n)' => u = t
      BY <3>3, <3>4 DEF BInv, IInv, Exclusive, Sets
    <3>6. (CHOOSE u \in Thread : Sets(u, n)') = t
      BY <3>3, <3>5
    <3>7. WantOf(n)' = op'[t].cmd
      BY <2>3, <3>3, <3>6 DEF WantOf
    <3> QED BY <3>2, <3>7
  <2> QED BY <2>1, <2>2, <2>3
<1>5. UNCHANGED BoardWants
  BY <1>4 DEF BoardWants
<1>6. (ready \/ pc[Main] = "return")' = (ready \/ pc[Main] = "return")
  BY WiringAssumption
<1> QED BY <1>1, <1>3, <1>5, <1>6
        DEF Board!vars, BoardInputs, BoardCalls, BoardWants

(* Enter is the invocation.                                                 *)
LEMMA EnterInvokes ==
  ASSUME BInv, BInv', NEW t \in Thread, NEW m \in Motor, NEW c \in Command,
         Enter(t, m, c)
  PROVE  Board!InvokeAlone(t, m, c) \/ Board!InvokeAmongOthers(t, m, c)
<1> USE DEF Goto
<1>1. /\ pc[t] = "idle" /\ pc'[t] = "load1" /\ ready /\ ready'
      /\ op'[t] = [motor |-> m, cmd |-> c] /\ c # "INIT"
      /\ \A u \in Thread : u # t => pc'[u] = pc[u] /\ op'[u] = op[u]
      /\ UNCHANGED <<latch_state, outputs>>
  BY DEF Enter, Command, BInv, IInv, TypeOK, board
<1>2. CallOf(t) = Board!NoCall /\ CallOf(t)' = Board!Call("invoked", m, c)
  BY <1>1 DEF CallOf, Board!NoCall, Board!Call
<1>3. \A u \in Thread : u # t => CallOf(u)' = CallOf(u)
  BY <1>1 DEF CallOf
<1>4. BoardCalls[t] = Board!NoCall
      /\ BoardCalls' = [BoardCalls EXCEPT ![t] = Board!Call("invoked", m, c)]
  BY <1>2, <1>3 DEF BoardCalls
<1>5. UNCHANGED BoardInputs
  BY <1>1 DEF BoardInputs, Reading
<1>6. Board!Invoke(t, m, c)
  BY <1>1, <1>4, <1>5 DEF Board!Invoke, BoardCalls, BoardInputs
<1>7. Board!Inside = Inside
  BY <1>1, CallsMatch
<1>8. CASE Inside = {}
  <2>1. ~crowded' /\ mixed' = mixed \ {m} /\ \A u \in Thread : pc[u] = "idle"
    BY <1>8 DEF Enter, Inside
  <2>2. ASSUME NEW n \in Motor PROVE WantOf(n)' = IF n = m THEN c ELSE WantOf(n)
    <3>1. CASE n = m
      <4>1. Sets(t, n)' /\ \A u \in Thread : Sets(u, n)' => u = t
        BY <1>1, <2>1, <3>1 DEF Sets
      <4>2. (CHOOSE u \in Thread : Sets(u, n)') = t
        BY <4>1
      <4> QED BY <1>1, <2>1, <3>1, <4>1, <4>2 DEF WantOf
    <3>2. CASE n # m
      BY <1>1, <2>1, <3>2 DEF WantOf, Sets, Reading
    <3> QED BY <3>1, <3>2
  <2>3. BoardWants' = [BoardWants EXCEPT ![m] = c]
    BY <2>2 DEF BoardWants
  <2> QED BY <1>6, <1>7, <1>8, <2>1, <2>3 DEF Board!InvokeAlone, BoardWants
<1>9. CASE Inside # {}
  <2>1. /\ crowded' = TRUE
        /\ mixed' = mixed \cup {n \in Motor : n = m \/ \E u \in Inside : op[u].motor = n}
    BY <1>9 DEF Enter
  <2>2. \A u \in Inside : CallOf(u).motor = op[u].motor /\ BoardCalls[u] = CallOf(u)
    BY <1>1, CallsMatch DEF Inside, BoardCalls
  <2>3. ASSUME NEW n \in Motor
        PROVE  WantOf(n)' = IF n = m \/ \E u \in Inside : BoardCalls[u].motor = n
                              THEN "unknown" ELSE WantOf(n)
    <3>1. CASE n = m \/ \E u \in Inside : op[u].motor = n
      BY <2>1, <2>2, <3>1 DEF WantOf
    <3>2. CASE ~(n = m \/ \E u \in Inside : op[u].motor = n)
      <4>1. n \in mixed' <=> n \in mixed
        BY <2>1, <3>2
      <4>2. \A u \in Thread : ~Sets(u, n) /\ ~Sets(u, n)'
        BY <1>1, <3>2 DEF Sets, Inside
      <4> QED BY <1>1, <2>2, <3>2, <4>1, <4>2 DEF WantOf, Reading
    <3> QED BY <3>1, <3>2
  <2>4. BoardWants' = [n \in Motor |->
                         IF n = m \/ \E u \in Inside : BoardCalls[u].motor = n
                           THEN "unknown" ELSE BoardWants[n]]
    BY <2>3 DEF BoardWants
  <2> QED BY <1>6, <1>7, <1>9, <2>1, <2>4
          DEF Board!InvokeAmongOthers, BoardWants, BoardCalls
<1> QED BY <1>8, <1>9

(* The rising edge of LATCH applies the call, or is all of ControllerInit.  *)
LEMMA LatchApplies ==
  ASSUME BInv, BInv', NEW t \in Thread, LatchHigh(t)
  PROVE  Board!ControllerInit \/ Board!Apply(t)
<1> USE DEF Goto
<1>1. /\ pc[t] = "latchHigh" /\ pc'[t] = "return"
      /\ \A u \in Thread : u # t => pc'[u] = pc[u]
      /\ UNCHANGED <<latch_state, op, ready, crowded, mixed>>
  BY DEF LatchHigh, BInv, IInv, TypeOK, locals, history
<1>2. ~crowded => outputs' = latch_state
  <2>1. ~crowded => stages = latch_state /\ latchPin = "LOW"
    BY <1>1, AllSent DEF BInv, IInv, Achieved
  <2> QED BY <2>1 DEF LatchHigh, WriteLatch
<1>3. \A n \in Motor : WantOf(n)' = WantOf(n)
  BY <1>1 DEF WantOf, Sets, Reading
<1>4. UNCHANGED BoardWants
  BY <1>3 DEF BoardWants
<1>5. ~crowded => \A n \in Motor : WantOf(n) # "unknown" => Reading(outputs, n)' = WantOf(n)
  <2> SUFFICES ASSUME ~crowded, NEW n \in Motor, WantOf(n) # "unknown"
               PROVE  Reading(latch_state, n) = WantOf(n)
    BY <1>2 DEF Reading
  <2>1. n \notin mixed
    BY DEF WantOf
  <2>2. CASE Sets(t, n)
    BY <1>1, <2>1, <2>2, SentIsRight, WantSet
  <2>3. CASE ~Sets(t, n)
    BY <1>1, <2>1, <2>3, SentIsRight, WantSettled
  <2> QED BY <2>2, <2>3
<1>6. CASE ~ready
  <2>1. /\ t = Main /\ op[Main].cmd = "INIT" /\ ~crowded /\ mixed = {} /\ latch_state = {}
        /\ \A u \in Thread : pc[u] # "idle" => u = Main
    BY <1>1, <1>6 DEF BInv, BootRunning
  <2>2. \A n \in Motor : Reading(outputs, n)' = WantOf(n)
    <3>1. \A n \in Motor : Settled(n)
      BY <2>1 DEF Settled, Sets
    <3>2. \A n \in Motor : WantOf(n) = Reading(latch_state, n)
      BY <2>1, <3>1, WantSettled
    <3> QED BY <1>2, <2>1, <3>2 DEF Reading
  <2>3. BoardInputs' = BoardWants
    BY <2>2 DEF BoardInputs, BoardWants
  <2>4. \A u \in Thread : CallOf(u)' = CallOf(u)
    BY <1>1, <2>1 DEF CallOf
  <2>5. UNCHANGED BoardCalls
    BY <2>4 DEF BoardCalls
  <2>6. ~(ready \/ pc[Main] = "return") /\ (ready \/ pc[Main] = "return")'
    BY <1>1, <1>6, <2>1
  <2>7. Board!ControllerInit
    BY <1>1, <1>4, <2>3, <2>5, <2>6
       DEF Board!ControllerInit, BoardInputs, BoardWants, BoardCalls
  <2> QED BY <2>7
<1>7. CASE ready
  <2>1. op[t].cmd # "INIT"
    BY <1>1, <1>7 DEF BInv, CallsHaveArguments
  <2>2. /\ CallOf(t) = Board!Call("invoked", op[t].motor, op[t].cmd)
        /\ CallOf(t)' = Board!Call("applied", op[t].motor, op[t].cmd)
    BY <1>1, <2>1 DEF CallOf, Board!Call
  <2>3. \A u \in Thread : u # t => CallOf(u)' = CallOf(u)
    BY <1>1 DEF CallOf
  <2>4. /\ BoardCalls[t].phase = "invoked"
        /\ BoardCalls' = [BoardCalls EXCEPT ![t].phase = "applied"]
    <3>1. CallOf(t)' = [CallOf(t) EXCEPT !.phase = "applied"]
      BY <2>2 DEF Board!Call
    <3>2. BoardCalls[t] = CallOf(t) /\ CallOf(t).phase = "invoked"
      BY <2>2 DEF BoardCalls, Board!Call
    <3>3. BoardCalls' = [BoardCalls EXCEPT ![t] = [BoardCalls[t] EXCEPT !.phase = "applied"]]
      BY <2>3, <3>1, <3>2 DEF BoardCalls
    <3> QED BY <3>2, <3>3
  <2>5. BoardInputs' \in [Motor -> Board!Drive]
    <3>1. \A n \in Motor : Reading(outputs, n)' \in Board!Drive
      BY DEF Reading, Board!Drive, Board!Command
    <3> QED BY <3>1 DEF BoardInputs
  <2>6. ~crowded => \A n \in Motor : BoardWants[n] # "unknown" => BoardInputs'[n] = BoardWants[n]
    BY <1>5 DEF BoardInputs, BoardWants
  <2>7. UNCHANGED (ready \/ pc[Main] = "return")
    BY <1>1, <1>7
  <2>8. Board!Apply(t)
    BY <1>1, <1>4, <2>4, <2>5, <2>6, <2>7
       DEF Board!Apply, BoardInputs, BoardWants, BoardCalls
  <2> QED BY <2>8
<1> QED BY <1>6, <1>7

(* Return ends the call: what was asked for is in latch_state by now.       *)
LEMMA ReturnReturns ==
  ASSUME BInv, BInv', NEW t \in Thread, Return(t)
  PROVE  Board!Return(t) \/ UNCHANGED Board!vars
<1> USE DEF Goto
<1>1. /\ pc[t] = "return" /\ pc'[t] = "idle" /\ ready'
      /\ \A u \in Thread : u # t => pc'[u] = pc[u]
      /\ UNCHANGED <<latch_state, op, outputs, crowded, mixed>>
  BY DEF Return, BInv, IInv, TypeOK, locals, history, board
<1>2. UNCHANGED BoardInputs
  BY <1>1 DEF BoardInputs, Reading
<1>3. ASSUME NEW n \in Motor PROVE WantOf(n)' = WantOf(n)
  <2>1. CASE n \in mixed
    BY <1>1, <2>1 DEF WantOf
  <2>2. CASE n \notin mixed /\ Sets(t, n)
    <3>1. ~crowded
      BY <2>2 DEF BInv, MixedNamed, Sets
    <3>2. WantOf(n) = op[t].cmd /\ Reading(latch_state, n) = op[t].cmd
      BY <1>1, <2>2, <3>1, WantSet, SentIsRight
    <3>3. \A u \in Thread : pc'[u] = "idle"
      BY <1>1, <3>1 DEF BInv, IInv, Exclusive
    <3>4. WantOf(n)' = Reading(latch_state, n)
      BY <1>1, <2>2, <3>3 DEF WantOf, Sets, Reading
    <3> QED BY <3>2, <3>4
  <2>3. CASE n \notin mixed /\ ~Sets(t, n)
    <3>1. \A u \in Thread : Sets(u, n)' = Sets(u, n)
      BY <1>1, <2>3 DEF Sets
    <3>2. CASE Settled(n)
      BY <1>1, <2>3, <3>1, <3>2 DEF WantOf, Settled, Reading
    <3>3. CASE ~Settled(n)
      <4>1. PICK u \in Thread : Sets(u, n)
        BY <3>3 DEF Settled
      <4>2. FALSE
        BY <1>1, <2>3, <4>1 DEF BInv, IInv, Exclusive, MixedNamed, Sets
      <4> QED BY <4>2
    <3> QED BY <3>2, <3>3
  <2> QED BY <2>1, <2>2, <2>3
<1>4. UNCHANGED BoardWants
  BY <1>3 DEF BoardWants
<1>5. CallOf(t)' = Board!NoCall /\ \A u \in Thread : u # t => CallOf(u)' = CallOf(u)
  BY <1>1 DEF CallOf, Board!NoCall
<1>6. CASE ~ready
  <2>1. t = Main /\ op[t].cmd = "INIT"
    BY <1>1, <1>6 DEF BInv, BootRunning
  <2>2. CallOf(t) = Board!NoCall
    BY <2>1 DEF CallOf, Board!NoCall
  <2>3. UNCHANGED BoardCalls
    BY <1>5, <2>2 DEF BoardCalls
  <2>4. UNCHANGED (ready \/ pc[Main] = "return")
    BY <1>1, <2>1
  <2>5. UNCHANGED Board!vars
    <3>1. UNCHANGED <<BoardInputs, BoardWants, BoardCalls, crowded>>
      BY <1>1, <1>2, <1>4, <2>3
    <3> QED BY <2>4, <3>1 DEF Board!vars, BoardInputs, BoardCalls, BoardWants
  <2> QED BY <2>5
<1>7. CASE ready
  <2>1. CallOf(t).phase = "applied"
    BY <1>1, <1>7 DEF BInv, CallsHaveArguments, CallOf
  <2>2. /\ BoardCalls[t].phase = "applied"
        /\ BoardCalls' = [BoardCalls EXCEPT ![t] = Board!NoCall]
    BY <1>5, <2>1 DEF BoardCalls
  <2>3. UNCHANGED (ready \/ pc[Main] = "return")
    BY <1>1, <1>7
  <2>4. Board!Return(t)
    BY <1>1, <1>2, <1>4, <2>2, <2>3
       DEF Board!Return, BoardInputs, BoardCalls, BoardWants
  <2> QED BY <2>4
<1> QED BY <1>6, <1>7

LEMMA BoardSteps ==
  ASSUME BInv, BInv', [Next]_vars
  PROVE  [Board!Next]_(Board!vars)
<1>0. IInv'
  BY DEF BInv
<1>1. CASE UNCHANGED vars
  BY <1>1, QuietOnBoard DEF vars, locals, history, board, Reading
<1>2. ASSUME NEW t \in Thread, NEW m \in Motor, NEW c \in Command, Enter(t, m, c)
      PROVE  Board!Next
  BY <1>2, EnterInvokes DEF Board!Next, Board!Command, Command
<1>3. ASSUME NEW t \in Thread, Step(t) PROVE [Board!Next]_(Board!vars)
  <2>1. CASE LatchHigh(t)
    BY <2>1, LatchApplies DEF Board!Next
  <2>2. CASE Return(t)
    BY <2>2, ReturnReturns DEF Board!Next
  <2>3. CASE Store1(t) \/ Store2(t)
    <3>1. \A n \in Motor \ mixed : Settled(n)
             => Reading(latch_state', n) = Reading(latch_state, n)
      BY <1>0, <2>3, StoreStep DEF Settled
    <3>2. /\ UNCHANGED <<outputs, op, crowded, mixed, ready>>
          /\ \A u \in Thread : /\ pc'[u] = "idle" <=> pc[u] = "idle"
                               /\ pc'[u] = "return" <=> pc[u] = "return"
      BY <1>0, <2>3, StoreStep
    <3> QED BY <3>1, <3>2, QuietOnBoard
  <2>4. CASE ~LatchHigh(t) /\ ~Return(t) /\ ~Store1(t) /\ ~Store2(t)
    <3>1. /\ UNCHANGED <<outputs, op, crowded, mixed, ready, latch_state>>
          /\ \A u \in Thread : /\ pc'[u] = "idle" <=> pc[u] = "idle"
                               /\ pc'[u] = "return" <=> pc[u] = "return"
      BY <1>0, <1>3, <2>4, OtherSteps
    <3>2. \A n \in Motor \ mixed : Settled(n)
             => Reading(latch_state', n) = Reading(latch_state, n)
      BY <3>1
    <3> QED BY <3>1, <3>2, QuietOnBoard
  <2> QED BY <2>1, <2>2, <2>3, <2>4
<1> QED BY <1>1, <1>2, <1>3 DEF Next

(* However many threads call and however their steps interleave, the        *)
(* pin-level driver implements the board, for every wiring, width and       *)
(* number of motors (the safety part; that every call is applied and        *)
(* returns is model-checked).                                              *)
THEOREM ImplementsBoardSafely == Spec => Board!SafetySpec
<1>1. Init => BInv
  BY BoardInitial
<1>2. BInv /\ [Next]_vars => BInv'
  BY BoardInductive
<1>3. Init => Board!Init
  BY InitialBoard
<1>4. BInv /\ BInv' /\ [Next]_vars => [Board!Next]_(Board!vars)
  BY BoardSteps
<1> QED BY <1>1, <1>2, <1>3, <1>4, PTL DEF Spec, Board!SafetySpec
===============================================================================
