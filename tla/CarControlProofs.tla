--------------------------- MODULE CarControlProofs ----------------------------
(***************************************************************************)
(* Proofs about CarControl, for every set of commands, frames, obstacles   *)
(* and sensor readings.                                                    *)
(***************************************************************************)
EXTENDS CarControl, SequenceTheorems, TLAPS

(***************************************************************************)
(* What handlers leave to be executed: sequences of instructions. All but  *)
(* the two that start a mode are calm: they set neither mode's bit.        *)
(***************************************************************************)
Modes == {"trackenable", "autoAvoid"}
CalmOp == {o \in Op : o.op = "set" /\ o.field \in Modes => o.value = FALSE}
Releases == {Run(m, R) : m \in Motor}

LEMMA CalmIsOp == CalmOp \subseteq Op
BY DEF CalmOp

LEMMA SetIsOp ==
  /\ \A f \in Field, v \in BOOLEAN : Set(f, v) \in Op
  /\ \A f \in Field \ Modes, v \in BOOLEAN : Set(f, v) \in CalmOp
  /\ \A f \in Field : Set(f, FALSE) \in CalmOp
<1>1. \A f \in Field, v \in BOOLEAN : Set(f, v) \in Op
  BY DEF Set, Op
<1>2. \A f, v : Set(f, v).op = "set" /\ Set(f, v).field = f /\ Set(f, v).value = v
  BY DEF Set
<1>3. Modes \subseteq Field
  BY DEF Modes, Field, HighByte
<1> QED  BY <1>1, <1>2, <1>3 DEF CalmOp

LEMMA RunIsOp == \A m \in Motor, c \in {F, B, R} : Run(m, c) \in CalmOp
<1>1. \A m \in Motor, c \in {F, B, R} : Run(m, c) \in Op /\ Run(m, c).op = "run"
  BY DEF Run, Op
<1> QED  BY <1>1 DEF CalmOp

LEMMA SetAllIsCode ==
  ASSUME NEW fs \in Seq(Field)
  PROVE  SetAll(fs, FALSE) \in Seq(CalmOp)
<1>1. /\ DOMAIN fs = 1 .. Len(fs) /\ Len(fs) \in Nat
      /\ \A k \in 1 .. Len(fs) : fs[k] \in Field
  OBVIOUS
<1>a. \A f \in Field : Set(f, FALSE) \in CalmOp
  BY SetIsOp
<1>2. \A k \in 1 .. Len(fs) : Set(fs[k], FALSE) \in CalmOp
  BY <1>1, <1>a
<1>3. SetAll(fs, FALSE) \in [1 .. Len(fs) -> CalmOp]
  BY <1>1, <1>2 DEF SetAll
<1> QED  BY <1>1, <1>3, SeqDef

LEMMA DrivesIsCode ==
  ASSUME NEW order \in [1 .. 4 -> Motor], NEW cmds \in [1 .. 4 -> {F, B, R}]
  PROVE  Drives(order, cmds) \in Seq(CalmOp)
<1>1. \A k \in 1 .. 4 : Run(order[k], cmds[k]) \in CalmOp
  BY RunIsOp
<1> QED  BY <1>1 DEF Drives

LEMMA StopIsCode == stop \in Seq(CalmOp) /\ stop \in Seq(Releases)
<1>1. <<1, 2, 3, 4>> \in [1 .. 4 -> Motor] /\ <<R, R, R, R>> \in [1 .. 4 -> {F, B, R}]
  BY DEF Motor
<1>2. stop \in Seq(CalmOp)
  BY <1>1, DrivesIsCode DEF stop
<1>3. \A k \in 1 .. 4 : Run(<<1, 2, 3, 4>>[k], <<R, R, R, R>>[k]) \in Releases
  BY DEF Releases, Motor
<1>4. stop \in Seq(Releases)
  BY <1>3 DEF stop, Drives
<1> QED  BY <1>2, <1>4

Name == {"forward", "left", "right", "forward_left", "forward_right", "back", "back_left",
         "back_right"}

LEMMA GoIsCode == \A name \in Name : Go(name) \in Seq(CalmOp)
<1> SUFFICES ASSUME NEW name \in Name  PROVE Go(name) \in Seq(CalmOp)
  OBVIOUS
<1>1. <<1, 2, 3, 4>> \in [1 .. 4 -> Motor] /\ <<2, 1, 3, 4>> \in [1 .. 4 -> Motor]
  BY DEF Motor
<1>2. /\ <<F, F, F, F>> \in [1 .. 4 -> {F, B, R}] /\ <<F, B, B, F>> \in [1 .. 4 -> {F, B, R}]
      /\ <<B, F, F, B>> \in [1 .. 4 -> {F, B, R}] /\ <<F, R, R, F>> \in [1 .. 4 -> {F, B, R}]
      /\ <<R, F, F, R>> \in [1 .. 4 -> {F, B, R}] /\ <<B, B, B, B>> \in [1 .. 4 -> {F, B, R}]
      /\ <<B, R, R, B>> \in [1 .. 4 -> {F, B, R}] /\ <<R, B, B, R>> \in [1 .. 4 -> {F, B, R}]
  OBVIOUS
<1> QED  BY <1>1, <1>2, DrivesIsCode DEF Go, Manoeuvre, Name

LEMMA CalmCode == \A s \in Seq(CalmOp) : s \in Seq(Op)
BY CalmIsOp

LEMMA Joined == /\ \A s, u \in Seq(Op) : s \o u \in Seq(Op)
                /\ \A s, u \in Seq(CalmOp) : s \o u \in Seq(CalmOp)
OBVIOUS

LEMMA Nothing == <<>> \in Seq(Op) /\ <<>> \in Seq(CalmOp)
OBVIOUS

LEMMA One == /\ \A x \in Op : <<x>> \in Seq(Op)
             /\ \A x \in CalmOp : <<x>> \in Seq(CalmOp)
OBVIOUS

LEMMA CalmOne ==
  /\ \A f \in {"left", "right", "forward", "back", "stop"}, v \in BOOLEAN :
       <<Set(f, v)>> \in Seq(CalmOp)
  /\ \A f \in Modes : <<Set(f, FALSE)>> \in Seq(CalmOp)
<1>1. {"left", "right", "forward", "back", "stop"} \subseteq Field \ Modes /\ Modes \subseteq Field
  BY DEF Field, LowByte, HighByte, Modes
<1>2. \A f \in {"left", "right", "forward", "back", "stop"}, v \in BOOLEAN : Set(f, v) \in CalmOp
  BY <1>1, SetIsOp
<1> QED  BY <1>1, <1>2, SetIsOp, One

LEMMA FlagsAreCode ==
  /\ LeaveModes \in Seq(CalmOp) /\ clearFlag \in Seq(CalmOp) /\ DirectionsOff \in Seq(CalmOp)
  /\ stopCase \in Seq(CalmOp) /\ scratchStop \in Seq(CalmOp) /\ irStop \in Seq(CalmOp)
<1>1. LeaveModes \in Seq(CalmOp)
  <2>1. <<"trackenable", "autoAvoid">> \in Seq(Field)
    BY DEF Field, HighByte
  <2> QED  BY <2>1, SetAllIsCode DEF LeaveModes
<1>2. clearFlag \in Seq(CalmOp)
  <2>1. <<"left", "forward", "right", "stop", "back", "autoAvoid">> \in Seq(Field)
    BY DEF Field, HighByte, LowByte
  <2> QED  BY <2>1, SetAllIsCode DEF clearFlag
<1>3. DirectionsOff \in Seq(CalmOp)
  <2>1. <<"forward", "back", "left", "right">> \in Seq(Field)
    BY DEF Field, LowByte
  <2> QED  BY <2>1, SetAllIsCode DEF DirectionsOff
<1>4. <<Set("stop", TRUE)>> \in Seq(CalmOp)
  BY CalmOne
<1>5. stopCase \in Seq(CalmOp)
  <2>1. DirectionsOff \o LeaveModes \in Seq(CalmOp)
    BY <1>1, <1>3, Joined
  <2> QED  BY <1>4, <2>1, Joined DEF stopCase
<1>6. scratchStop \in Seq(CalmOp)
  BY <1>1, StopIsCode, Joined DEF scratchStop
<1>7. irStop \in Seq(CalmOp)
  <2>1. <<"forward", "back", "right", "left">> \in Seq(Field)
    BY DEF Field, LowByte
  <2>2. SetAll(<<"forward", "back", "right", "left">>, FALSE) \in Seq(CalmOp)
    BY <2>1, SetAllIsCode
  <2> QED  BY <2>2, StopIsCode, Joined DEF irStop
<1> QED  BY <1>1, <1>2, <1>3, <1>5, <1>6, <1>7

(* Only the bytes 11 and 17 start a mode.                                   *)
LEMMA CommandsAreCalm ==
  ASSUME disWarning \in BOOLEAN, NEW c, c \notin {11, 17}
  PROVE  updateCarState(c) \in Seq(CalmOp) /\ PhaseScratchCmd(c) \in Seq(CalmOp)
<1>1. \A f \in {"left", "right", "forward", "back"}, v \in BOOLEAN :
        <<Set(f, v)>> \o LeaveModes \in Seq(CalmOp)
  BY CalmOne, FlagsAreCode, Joined
<1>2. <<>> \in Seq(CalmOp)
  BY Nothing
<1>3. <<Set("trackenable", FALSE)>> \in Seq(CalmOp) /\ <<Set("autoAvoid", FALSE)>> \in Seq(CalmOp)
  BY CalmOne DEF Modes
<1>4. updateCarState(c) \in Seq(CalmOp)
  BY <1>1, <1>2, <1>3, CalmOne, FlagsAreCode DEF updateCarState
<1>5. \A name \in {"forward", "back", "left", "right"} :
        Go(name) \in Seq(CalmOp) /\ Go(name) \o LeaveModes \in Seq(CalmOp)
  BY GoIsCode, FlagsAreCode, Joined DEF Name
<1>6. (IF disWarning THEN stop ELSE Go("back")) \o LeaveModes \in Seq(CalmOp)
  BY <1>5, StopIsCode, FlagsAreCode, Joined
<1>7. PhaseScratchCmd(c) \in Seq(CalmOp)
  BY <1>2, <1>3, <1>5, <1>6, FlagsAreCode DEF PhaseScratchCmd
<1> QED  BY <1>4, <1>7

LEMMA CommandsAreCode ==
  ASSUME disWarning \in BOOLEAN, NEW c
  PROVE  updateCarState(c) \in Seq(Op) /\ PhaseScratchCmd(c) \in Seq(Op)
<1>1. \A f \in {"left", "right", "forward", "back", "trackenable", "autoAvoid"}, v \in BOOLEAN :
        <<Set(f, v)>> \in Seq(Op)
  BY SetIsOp, One DEF Field, LowByte, HighByte
<1>2. LeaveModes \in Seq(Op) /\ stopCase \in Seq(Op) /\ scratchStop \in Seq(Op) /\ stop \in Seq(Op)
  BY FlagsAreCode, StopIsCode, CalmCode
<1>3. \A f \in {"left", "right", "forward", "back"}, v \in BOOLEAN :
        <<Set(f, v)>> \o LeaveModes \in Seq(Op)
  BY <1>1, <1>2, Joined
<1>4. <<>> \in Seq(Op)
  BY Nothing
<1>5. updateCarState(c) \in Seq(Op)
  BY <1>1, <1>2, <1>3, <1>4 DEF updateCarState
<1>6. \A name \in {"forward", "back", "left", "right"} :
        Go(name) \in Seq(Op) /\ Go(name) \o LeaveModes \in Seq(Op)
  BY <1>2, GoIsCode, CalmCode, Joined DEF Name
<1>7. (IF disWarning THEN stop ELSE Go("back")) \o LeaveModes \in Seq(Op)
  BY <1>2, <1>6, Joined
<1>8. PhaseScratchCmd(c) \in Seq(Op)
  BY <1>1, <1>2, <1>4, <1>6, <1>7 DEF PhaseScratchCmd
<1> QED  BY <1>5, <1>8

LEMMA MotionIsCode ==
  ASSUME carstate \in [Field -> BOOLEAN]
  PROVE  updateCarMotion \in Seq(CalmOp) /\ updateCarMotion \in Seq(Op)
<1> SUFFICES updateCarMotion \in Seq(CalmOp)
  BY CalmCode
<1>1. /\ {carstate["left"], carstate["right"]} \subseteq BOOLEAN
      /\ {carstate["forward"], carstate["back"]} \subseteq BOOLEAN
  BY DEF Field, LowByte
<1>2. <<Set("stop", FALSE)>> \o stop \in Seq(CalmOp)
  <2>1. <<Set("stop", FALSE)>> \in Seq(CalmOp)
    BY CalmOne
  <2> QED  BY <2>1, StopIsCode, Joined
<1> DEFINE side == CASE carstate["left"] = carstate["right"]      -> "straight"
                     [] carstate["left"] /\ ~carstate["right"]    -> "left"
                     [] carstate["right"] /\ ~carstate["left"]    -> "right"
<1>3. side \in {"straight", "left", "right"}
  BY <1>1
<1>4. \A s \in {"straight", "left", "right"} :
        /\ [straight |-> "forward", left |-> "forward_left", right |-> "forward_right"][s] \in Name
        /\ [straight |-> "back", left |-> "back_left", right |-> "back_right"][s] \in Name
        /\ s # "straight" => s \in Name
  BY DEF Name
<1> HIDE DEF side
<1>5. CASE carstate["forward"] /\ ~carstate["back"]
  <2>1. updateCarMotion =
          Go([straight |-> "forward", left |-> "forward_left", right |-> "forward_right"][side])
    BY <1>1, <1>5 DEF updateCarMotion, side
  <2> QED  BY <2>1, <1>3, <1>4, GoIsCode
<1>6. CASE carstate["back"] /\ ~carstate["forward"]
  <2>1. updateCarMotion =
          Go([straight |-> "back", left |-> "back_left", right |-> "back_right"][side])
    BY <1>1, <1>6 DEF updateCarMotion, side
  <2> QED  BY <2>1, <1>3, <1>4, GoIsCode
<1>7. CASE carstate["forward"] = carstate["back"] /\ side # "straight"
  <2>1. updateCarMotion = Go(side)
    BY <1>1, <1>7 DEF updateCarMotion, side
  <2> QED  BY <2>1, <1>3, <1>4, <1>7, GoIsCode
<1>8. CASE carstate["forward"] = carstate["back"] /\ side = "straight"
  <2>1. updateCarMotion \in {<<Set("stop", FALSE)>> \o stop, <<>>}
    BY <1>1, <1>8 DEF updateCarMotion, side
  <2> QED  BY <2>1, <1>2, Nothing
<1> QED  BY <1>1, <1>5, <1>6, <1>7, <1>8

LEMMA RemoteIsCode ==
  ASSUME disWarning \in BOOLEAN, NEW c
  PROVE  IR_updateCarState(c) \in Seq(Op) /\ IR_updateCarMotion \in Seq(Op)
<1>1. \A f \in {"forward", "back", "left", "right", "trackenable"}, v \in BOOLEAN :
        <<Set(f, v)>> \in Seq(Op)
  BY SetIsOp, One DEF Field, LowByte, HighByte
<1>2. <<Set("trackenable", FALSE)>> \o stop \in Seq(Op)
  BY <1>1, StopIsCode, CalmCode, Joined
<1>a. <<>> \in Seq(Op) /\ irStop \in Seq(Op)
  BY Nothing, FlagsAreCode, CalmCode
<1>3. IR_updateCarState(c) \in Seq(Op)
  BY <1>1, <1>2, <1>a DEF IR_updateCarState
<1>4. \A f \in LowByte : When(f, f) \in Op
  BY DEF When, Op
<1>5. IR_updateCarMotion \in Seq(Op)
  BY <1>4 DEF IR_updateCarMotion, LowByte
<1> QED  BY <1>3, <1>5

(***************************************************************************)
(* The inductive invariant: TypeOK, and what it leaves open about threads.  *)
(* A byte that is loaded is the one of the assignment under way.           *)
(***************************************************************************)
Places == {"listen", "accept", "read", "motion", "measure", "warned", "loop", "track", "sense",
           "lineLeft", "lineRight", "avoidTest", "avoid", "ir", "irMotion"}

Loaded(t) ==
  reg[t] # NotLoaded => /\ code[t] # <<>> /\ Instr(t).op = "set"
                        /\ reg[t] \in [ByteOf(Instr(t).field) -> BOOLEAN]

ThreadsOK == /\ pc \in [Thread -> Places] /\ code \in [Thread -> Seq(Op)]
             /\ DOMAIN reg = Thread /\ reg = [t \in Thread |-> reg[t]]
             /\ \A t \in Thread : Loaded(t)

GlobalsOK ==
  /\ carstate \in [Field -> BOOLEAN]
  /\ {disWarning, turnFlag, turnLeftFlag, turnBackFlag, done, client_Connected,
      poweroffFlag, near, alive} \subseteq BOOLEAN
  /\ turnPhase \in Phases
  /\ irCode \in IrCodes \cup {0}
  /\ client \in {"none", "peer", "error"}
  /\ drive \in [Motor -> {F, B, R}]

PlacesOK ==
  /\ pc["main"] \in {"listen", "accept", "read", "motion"}
  /\ pc["fun1"] \in {"measure", "warned"}
  /\ pc["fun2"] \in {"loop", "track", "sense", "lineLeft", "lineRight", "avoidTest",
                     "avoid", "ir", "irMotion"}

TypeInv == GlobalsOK /\ PlacesOK /\ ThreadsOK

LEMMA TypeInvTypeOK == TypeInv => TypeOK
<1> SUFFICES ASSUME TypeInv, NEW t \in Thread
             PROVE  /\ \A k \in DOMAIN code[t] : code[t][k] \in Op
                    /\ reg[t] \in {NotLoaded} \cup [LowByte -> BOOLEAN] \cup [HighByte -> BOOLEAN]
  BY DEF TypeInv, TypeOK, GlobalsOK, PlacesOK
<1>1. code[t] \in Seq(Op)
  BY DEF TypeInv, ThreadsOK
<1>2. reg[t] = NotLoaded \/ reg[t] \in [ByteOf(Instr(t).field) -> BOOLEAN]
  BY DEF TypeInv, ThreadsOK, Loaded
<1>3. \A f : ByteOf(f) \in {LowByte, HighByte}
  BY DEF ByteOf
<1>4. \A k \in DOMAIN code[t] : code[t][k] \in Op
  BY <1>1
<1> QED  BY <1>2, <1>3, <1>4

LEMMA TypeInit == Init => TypeInv
<1> SUFFICES ASSUME Init  PROVE TypeInv
  OBVIOUS
<1>1. GlobalsOK
  BY DEF Init, GlobalsOK, Phases, R
<1>2. PlacesOK
  BY DEF Init, PlacesOK
<1>3. ThreadsOK
  BY DEF Init, ThreadsOK, Places, Thread, Loaded
<1> QED  BY <1>1, <1>2, <1>3 DEF TypeInv

(* A thread that has nothing left to execute goes on with more code.        *)
LEMMA DoKeeps ==
  ASSUME TypeInv, NEW t \in Thread, NEW from, At(t, from),
         NEW ops \in Seq(Op), NEW to \in Places, Do(t, ops, to)
  PROVE  ThreadsOK'
<1>1. pc' \in [Thread -> Places] /\ code' \in [Thread -> Seq(Op)]
  BY DEF Do, TypeInv, ThreadsOK
<1>2. reg' = reg /\ code' = [code EXCEPT ![t] = ops]
  BY DEF Do
<1>3. reg[t] = NotLoaded
  BY DEF At, TypeInv, ThreadsOK, Loaded
<1>4. ASSUME NEW u \in Thread  PROVE Loaded(u)'
  BY <1>2, <1>3, <1>4 DEF TypeInv, ThreadsOK, Loaded, Instr
<1> QED  BY <1>1, <1>2, <1>4 DEF TypeInv, ThreadsOK

(* What is left of the type invariant for a step that only has Do change    *)
(* the threads.                                                            *)
LEMMA DoKeepsPlaces ==
  ASSUME TypeInv, NEW t \in Thread, NEW from, At(t, from), NEW ops, NEW to, Do(t, ops, to),
         t = "main" => to \in {"listen", "accept", "read", "motion"},
         t = "fun1" => to \in {"measure", "warned"},
         t = "fun2" => to \in {"loop", "track", "sense", "lineLeft", "lineRight", "avoidTest",
                              "avoid", "ir", "irMotion"}
  PROVE  PlacesOK'
<1>1. pc \in [Thread -> Places] /\ pc' = [pc EXCEPT ![t] = to]
  BY DEF TypeInv, ThreadsOK, Do
<1>2. Thread = {"main", "fun1", "fun2"}
  BY DEF Thread
<1> QED  BY <1>1, <1>2 DEF TypeInv, PlacesOK

LEMMA ExecuteKeeps ==
  ASSUME TypeInv, NEW t \in Thread, Execute(t)
  PROVE  TypeInv'
<1>1. /\ code[t] \in Seq(Op) /\ code[t] # <<>> /\ Instr(t) \in Op
      /\ Tail(code[t]) \in Seq(Op)
  <2>1. code[t] \in Seq(Op) /\ code[t] # <<>>
    BY DEF Execute, LoadByte, StoreByte, DCMotorRun, Branch, Executing, TypeInv, ThreadsOK
  <2> QED  BY <2>1 DEF Instr
<1>2. CASE LoadByte(t)
  <2>1. Instr(t).field \in Field
    BY <1>1, <1>2 DEF LoadByte, Executing, Op
  <2>2. ByteOf(Instr(t).field) \subseteq Field
    BY DEF ByteOf, Field
  <2>3. reg' = [reg EXCEPT ![t] = [f \in ByteOf(Instr(t).field) |-> carstate[f]]]
    BY <1>2 DEF LoadByte
  <2>4. reg'[t] \in [ByteOf(Instr(t).field) -> BOOLEAN]
    BY <2>2, <2>3 DEF TypeInv, ThreadsOK, GlobalsOK
  <2>5. code' = code /\ pc' = pc
    BY <1>2 DEF LoadByte
  <2>6. Loaded(t)'
    BY <1>1, <1>2, <2>4, <2>5 DEF LoadByte, Executing, Loaded, Instr
  <2>7. \A u \in Thread \ {t} : Loaded(u)'
    BY <2>3, <2>5 DEF TypeInv, ThreadsOK, Loaded, Instr
  <2>8. ThreadsOK'
    BY <2>3, <2>5, <2>6, <2>7 DEF TypeInv, ThreadsOK
  <2> QED  BY <1>2, <2>8 DEF LoadByte, TypeInv, GlobalsOK, PlacesOK, turnVars, irVars, clientVars
<1>3. CASE StoreByte(t)
  <2>1. Instr(t).field \in Field /\ Instr(t).value \in BOOLEAN
    BY <1>1, <1>3 DEF StoreByte, Executing, Op
  <2>2. reg[t] \in [ByteOf(Instr(t).field) -> BOOLEAN]
    BY <1>3 DEF StoreByte, TypeInv, ThreadsOK, Loaded
  <2>3. carstate' \in [Field -> BOOLEAN]
    BY <1>3, <2>1, <2>2 DEF StoreByte, TypeInv, GlobalsOK
  <2>4. reg' = [reg EXCEPT ![t] = NotLoaded] /\ pc' = pc /\ code' = [code EXCEPT ![t] = Tail(@)]
    BY <1>3 DEF StoreByte, Executed
  <2>5. \A u \in Thread : Loaded(u)'
    BY <2>4 DEF TypeInv, ThreadsOK, Loaded, Instr
  <2>6. ThreadsOK'
    BY <1>1, <2>4, <2>5 DEF TypeInv, ThreadsOK
  <2> QED  BY <1>3, <2>3, <2>6
           DEF StoreByte, TypeInv, GlobalsOK, PlacesOK, turnVars, irVars, clientVars
<1>4. CASE DCMotorRun(t)
  <2>1. Instr(t).motor \in Motor /\ Instr(t).cmd \in {F, B, R}
    BY <1>1, <1>4 DEF DCMotorRun, Executing, Op
  <2>2. drive' \in [Motor -> {F, B, R}]
    BY <1>4, <2>1 DEF DCMotorRun, TypeInv, GlobalsOK
  <2>3. reg' = reg /\ pc' = pc /\ code' = [code EXCEPT ![t] = Tail(@)]
    BY <1>4 DEF DCMotorRun, Executed
  <2>4. reg[t] = NotLoaded
    BY <1>4 DEF DCMotorRun, Executing, TypeInv, ThreadsOK, Loaded
  <2>5. \A u \in Thread : Loaded(u)'
    BY <2>3, <2>4 DEF TypeInv, ThreadsOK, Loaded, Instr
  <2>6. ThreadsOK'
    BY <1>1, <2>3, <2>5 DEF TypeInv, ThreadsOK
  <2> QED  BY <1>4, <2>2, <2>6
           DEF DCMotorRun, TypeInv, GlobalsOK, PlacesOK, turnVars, irVars, clientVars
<1>5. CASE Branch(t)
  <2>1. Instr(t).name \in Name
    BY <1>1, <1>5 DEF Branch, Executing, Op, LowByte, Name
  <2> DEFINE more == (IF carstate[Instr(t).field] THEN Go(Instr(t).name) ELSE <<>>) \o Tail(code[t])
  <2>2. more \in Seq(Op)
    BY <1>1, <2>1, GoIsCode, CalmCode, Nothing, Joined
  <2>3. reg' = reg /\ pc' = pc /\ code' = [code EXCEPT ![t] = more]
    BY <1>5 DEF Branch
  <2>4. reg[t] = NotLoaded
    BY <1>5 DEF Branch, Executing, TypeInv, ThreadsOK, Loaded
  <2> HIDE DEF more
  <2>5. \A u \in Thread : Loaded(u)'
    BY <2>3, <2>4 DEF TypeInv, ThreadsOK, Loaded, Instr
  <2>6. ThreadsOK'
    BY <2>2, <2>3, <2>5 DEF TypeInv, ThreadsOK
  <2> QED  BY <1>5, <2>6 DEF Branch, TypeInv, GlobalsOK, PlacesOK, turnVars, irVars, clientVars
<1> QED  BY <1>2, <1>3, <1>4, <1>5 DEF Execute

LEMMA TypeNext == TypeInv /\ [Next]_vars => TypeInv'
<1> SUFFICES ASSUME TypeInv, [Next]_vars  PROVE TypeInv'
  OBVIOUS
<1>d. disWarning \in BOOLEAN /\ carstate \in [Field -> BOOLEAN]
  BY DEF TypeInv, GlobalsOK
<1>n. {"forward", "back", "left", "forward_left", "forward_right"} \subseteq Name
  BY DEF Name
<1>t. Thread = {"main", "fun1", "fun2"}
  BY DEF Thread
<1>1. CASE Listen
  <2>1. clearFlag \o stop \in Seq(Op)
    BY FlagsAreCode, StopIsCode, CalmCode, Joined
  <2>2. At("main", "listen") /\ Do("main", clearFlag \o stop, "accept")
    BY <1>1 DEF Listen
  <2>3. ThreadsOK' /\ PlacesOK'
    BY <2>1, <2>2, <1>t, DoKeeps, DoKeepsPlaces DEF Places
  <2> QED  BY <1>1, <2>3 DEF Listen, Do, TypeInv, GlobalsOK, turnVars, irVars
<1>2. CASE Accept
  <2>1. At("main", "accept") /\ Do("main", <<>>, "read")
    BY <1>2 DEF Accept
  <2>2. ThreadsOK' /\ PlacesOK'
    BY <2>1, <1>t, Nothing, DoKeeps, DoKeepsPlaces DEF Places
  <2> QED  BY <1>2, <2>2 DEF Accept, Do, TypeInv, GlobalsOK, turnVars, irVars
<1>3. CASE ReadApp
  <2>1. PICK c \in AppCommands : /\ Do("main", updateCarState(c), "motion") /\ PowerOff(c)
    BY <1>3 DEF ReadApp
  <2>2. At("main", "read") /\ updateCarState(c) \in Seq(Op)
    BY <1>3, <1>d, CommandsAreCode DEF ReadApp
  <2>3. ThreadsOK' /\ PlacesOK'
    BY <2>1, <2>2, <1>t, DoKeeps, DoKeepsPlaces DEF Places
  <2> QED  BY <1>3, <2>1, <2>3 DEF ReadApp, Do, PowerOff, TypeInv, GlobalsOK, turnVars, irVars
<1>4. CASE Motion
  <2>1. At("main", "motion") /\ Do("main", updateCarMotion, "read")
    BY <1>4 DEF Motion
  <2>2. ThreadsOK' /\ PlacesOK'
    BY <2>1, <1>d, <1>t, MotionIsCode, DoKeeps, DoKeepsPlaces DEF Places
  <2> QED  BY <1>4, <2>2 DEF Motion, Do, TypeInv, GlobalsOK, turnVars, irVars, clientVars
<1>5. CASE ReadScratch
  <2>1. PICK c \in ScratchCommands : Do("main", PhaseScratchCmd(c), "read") /\ PowerOff(c)
    BY <1>5 DEF ReadScratch
  <2>2. At("main", "read") /\ PhaseScratchCmd(c) \in Seq(Op)
    BY <1>5, <1>d, CommandsAreCode DEF ReadScratch
  <2>3. ThreadsOK' /\ PlacesOK'
    BY <2>1, <2>2, <1>t, DoKeeps, DoKeepsPlaces DEF Places
  <2> QED  BY <1>5, <2>1, <2>3 DEF ReadScratch, Do, PowerOff, TypeInv, GlobalsOK, turnVars, irVars
<1>6. CASE Hangup
  <2>1. stop \o clearFlag \in Seq(Op)
    BY FlagsAreCode, StopIsCode, CalmCode, Joined
  <2>2. At("main", "read") /\ Do("main", stop \o clearFlag, "listen")
    BY <1>6 DEF Hangup
  <2>3. ThreadsOK' /\ PlacesOK'
    BY <2>1, <2>2, <1>t, DoKeeps, DoKeepsPlaces DEF Places
  <2> QED  BY <1>6, <2>3 DEF Hangup, Do, TypeInv, GlobalsOK, turnVars, irVars
<1>7. CASE fun1Steps
  <2>1. CASE Measure
    <3>1. At("fun1", "measure") /\ Do("fun1", <<>>, IF near THEN "warned" ELSE "measure")
      BY <2>1 DEF Measure
    <3>2. (IF near THEN "warned" ELSE "measure") \in {"measure", "warned"}
      OBVIOUS
    <3>3. ThreadsOK' /\ PlacesOK'
      BY <3>1, <3>2, <1>t, Nothing, DoKeeps, DoKeepsPlaces DEF Places
    <3> QED  BY <2>1, <3>3 DEF Measure, Do, TypeInv, GlobalsOK, turnVars, irVars, clientVars
  <2>2. CASE Warned
    <3> DEFINE ops == IF carstate["forward"] /\ ~carstate["autoAvoid"] THEN stop ELSE <<>>
    <3>1. ops \in Seq(Op)
      BY StopIsCode, CalmCode, Nothing
    <3>2. At("fun1", "warned") /\ Do("fun1", ops, "measure")
      BY <2>2 DEF Warned
    <3> HIDE DEF ops
    <3>3. ThreadsOK' /\ PlacesOK'
      BY <3>1, <3>2, <1>t, DoKeeps, DoKeepsPlaces DEF Places
    <3> QED  BY <2>2, <3>3 DEF Warned, Do, TypeInv, GlobalsOK, turnVars, irVars, clientVars
  <2>3. CASE Execute("fun1")
    BY <2>3, <1>t, ExecuteKeeps
  <2> QED  BY <1>7, <2>1, <2>2, <2>3 DEF fun1Steps
<1>8. CASE TrackTest("loop") \/ TrackTest("track")
  <2>1. PICK label \in {"loop", "track"} : TrackTest(label)
    BY <1>8
  <2> DEFINE to == IF carstate["trackenable"] THEN "sense" ELSE "avoidTest"
  <2>2. At("fun2", label) /\ Do("fun2", <<>>, to)
    BY <2>1 DEF TrackTest
  <2>3. to \in {"sense", "avoidTest"}
    OBVIOUS
  <2> HIDE DEF to
  <2>4. ThreadsOK' /\ PlacesOK'
    BY <2>2, <2>3, <1>t, Nothing, DoKeeps, DoKeepsPlaces DEF Places
  <2> QED  BY <2>1, <2>4 DEF TrackTest, Do, TypeInv, GlobalsOK, turnVars, irVars, clientVars
<1>h. \A m \in {"forward", "forward_left", "forward_right"} : Heading(m) \in Seq(Op)
  BY <1>d, <1>n, GoIsCode, StopIsCode, CalmCode DEF Heading
<1>9. CASE Sense
  <2>1. PICK num \in SensorReadings :
          CASE num = <<0, 0, 0>> -> Do("fun2", stop, "track")
            [] num[1] = 0 /\ num[3] = 1 -> Do("fun2", Go("forward_left"), "lineLeft")
            [] num[3] = 0 /\ num[1] = 1 -> Do("fun2", Go("forward_right"), "lineRight")
            [] num[1] = num[3] /\ num # <<0, 0, 0>> -> Do("fun2", Heading("forward"), "track")
    BY <1>9 DEF Sense
  <2>2. num \in [1 .. 3 -> {0, 1}]
    BY <2>1, WorldAssumption
  <2>3. \E ops \in Seq(Op), to \in {"track", "lineLeft", "lineRight"} : Do("fun2", ops, to)
    <3>1. CASE num = <<0, 0, 0>>
      BY <2>1, <3>1, StopIsCode, CalmCode
    <3>2. CASE num[1] = 0 /\ num[3] = 1
      BY <2>1, <3>2, <1>n, GoIsCode, CalmCode
    <3>3. CASE num[3] = 0 /\ num[1] = 1
      BY <2>1, <3>3, <1>n, GoIsCode, CalmCode
    <3>4. CASE num[1] = num[3] /\ num # <<0, 0, 0>>
      BY <2>1, <3>4, <1>h
    <3> QED  BY <2>2, <3>1, <3>2, <3>3, <3>4
  <2>4. PICK ops \in Seq(Op), to \in {"track", "lineLeft", "lineRight"} : Do("fun2", ops, to)
    BY <2>3
  <2>5. At("fun2", "sense")
    BY <1>9 DEF Sense
  <2>6. ThreadsOK' /\ PlacesOK'
    BY <2>4, <2>5, <1>t, DoKeeps, DoKeepsPlaces DEF Places
  <2> QED  BY <1>9, <2>4, <2>6 DEF Sense, Do, TypeInv, GlobalsOK, turnVars, irVars, clientVars
<1>10. ASSUME NEW label \in {"lineLeft", "lineRight"}, NEW m \in {"forward_left", "forward_right"},
              FollowLine(label, m)
       PROVE  TypeInv'
  <2>1. PICK num \in SensorReadings :
          IF num[2] = 1 /\ carstate["trackenable"] THEN Do("fun2", Heading(m), label)
                                                   ELSE Do("fun2", <<>>, "track")
    BY <1>10 DEF FollowLine
  <2>2. \E ops \in Seq(Op), to \in {"track", "lineLeft", "lineRight"} : Do("fun2", ops, to)
    BY <2>1, <1>h, Nothing
  <2>3. PICK ops \in Seq(Op), to \in {"track", "lineLeft", "lineRight"} : Do("fun2", ops, to)
    BY <2>2
  <2>4. At("fun2", label)
    BY <1>10 DEF FollowLine
  <2>5. ThreadsOK' /\ PlacesOK'
    BY <2>3, <2>4, <1>t, DoKeeps, DoKeepsPlaces DEF Places
  <2> QED  BY <1>10, <2>3, <2>5 DEF FollowLine, Do, TypeInv, GlobalsOK, turnVars, irVars, clientVars
<1>11. CASE AvoidTest
  <2> DEFINE to == IF carstate["autoAvoid"] THEN "avoid" ELSE "ir"
  <2>1. At("fun2", "avoidTest") /\ Do("fun2", <<>>, to)
    BY <1>11 DEF AvoidTest
  <2>2. to \in {"avoid", "ir"}
    OBVIOUS
  <2> HIDE DEF to
  <2>3. ThreadsOK' /\ PlacesOK'
    BY <2>1, <2>2, <1>t, Nothing, DoKeeps, DoKeepsPlaces DEF Places
  <2> QED  BY <1>11, <2>3 DEF AvoidTest, Do, TypeInv, GlobalsOK, turnVars, irVars, clientVars
<1>12. CASE AvoidExit
  <2>1. At("fun2", "avoid") /\ Do("fun2", stop, "ir")
    BY <1>12 DEF AvoidExit
  <2>2. ThreadsOK' /\ PlacesOK'
    BY <2>1, <1>t, StopIsCode, CalmCode, DoKeeps, DoKeepsPlaces DEF Places
  <2> QED  BY <1>12, <2>2 DEF AvoidExit, Do, TypeInv, GlobalsOK, turnVars, irVars, clientVars
<1>13. CASE AvoidForward
  <2>1. At("fun2", "avoid") /\ Do("fun2", Go("forward"), "avoid")
    BY <1>13 DEF AvoidForward
  <2>2. ThreadsOK' /\ PlacesOK'
    BY <2>1, <1>t, <1>n, GoIsCode, CalmCode, DoKeeps, DoKeepsPlaces DEF Places
  <2> QED  BY <1>13, <2>2 DEF AvoidForward, Do, TypeInv, GlobalsOK, turnVars, irVars, clientVars
<1>14. CASE AvoidTurn
  <2>1. PICK phase \in IF turnFlag THEN {turnPhase} ELSE Phases :
          /\ turnPhase' = phase
          /\ turnFlag' = turnFlagAfter(phase)
          /\ turnBackFlag' = turnBackFlagAfter(phase)
          /\ turnLeftFlag' = turnLeftFlagAfter(phase)
          /\ Do("fun2", CASE phase = "now"  -> <<>>
                          [] phase = "back" -> Go("back")
                          [] phase = "left" -> Go("left")
                          [] phase = "over" -> stop, "avoid")
    BY <1>14 DEF AvoidTurn
  <2> DEFINE ops == CASE phase = "now"  -> <<>>
                      [] phase = "back" -> Go("back")
                      [] phase = "left" -> Go("left")
                      [] phase = "over" -> stop
  <2>2. phase \in Phases
    BY DEF TypeInv, GlobalsOK
  <2>3. ops \in Seq(Op)
    BY <2>2, <1>n, Nothing, GoIsCode, StopIsCode, CalmCode DEF Phases
  <2>4. At("fun2", "avoid") /\ Do("fun2", ops, "avoid")
    BY <1>14, <2>1 DEF AvoidTurn
  <2> HIDE DEF ops
  <2>5. ThreadsOK' /\ PlacesOK'
    BY <2>3, <2>4, <1>t, DoKeeps, DoKeepsPlaces DEF Places
  <2>6. turnPhase' \in Phases /\ {turnFlag', turnBackFlag', turnLeftFlag'} \subseteq BOOLEAN
    BY <2>1, <2>2 DEF turnFlagAfter, turnBackFlagAfter, turnLeftFlagAfter, TypeInv, GlobalsOK
  <2> QED  BY <1>14, <2>4, <2>5, <2>6
           DEF AvoidTurn, Do, TypeInv, GlobalsOK, irVars, clientVars
<1>15. CASE IrPoll
  <2>1. IF done THEN Do("fun2", IR_updateCarState(irCode), "irMotion") ELSE Do("fun2", <<>>, "loop")
    BY <1>15 DEF IrPoll
  <2>2. \E ops \in Seq(Op), to \in {"irMotion", "loop"} : Do("fun2", ops, to)
    BY <2>1, <1>d, Nothing, RemoteIsCode
  <2>3. PICK ops \in Seq(Op), to \in {"irMotion", "loop"} : Do("fun2", ops, to)
    BY <2>2
  <2>4. At("fun2", "ir") /\ done' = FALSE
    BY <1>15 DEF IrPoll
  <2>5. ThreadsOK' /\ PlacesOK'
    BY <2>3, <2>4, <1>t, DoKeeps, DoKeepsPlaces DEF Places
  <2> QED  BY <1>15, <2>3, <2>4, <2>5 DEF IrPoll, Do, TypeInv, GlobalsOK, turnVars, clientVars
<1>16. CASE IrMotion
  <2>1. At("fun2", "irMotion") /\ Do("fun2", IR_updateCarMotion, "loop")
    BY <1>16 DEF IrMotion
  <2>2. ThreadsOK' /\ PlacesOK'
    BY <2>1, <1>d, <1>t, RemoteIsCode, DoKeeps, DoKeepsPlaces DEF Places
  <2> QED  BY <1>16, <2>2 DEF IrMotion, Do, TypeInv, GlobalsOK, turnVars, irVars, clientVars
<1>17. CASE Obstacle \/ Tick \/ getIR \/ Exit
  <2>1. UNCHANGED <<carstate, disWarning, clientVars, drive, threadVars>>
    BY <1>17 DEF Obstacle, Tick, getIR, Exit, Surroundings
  <2>2. ThreadsOK' /\ PlacesOK'
    BY <2>1 DEF TypeInv, ThreadsOK, PlacesOK, Loaded, Instr, threadVars
  <2>3. CASE Obstacle
    BY <2>1, <2>2, <2>3, WorldAssumption
    DEF Obstacle, TypeInv, GlobalsOK, turnVars, irVars, clientVars
  <2>4. CASE Tick
    <3>1. turnPhase' \in Phases
      BY <2>4 DEF Tick, TypeInv, GlobalsOK, Phases
    <3> QED  BY <2>1, <2>2, <2>4, <3>1 DEF Tick, TypeInv, GlobalsOK, irVars, clientVars
  <2>5. CASE getIR
    BY <2>1, <2>2, <2>5 DEF getIR, TypeInv, GlobalsOK, turnVars, clientVars
  <2>6. CASE Exit
    BY <2>1, <2>2, <2>6 DEF Exit, TypeInv, GlobalsOK, turnVars, irVars, clientVars
  <2> QED  BY <1>17, <2>3, <2>4, <2>5, <2>6
<1>18. CASE UNCHANGED vars
  BY <1>18 DEF vars, TypeInv, GlobalsOK, PlacesOK, ThreadsOK,
               Loaded, Instr, turnVars, irVars, clientVars, threadVars
<1>19. CASE Execute("main") \/ Execute("fun2")
  BY <1>19, <1>t, ExecuteKeeps
<1> QED  BY <1>1, <1>2, <1>3, <1>4, <1>5, <1>6, <1>7, <1>8, <1>9, <1>10, <1>11, <1>12, <1>13,
            <1>14, <1>15, <1>16, <1>17, <1>18, <1>19
         DEF Next, mainSteps, clientSteps, fun2Steps

(* Every variable of the control core has its type: in particular each      *)
(* thread only ever executes instructions, whatever it is told to do.      *)
THEOREM TypeCorrect == Spec => []TypeOK
BY TypeInit, TypeNext, TypeInvTypeOK, PTL DEF Spec

(***************************************************************************)
(* A car that is driven by hand: no client starts a mode, and no remote is  *)
(* used. Then fun2 drives nothing, fun1 only stops, and while main waits    *)
(* for a client, each motor is released or about to be (Halting).          *)
(***************************************************************************)
ByHand == (AppCommands \cup ScratchCommands) \cap {11, 17} = {} /\ IrCodes = {}

ModesOff ==
  /\ \A f \in Modes : carstate[f] = FALSE
  /\ \A f \in Modes : reg["main"] # NotLoaded /\ f \in ByteOf(Instr("main").field)
                         => reg["main"][f] = FALSE

OnlyMainDrives ==
  /\ code["main"] \in Seq(CalmOp) /\ code["fun1"] \in Seq(Releases) /\ code["fun2"] = <<>>
  /\ pc["fun2"] \in {"loop", "avoidTest", "ir"} /\ done = FALSE

HaltOp == {o \in CalmOp : o.op = "set"} \cup Releases

Halting ==
  pc["main"] = "accept" =>
    /\ code["main"] \in Seq(HaltOp)
    /\ \A m \in Motor :
         drive[m] = R \/ \E k \in 1 .. Len(code["main"]) : code["main"][k] = Run(m, R)

HandInv == TypeInv /\ ModesOff /\ OnlyMainDrives /\ Halting

LEMMA ReleaseHas == \A m, c : Run(m, c).op = "run" /\ Run(m, c).motor = m /\ Run(m, c).cmd = c
BY DEF Run

LEMMA SetAllHalts ==
  ASSUME NEW fs \in Seq(Field)
  PROVE  SetAll(fs, FALSE) \in Seq(HaltOp)
<1>1. /\ DOMAIN fs = 1 .. Len(fs) /\ Len(fs) \in Nat
      /\ \A k \in 1 .. Len(fs) : fs[k] \in Field
  OBVIOUS
<1>2. \A f \in Field : Set(f, FALSE) \in HaltOp
  BY SetIsOp DEF HaltOp, Set
<1>3. \A k \in 1 .. Len(fs) : Set(fs[k], FALSE) \in HaltOp
  BY <1>1, <1>2
<1>4. SetAll(fs, FALSE) \in [1 .. Len(fs) -> HaltOp]
  BY <1>1, <1>3 DEF SetAll
<1> QED  BY <1>1, <1>4, SeqDef

LEMMA HaltCode ==
  /\ clearFlag \o stop \in Seq(HaltOp)
  /\ \A m \in Motor : \E k \in 1 .. Len(clearFlag \o stop) : (clearFlag \o stop)[k] = Run(m, R)
<1>1. Releases \subseteq HaltOp
  BY DEF HaltOp
<1>2. stop \in Seq(HaltOp)
  BY <1>1, StopIsCode
<1>3. clearFlag \in Seq(HaltOp)
  <2>1. <<"left", "forward", "right", "stop", "back", "autoAvoid">> \in Seq(Field)
    BY DEF Field, HighByte, LowByte
  <2> QED  BY <2>1, SetAllHalts DEF clearFlag
<1>4. clearFlag \o stop \in Seq(HaltOp)
  BY <1>2, <1>3
<1>5. Len(stop) = 4 /\ \A m \in Motor : stop[m] = Run(m, R)
  BY DEF stop, Drives, Motor
<1>6. ASSUME NEW m \in Motor
      PROVE  \E k \in 1 .. Len(clearFlag \o stop) : (clearFlag \o stop)[k] = Run(m, R)
  <2>1. Len(clearFlag) \in Nat /\ m \in 1 .. 4
    BY <1>3 DEF Motor
  <2>b. Len(clearFlag \o stop) = Len(clearFlag) + Len(stop)
    BY <1>2, <1>3
  <2>2. Len(clearFlag \o stop) = Len(clearFlag) + 4
    BY <2>b, <1>5
  <2>a. /\ Len(clearFlag) + m \in 1 .. Len(clearFlag) + Len(stop)
        /\ Len(clearFlag) + m > Len(clearFlag)
        /\ (Len(clearFlag) + m) - Len(clearFlag) = m
    BY <1>5, <2>1
  <2>3. (clearFlag \o stop)[Len(clearFlag) + m] = stop[m]
    BY <1>2, <1>3, <2>a, ConcatProperties
  <2>4. Len(clearFlag) + m \in 1 .. Len(clearFlag \o stop)
    BY <2>1, <2>2
  <2> QED  BY <1>5, <2>3, <2>4
<1> QED  BY <1>4, <1>6

LEMMA HandInit == Init => HandInv
<1> SUFFICES ASSUME Init  PROVE HandInv
  OBVIOUS
<1>1. ModesOff
  BY DEF Init, ModesOff, Modes, Field, HighByte, Thread
<1>2. OnlyMainDrives
  <2>1. code = [t \in Thread |-> <<>>] /\ Thread = {"main", "fun1", "fun2"}
    BY DEF Init, Thread
  <2>2. <<>> \in Seq(CalmOp) /\ <<>> \in Seq(Releases)
    OBVIOUS
  <2> QED  BY <2>1, <2>2 DEF Init, OnlyMainDrives
<1>3. Halting
  BY DEF Init, Halting
<1> QED  BY <1>1, <1>2, <1>3, TypeInit DEF HandInv

(* A step in which Do gives thread t new code.                             *)
LEMMA DoKeepsHand ==
  ASSUME HandInv, TypeInv', NEW t \in Thread, NEW from, At(t, from),
         NEW ops, NEW to, Do(t, ops, to), done' = FALSE,
         t = "main" => ops \in Seq(CalmOp),
         t = "main" /\ to = "accept" => ops = clearFlag \o stop,
         t = "fun1" => ops \in Seq(Releases),
         t = "fun2" => ops = <<>> /\ to \in {"loop", "avoidTest", "ir"}
  PROVE  HandInv'
<1>1. /\ pc' = [pc EXCEPT ![t] = to] /\ code' = [code EXCEPT ![t] = ops]
      /\ UNCHANGED <<reg, carstate, drive>>
  BY DEF Do
<1>2. pc \in [Thread -> Places] /\ code \in [Thread -> Seq(Op)] /\ Thread = {"main", "fun1", "fun2"}
  BY DEF HandInv, TypeInv, ThreadsOK, Thread
<1>3. t = "main" => reg["main"] = NotLoaded
  BY <1>2 DEF At, HandInv, TypeInv, ThreadsOK, Loaded
<1>4. ModesOff'
  BY <1>1, <1>2, <1>3 DEF HandInv, ModesOff, Instr
<1>5. OnlyMainDrives'
  BY <1>1, <1>2 DEF HandInv, OnlyMainDrives
<1>6. Halting'
  <2>1. CASE t = "main"
    <3>1. CASE to = "accept"
      <4>1. code'["main"] = clearFlag \o stop
        BY <1>1, <1>2, <2>1, <3>1
      <4> QED  BY <4>1, HaltCode DEF Halting
    <3>2. CASE to # "accept"
      BY <1>1, <1>2, <2>1, <3>2 DEF Halting
    <3> QED  BY <3>1, <3>2
  <2>2. CASE t # "main"
    BY <1>1, <1>2, <2>2 DEF HandInv, Halting
  <2> QED  BY <2>1, <2>2
<1> QED  BY <1>4, <1>5, <1>6 DEF HandInv

LEMMA ExecuteKeepsHand ==
  ASSUME HandInv, TypeInv', NEW t \in Thread, Execute(t)
  PROVE  HandInv'
<1>1. /\ code \in [Thread -> Seq(Op)] /\ Thread = {"main", "fun1", "fun2"}
      /\ code[t] # <<>>
  BY DEF HandInv, TypeInv, ThreadsOK, Thread, Execute, LoadByte, StoreByte, DCMotorRun, Branch,
         Executing
<1>2. t # "fun2"
  BY <1>1 DEF HandInv, OnlyMainDrives
<1>3. UNCHANGED <<pc, done>>
  BY DEF Execute, LoadByte, StoreByte, DCMotorRun, Branch, irVars
<1>4. CASE t = "fun1"
  <2>1. Instr(t) \in Releases /\ Tail(code[t]) \in Seq(Releases)
    BY <1>1, <1>4 DEF HandInv, OnlyMainDrives, Instr
  <2>2. PICK m \in Motor : Instr(t) = Run(m, R)
    BY <2>1 DEF Releases
  <2>3. Instr(t).op = "run" /\ Instr(t).motor = m /\ Instr(t).cmd = R
    BY <2>2, ReleaseHas
  <2>4. /\ drive' = [drive EXCEPT ![m] = R] /\ code' = [code EXCEPT !["fun1"] = Tail(code["fun1"])]
        /\ UNCHANGED <<carstate, reg>>
    BY <1>4, <2>3 DEF Execute, LoadByte, StoreByte, DCMotorRun, Branch, Executing, Executed
  <2>5. /\ code'["main"] = code["main"] /\ code'["fun2"] = code["fun2"]
        /\ code'["fun1"] = Tail(code["fun1"])
    BY <1>1, <2>4
  <2>6. ModesOff'
    BY <2>4, <2>5 DEF HandInv, ModesOff, Instr
  <2>7. OnlyMainDrives'
    BY <1>3, <1>4, <2>1, <2>5 DEF HandInv, OnlyMainDrives
  <2>8. Halting'
    BY <1>3, <2>4, <2>5 DEF HandInv, Halting, TypeInv, GlobalsOK
  <2> QED  BY <2>6, <2>7, <2>8 DEF HandInv
<1>5. CASE t = "main"
  <2>1. /\ code["main"] \in Seq(CalmOp) /\ Instr(t) \in CalmOp /\ Tail(code["main"]) \in Seq(CalmOp)
        /\ Instr(t) = code["main"][1]
    BY <1>1, <1>5 DEF HandInv, OnlyMainDrives, Instr
  <2>2. CASE LoadByte(t)
    <3>1. reg' = [reg EXCEPT !["main"] = [f \in ByteOf(Instr("main").field) |-> carstate[f]]]
      BY <1>5, <2>2 DEF LoadByte
    <3>2. UNCHANGED <<carstate, code, drive>>
      BY <2>2 DEF LoadByte
    <3>3. ModesOff'
      BY <1>1, <3>1, <3>2 DEF HandInv, ModesOff, TypeInv, ThreadsOK, Instr
    <3> QED  BY <1>3, <3>2, <3>3 DEF HandInv, OnlyMainDrives, Halting
  <2>3. CASE StoreByte(t)
    <3>1. /\ reg["main"] # NotLoaded /\ reg' = [reg EXCEPT !["main"] = NotLoaded]
          /\ Instr("main").op = "set" /\ UNCHANGED drive
          /\ code' = [code EXCEPT !["main"] = Tail(code["main"])]
          /\ carstate' = [g \in Field |->
                            IF g = Instr("main").field THEN Instr("main").value
                            ELSE IF g \in ByteOf(Instr("main").field) THEN reg["main"][g]
                            ELSE carstate[g]]
      BY <1>5, <2>3 DEF StoreByte, Executing, Executed
    <3>2. Modes \subseteq Field
      BY DEF Modes, Field, HighByte
    <3>3. \A f \in Modes : carstate'[f] = FALSE
      BY <1>5, <2>1, <3>1, <3>2 DEF HandInv, ModesOff, CalmOp
    <3>4. reg'["main"] = NotLoaded
      BY <1>1, <3>1 DEF HandInv, TypeInv, ThreadsOK
    <3>5. ModesOff'
      BY <3>3, <3>4 DEF ModesOff
    <3>6. /\ code'["main"] = Tail(code["main"]) /\ code'["fun1"] = code["fun1"]
          /\ code'["fun2"] = code["fun2"]
      BY <1>1, <3>1
    <3>7. OnlyMainDrives'
      BY <1>3, <2>1, <3>6 DEF HandInv, OnlyMainDrives
    <3>8. Halting'
      <4> SUFFICES ASSUME pc["main"] = "accept"
                   PROVE  /\ code'["main"] \in Seq(HaltOp)
                          /\ \A m \in Motor : drive'[m] = R
                               \/ \E k \in 1 .. Len(code'["main"]) : code'["main"][k] = Run(m, R)
        BY <1>3 DEF Halting
      <4>1. code["main"] \in Seq(HaltOp) /\ code["main"] # <<>>
        BY <1>1, <1>5 DEF HandInv, Halting
      <4>2. ASSUME NEW m \in Motor, NEW k \in 1 .. Len(code["main"]), code["main"][k] = Run(m, R)
            PROVE  /\ k # 1 /\ k - 1 \in 1 .. Len(Tail(code["main"]))
                   /\ Tail(code["main"])[k - 1] = Run(m, R)
        <5>1. k # 1
          BY <1>5, <2>1, <3>1, <4>2, ReleaseHas
        <5> QED  BY <4>1, <4>2, <5>1
      <4>3. Tail(code["main"]) \in Seq(HaltOp)
        BY <4>1
      <4>4. ASSUME NEW m \in Motor
            PROVE  \/ drive[m] = R
                   \/ \E k \in 1 .. Len(Tail(code["main"])) : Tail(code["main"])[k] = Run(m, R)
        <5>1. CASE drive[m] = R
          BY <5>1
        <5>2. CASE drive[m] # R
          <6>1. PICK k \in 1 .. Len(code["main"]) : code["main"][k] = Run(m, R)
            BY <5>2 DEF HandInv, Halting
          <6> QED  BY <6>1, <4>2
        <5> QED  BY <5>1, <5>2
      <4>5. drive' = drive
        BY <3>1
      <4> QED  BY <3>6, <4>3, <4>4, <4>5
    <3> QED  BY <3>5, <3>7, <3>8 DEF HandInv
  <2>4. CASE DCMotorRun(t)
    <3>1. /\ Instr("main").op = "run" /\ UNCHANGED <<carstate, reg>>
          /\ code' = [code EXCEPT !["main"] = Tail(code["main"])]
          /\ drive' = [drive EXCEPT ![Instr("main").motor] = Instr("main").cmd]
      BY <1>5, <2>4 DEF DCMotorRun, Executing, Executed
    <3>2. reg["main"] = NotLoaded
      BY <1>1, <3>1 DEF HandInv, TypeInv, ThreadsOK, Loaded
    <3>3. /\ code'["main"] = Tail(code["main"]) /\ code'["fun1"] = code["fun1"]
          /\ code'["fun2"] = code["fun2"]
      BY <1>1, <3>1
    <3>4. ModesOff'
      BY <3>1, <3>2 DEF HandInv, ModesOff
    <3>5. OnlyMainDrives'
      BY <1>3, <2>1, <3>3 DEF HandInv, OnlyMainDrives
    <3>6. Halting'
      <4> SUFFICES ASSUME pc["main"] = "accept"
                   PROVE  /\ code'["main"] \in Seq(HaltOp)
                          /\ \A m \in Motor : drive'[m] = R
                               \/ \E k \in 1 .. Len(code'["main"]) : code'["main"][k] = Run(m, R)
        BY <1>3 DEF Halting
      <4>1. code["main"] \in Seq(HaltOp) /\ code["main"] # <<>>
        BY <1>1, <1>5 DEF HandInv, Halting
      <4>2. Instr("main") \in Releases
        BY <1>5, <2>1, <3>1, <4>1 DEF HaltOp
      <4>3. PICK h \in Motor : Instr("main") = Run(h, R)
        BY <4>2 DEF Releases
      <4>a. Instr("main").motor = h /\ Instr("main").cmd = R
        BY <4>3, ReleaseHas
      <4>4. drive' = [drive EXCEPT ![h] = R]
        BY <3>1, <4>a
      <4>5. drive \in [Motor -> {F, B, R}]
        BY DEF HandInv, TypeInv, GlobalsOK
      <4>6. ASSUME NEW m \in Motor, m # h
            PROVE  \/ drive'[m] = R
                   \/ \E k \in 1 .. Len(Tail(code["main"])) : Tail(code["main"])[k] = Run(m, R)
        <5>1. CASE drive[m] = R
          BY <4>4, <4>5, <4>6, <5>1
        <5>2. ASSUME NEW k \in 1 .. Len(code["main"]), code["main"][k] = Run(m, R)
              PROVE  k - 1 \in 1 .. Len(Tail(code["main"])) /\ Tail(code["main"])[k - 1] = Run(m, R)
          <6>1. k # 1
            BY <1>5, <2>1, <4>3, <4>6, <5>2, ReleaseHas
          <6> QED  BY <4>1, <5>2, <6>1
        <5> QED  BY <5>1, <5>2 DEF HandInv, Halting
      <4> QED  BY <3>3, <4>1, <4>4, <4>5, <4>6
    <3> QED  BY <3>4, <3>5, <3>6 DEF HandInv
  <2>5. CASE Branch(t)
    <3>1. Instr("main").op = "when" /\ Instr("main").name \in Name
      BY <1>5, <2>1, <2>5 DEF Branch, Executing, CalmOp, Op, LowByte, Name
    <3> DEFINE more == (IF carstate[Instr("main").field] THEN Go(Instr("main").name) ELSE <<>>)
                         \o Tail(code["main"])
    <3>2. code' = [code EXCEPT !["main"] = more] /\ UNCHANGED <<carstate, reg, drive>>
      BY <1>5, <2>5 DEF Branch
    <3>3. more \in Seq(CalmOp)
      BY <2>1, <3>1, GoIsCode, Nothing, Joined
    <3> HIDE DEF more
    <3>4. reg["main"] = NotLoaded
      BY <1>1, <3>1 DEF HandInv, TypeInv, ThreadsOK, Loaded
    <3>5. ModesOff'
      BY <3>2, <3>4 DEF HandInv, ModesOff
    <3>6. OnlyMainDrives'
      BY <1>1, <1>3, <3>2, <3>3 DEF HandInv, OnlyMainDrives
    <3>7. Halting'
      <4>1. ASSUME pc["main"] = "accept"  PROVE Instr("main") \in HaltOp
        BY <1>1, <1>5, <2>1, <4>1 DEF HandInv, Halting
      <4>2. pc["main"] # "accept"
        BY <3>1, <4>1, ReleaseHas DEF HaltOp, Releases
      <4> QED  BY <1>3, <4>2 DEF Halting
    <3> QED  BY <3>5, <3>6, <3>7 DEF HandInv
  <2> QED  BY <2>2, <2>3, <2>4, <2>5 DEF Execute
<1> QED  BY <1>1, <1>2, <1>4, <1>5

LEMMA HandNext == ByHand /\ HandInv /\ [Next]_vars => HandInv'
<1> SUFFICES ASSUME ByHand, HandInv, [Next]_vars  PROVE HandInv'
  OBVIOUS
<1>i. TypeInv /\ TypeInv'
  BY TypeNext DEF HandInv
<1>d. /\ disWarning \in BOOLEAN /\ carstate \in [Field -> BOOLEAN] /\ done = FALSE
      /\ carstate["trackenable"] = FALSE /\ carstate["autoAvoid"] = FALSE
  BY <1>i DEF TypeInv, GlobalsOK, HandInv, ModesOff, Modes, OnlyMainDrives
<1>t. "main" \in Thread /\ "fun1" \in Thread /\ "fun2" \in Thread
  BY DEF Thread
<1>f. pc["fun2"] \in {"loop", "avoidTest", "ir"} /\ code["fun2"] = <<>>
  BY DEF HandInv, OnlyMainDrives
<1>1. CASE Listen
  <2>1. At("main", "listen") /\ Do("main", clearFlag \o stop, "accept") /\ done' = FALSE
    BY <1>1, <1>d DEF Listen, irVars
  <2>2. clearFlag \o stop \in Seq(CalmOp)
    BY FlagsAreCode, StopIsCode, Joined
  <2> QED  BY <2>1, <2>2, <1>i, <1>t, DoKeepsHand
<1>2. CASE Accept
  <2>1. At("main", "accept") /\ Do("main", <<>>, "read") /\ done' = FALSE
    BY <1>2, <1>d DEF Accept, irVars
  <2> QED  BY <2>1, <1>i, <1>t, Nothing, DoKeepsHand
<1>3. CASE ReadApp
  <2>1. PICK c \in AppCommands : Do("main", updateCarState(c), "motion")
    BY <1>3 DEF ReadApp
  <2>2. At("main", "read") /\ done' = FALSE
    BY <1>3, <1>d DEF ReadApp, irVars
  <2>3. c \notin {11, 17}
    BY <2>1 DEF ByHand
  <2>4. updateCarState(c) \in Seq(CalmOp)
    BY <2>3, <1>d, CommandsAreCalm
  <2> QED  BY <2>1, <2>2, <2>4, <1>i, <1>t, DoKeepsHand
<1>4. CASE Motion
  <2>1. At("main", "motion") /\ Do("main", updateCarMotion, "read") /\ done' = FALSE
    BY <1>4, <1>d DEF Motion, irVars
  <2>2. updateCarMotion \in Seq(CalmOp)
    BY <1>d, MotionIsCode
  <2> QED  BY <2>1, <2>2, <1>i, <1>t, DoKeepsHand
<1>5. CASE ReadScratch
  <2>1. PICK c \in ScratchCommands : Do("main", PhaseScratchCmd(c), "read")
    BY <1>5 DEF ReadScratch
  <2>2. At("main", "read") /\ done' = FALSE
    BY <1>5, <1>d DEF ReadScratch, irVars
  <2>3. c \notin {11, 17}
    BY <2>1 DEF ByHand
  <2>4. PhaseScratchCmd(c) \in Seq(CalmOp)
    BY <2>3, <1>d, CommandsAreCalm
  <2> QED  BY <2>1, <2>2, <2>4, <1>i, <1>t, DoKeepsHand
<1>6. CASE Hangup
  <2>1. At("main", "read") /\ Do("main", stop \o clearFlag, "listen") /\ done' = FALSE
    BY <1>6, <1>d DEF Hangup, irVars
  <2>2. stop \o clearFlag \in Seq(CalmOp)
    BY FlagsAreCode, StopIsCode, Joined
  <2> QED  BY <2>1, <2>2, <1>i, <1>t, DoKeepsHand
<1>7. CASE Measure
  <2> DEFINE to == IF near THEN "warned" ELSE "measure"
  <2>1. At("fun1", "measure") /\ Do("fun1", <<>>, to) /\ done' = FALSE
    BY <1>7, <1>d DEF Measure, irVars
  <2>2. <<>> \in Seq(Releases)
    OBVIOUS
  <2> HIDE DEF to
  <2> QED  BY <2>1, <2>2, <1>i, <1>t, DoKeepsHand
<1>8. CASE Warned
  <2> DEFINE ops == IF carstate["forward"] /\ ~carstate["autoAvoid"] THEN stop ELSE <<>>
  <2>1. At("fun1", "warned") /\ Do("fun1", ops, "measure") /\ done' = FALSE
    BY <1>8, <1>d DEF Warned, irVars
  <2>2. <<>> \in Seq(Releases)
    OBVIOUS
  <2>3. ops \in Seq(Releases)
    BY <2>2, StopIsCode
  <2> HIDE DEF ops
  <2> QED  BY <2>1, <2>3, <1>i, <1>t, DoKeepsHand
<1>9. CASE TrackTest("loop")
  <2>1. At("fun2", "loop") /\ Do("fun2", <<>>, "avoidTest") /\ done' = FALSE
    BY <1>9, <1>d DEF TrackTest, irVars
  <2> QED  BY <2>1, <1>i, <1>t, DoKeepsHand
<1>10. CASE AvoidTest
  <2>1. At("fun2", "avoidTest") /\ Do("fun2", <<>>, "ir") /\ done' = FALSE
    BY <1>10, <1>d DEF AvoidTest, irVars
  <2> QED  BY <2>1, <1>i, <1>t, DoKeepsHand
<1>11. CASE IrPoll
  <2>1. At("fun2", "ir") /\ Do("fun2", <<>>, "loop") /\ done' = FALSE
    BY <1>11, <1>d DEF IrPoll
  <2> QED  BY <2>1, <1>i, <1>t, DoKeepsHand
<1>12. CASE Obstacle \/ Tick \/ getIR \/ Exit
  <2>1. UNCHANGED <<carstate, drive, threadVars>> /\ done' = FALSE
    BY <1>12, <1>d DEF Obstacle, Tick, getIR, Exit, Surroundings, irVars, ByHand
  <2> QED  BY <1>i, <2>1 DEF HandInv, ModesOff, OnlyMainDrives, Halting, Instr, threadVars
<1>13. CASE UNCHANGED vars
  BY <1>13, <1>i DEF vars, HandInv, ModesOff, OnlyMainDrives, Halting, Instr, irVars, threadVars
<1>14. ASSUME NEW t \in Thread, Execute(t)  PROVE HandInv'
  BY <1>14, <1>i, ExecuteKeepsHand
<1>15. ~TrackTest("track") /\ ~Sense /\ ~FollowLine("lineLeft", "forward_left")
       /\ ~FollowLine("lineRight", "forward_right") /\ ~AvoidExit /\ ~AvoidForward
       /\ ~AvoidTurn /\ ~IrMotion
  BY <1>f DEF TrackTest, Sense, FollowLine, AvoidExit, AvoidForward, AvoidTurn, IrMotion, At
<1> QED  BY <1>1, <1>2, <1>3, <1>4, <1>5, <1>6, <1>7, <1>8, <1>9, <1>10, <1>11, <1>12, <1>13,
            <1>14, <1>15, <1>t
         DEF Next, mainSteps, clientSteps, fun1Steps, fun2Steps

(* A car driven by hand stands still while it waits for a client, whatever  *)
(* else its three threads are doing at the time.                           *)
THEOREM WaitingCarStands == ASSUME ByHand  PROVE Spec => []WaitingMeansStopped
<1>1. HandInv => WaitingMeansStopped
  BY DEF HandInv, Halting, WaitingMeansStopped, At, Stopped
<1>2. HandInv /\ [Next]_vars => HandInv'
  BY HandNext
<1> QED  BY <1>1, <1>2, HandInit, PTL DEF Spec
===============================================================================
