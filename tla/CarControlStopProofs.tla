------------------------- MODULE CarControlStopProofs --------------------------
EXTENDS CarControlProofs

(***************************************************************************)
(* The instructions of a piece of code.                                    *)
(***************************************************************************)
Ops(s) == {s[k] : k \in 1 .. Len(s)}

LEMMA OpsOfNothing == Ops(<<>>) = {}
BY DEF Ops

LEMMA OpsOfOne == \A o : Ops(<<o>>) = {o}
BY DEF Ops

LEMMA OpsOfTail ==
  ASSUME NEW s \in Seq(Op), s # <<>>
  PROVE  Head(s) \in Op /\ Tail(s) \in Seq(Op) /\ Ops(s) = {Head(s)} \cup Ops(Tail(s))
<1>1. Len(s) \in Nat /\ Len(s) >= 1 /\ Head(s) = s[1] /\ Head(s) \in Op
  OBVIOUS
<1>2. /\ Tail(s) \in Seq(Op) /\ Len(Tail(s)) = Len(s) - 1
      /\ \A k \in 1 .. Len(Tail(s)) : Tail(s)[k] = s[k + 1]
  OBVIOUS
<1>3. ASSUME NEW k \in 1 .. Len(s)
      PROVE  s[k] \in {Head(s)} \cup Ops(Tail(s))
  <2>1. CASE k = 1
    BY <1>1, <2>1
  <2>2. CASE k # 1
    <3>1. k - 1 \in 1 .. Len(Tail(s)) /\ (k - 1) + 1 = k
      BY <1>1, <1>2, <2>2
    <3> QED
      BY <1>2, <3>1 DEF Ops
  <2> QED
    BY <2>1, <2>2
<1>4. ASSUME NEW k \in 1 .. Len(Tail(s))
      PROVE  Tail(s)[k] \in Ops(s)
  <2>1. k + 1 \in 1 .. Len(s)
    BY <1>1, <1>2
  <2> QED
    BY <1>2, <2>1 DEF Ops
<1>5. 1 \in 1 .. Len(s)
  BY <1>1
<1>6. Head(s) \in Ops(s)
  BY <1>1, <1>5 DEF Ops
<1> QED
  BY <1>1, <1>2, <1>3, <1>4, <1>6 DEF Ops

LEMMA OpsOfBoth ==
  ASSUME NEW s \in Seq(Op), NEW u \in Seq(Op)
  PROVE  Ops(s \o u) = Ops(s) \cup Ops(u)
<1>1. Len(s) \in Nat /\ Len(u) \in Nat /\ Len(s \o u) = Len(s) + Len(u)
  OBVIOUS
<1>2. \A k \in 1 .. Len(s) : (s \o u)[k] = s[k]
  OBVIOUS
<1>3. \A k \in 1 .. Len(u) : (s \o u)[Len(s) + k] = u[k]
  OBVIOUS
<1>4. ASSUME NEW k \in 1 .. Len(s \o u)
      PROVE  (s \o u)[k] \in Ops(s) \cup Ops(u)
  <2>1. CASE k \in 1 .. Len(s)
    BY <1>2, <2>1 DEF Ops
  <2>2. CASE k > Len(s)
    <3>1. k - Len(s) \in 1 .. Len(u) /\ Len(s) + (k - Len(s)) = k
      BY <1>1, <2>2
    <3> QED
      BY <1>3, <3>1 DEF Ops
  <2> QED
    BY <1>1, <2>1, <2>2
<1>5. ASSUME NEW k \in 1 .. Len(s)  PROVE s[k] \in Ops(s \o u)
  <2>1. k \in 1 .. Len(s \o u)
    BY <1>1
  <2> QED
    BY <1>2, <2>1 DEF Ops
<1>6. ASSUME NEW k \in 1 .. Len(u)  PROVE u[k] \in Ops(s \o u)
  <2>1. Len(s) + k \in 1 .. Len(s \o u)
    BY <1>1
  <2> QED
    BY <1>3, <2>1 DEF Ops
<1> QED
  BY <1>4, <1>5, <1>6 DEF Ops

LEMMA OpsOfSetAll ==
  ASSUME NEW fs \in Seq(Field), NEW v \in BOOLEAN
  PROVE  /\ SetAll(fs, v) \in Seq(Op)
         /\ Ops(SetAll(fs, v)) = {Set(fs[k], v) : k \in 1 .. Len(fs)}
<1>1. /\ DOMAIN fs = 1 .. Len(fs) /\ Len(fs) \in Nat
      /\ \A k \in 1 .. Len(fs) : fs[k] \in Field
  OBVIOUS
<1>2. SetAll(fs, v) = [k \in 1 .. Len(fs) |-> Set(fs[k], v)]
  BY <1>1 DEF SetAll
<1>3. \A k \in 1 .. Len(fs) : Set(fs[k], v) \in Op
  BY <1>1, SetIsOp
<1>4. SetAll(fs, v) \in Seq(Op) /\ Len(SetAll(fs, v)) = Len(fs)
  BY <1>1, <1>2, <1>3, SeqDef
<1> QED
  BY <1>2, <1>4 DEF Ops

(* The same when the fields are known as a set.                             *)
LEMMA OpsOfFields ==
  ASSUME NEW fs \in Seq(Field), NEW v \in BOOLEAN, NEW S, {fs[k] : k \in 1 .. Len(fs)} = S
  PROVE  SetAll(fs, v) \in Seq(Op) /\ Ops(SetAll(fs, v)) = {Set(f, v) : f \in S}
BY OpsOfSetAll

Drivings == {Run(m, c) : m \in Motor, c \in {F, B, R}}

LEMMA OpsOfDrives ==
  ASSUME NEW order \in [1 .. 4 -> Motor], NEW cmds \in [1 .. 4 -> {F, B, R}]
  PROVE  Ops(Drives(order, cmds)) = {Run(order[k], cmds[k]) : k \in 1 .. 4}
<1>1. Len(Drives(order, cmds)) = 4
  BY DEF Drives
<1> QED
  BY <1>1 DEF Ops, Drives

LEMMA OpsOfStop == stop \in Seq(Op) /\ Ops(stop) = Releases
<1>1. stop \in Seq(Op)
  BY StopIsCode, CalmCode
<1>2. Len(stop) = 4 /\ \A k \in 1 .. 4 : stop[k] = Run(k, R)
  BY DEF stop, Drives
<1> QED
  BY <1>1, <1>2 DEF Ops, Releases, Motor

LEMMA OpsOfGo ==
  ASSUME NEW name \in Name
  PROVE  Go(name) \in Seq(Op) /\ Ops(Go(name)) \subseteq Drivings
<1>1. <<1, 2, 3, 4>> \in [1 .. 4 -> Motor] /\ <<2, 1, 3, 4>> \in [1 .. 4 -> Motor]
  BY DEF Motor
<1>2. /\ <<F, F, F, F>> \in [1 .. 4 -> {F, B, R}] /\ <<F, B, B, F>> \in [1 .. 4 -> {F, B, R}]
      /\ <<B, F, F, B>> \in [1 .. 4 -> {F, B, R}] /\ <<F, R, R, F>> \in [1 .. 4 -> {F, B, R}]
      /\ <<R, F, F, R>> \in [1 .. 4 -> {F, B, R}] /\ <<B, B, B, B>> \in [1 .. 4 -> {F, B, R}]
      /\ <<B, R, R, B>> \in [1 .. 4 -> {F, B, R}] /\ <<R, B, B, R>> \in [1 .. 4 -> {F, B, R}]
  OBVIOUS
<1>3. PICK order \in [1 .. 4 -> Motor], cmds \in [1 .. 4 -> {F, B, R}] :
        Go(name) = Drives(order, cmds)
  BY <1>1, <1>2 DEF Go, Manoeuvre, Name
<1>4. Ops(Go(name)) = {Run(order[k], cmds[k]) : k \in 1 .. 4}
  BY <1>3, OpsOfDrives
<1> QED
  BY <1>4, GoIsCode, CalmCode DEF Drivings

(***************************************************************************)
(* The inductive invariant.                                                *)
(***************************************************************************)
NoTracking == 11 \notin AppCommands \cup ScratchCommands /\ IrCodes = {}

PlainOp == {o \in Op : /\ o.op # "when"
                       /\ (o.op = "set" /\ o.field = "trackenable") => o.value = FALSE}

(* What each thread may still be about to do. fun2 drives in avoidance only, *)
(* and all it does when it leaves is to stop.                              *)
Roles ==
  /\ Ops(code["main"]) \subseteq PlainOp
  /\ Ops(code["fun1"]) \subseteq Releases
  /\ Ops(code["fun2"]) \subseteq Drivings
  /\ pc["fun2"] # "avoid" => Ops(code["fun2"]) \subseteq Releases
  /\ pc["fun2"] \in {"loop", "avoidTest", "avoid", "ir"} /\ done = FALSE
  /\ carstate["trackenable"] = FALSE

(* Only main writes carstate, so the byte it has loaded is what is there.   *)
Current ==
  reg["main"] # NotLoaded =>
    \A g \in ByteOf(Instr("main").field) : reg["main"][g] = carstate[g]

(* Field f has value v once main is through, and nothing in between undoes it. *)
Becomes(f, v) ==
  /\ \A o \in Ops(code["main"]) : o.op = "set" /\ o.field = f => o.value = v
  /\ carstate[f] = v \/ Set(f, v) \in Ops(code["main"])

Ending(m) == \/ drive[m] = R \/ pc["fun2"] = "avoid"
             \/ Run(m, R) \in Ops(code["main"]) \cup Ops(code["fun2"])

Resting == /\ Becomes("autoAvoid", FALSE)
           /\ \A o \in Ops(code["main"]) : o.op = "run" => o.cmd = R
           /\ \A m \in Motor : Ending(m)

Preparing == /\ \A f \in LowByte \cup {"autoAvoid"} : Becomes(f, FALSE)
             /\ Becomes("stop", TRUE)

Silent == \/ lastCmd.via = "none"
          \/ lastCmd.via \in {"app", "scratch"} /\ lastCmd.byte = 5

(* A stop of the app first settles the bits, from which main's second part  *)
(* then chooses to release the motors.                                     *)
Obeyed ==
  /\ (pc["main"] \in {"accept", "read"} /\ Silent) => Resting
  /\ pc["main"] = "motion" => lastCmd.via = "app" /\ (lastCmd.byte = 5 => Preparing)

StopInv == TypeInv /\ Roles /\ Current /\ Obeyed

(***************************************************************************)
(* The steps main takes to execute an instruction.                         *)
(***************************************************************************)
MainLoads(o) ==
  /\ o.op = "set" /\ UNCHANGED <<code, carstate, drive>>
  /\ reg'["main"] = [f \in ByteOf(o.field) |-> carstate[f]]

MainStores(o) ==
  /\ o.op = "set" /\ o.field \in Field /\ o.value \in BOOLEAN /\ o = Set(o.field, o.value)
  /\ carstate' = [carstate EXCEPT ![o.field] = o.value] /\ UNCHANGED drive
  /\ reg'["main"] = NotLoaded
  /\ Ops(code["main"]) = {o} \cup Ops(code'["main"])

MainRuns(o) ==
  /\ o.op = "run" /\ o.motor \in Motor /\ o = Run(o.motor, o.cmd)
  /\ drive' = [drive EXCEPT ![o.motor] = o.cmd] /\ UNCHANGED carstate
  /\ reg'["main"] = NotLoaded
  /\ Ops(code["main"]) = {o} \cup Ops(code'["main"])

LEMMA OpShape ==
  ASSUME NEW o \in Op
  PROVE  /\ o.op \in {"set", "run", "when"}
         /\ o.op = "set" => o.field \in Field /\ o.value \in BOOLEAN /\ o = Set(o.field, o.value)
         /\ o.op = "run" => /\ o.motor \in Motor /\ o.cmd \in {F, B, R}
                            /\ o = Run(o.motor, o.cmd)
BY DEF Op, Set, Run

LEMMA MainStep ==
  ASSUME StopInv, Execute("main")
  PROVE  LET o == Head(code["main"])
         IN /\ UNCHANGED <<pc, done, lastCmd>>
            /\ code'["fun1"] = code["fun1"] /\ code'["fun2"] = code["fun2"]
            /\ o \in Ops(code["main"])
            /\ MainLoads(o) \/ MainStores(o) \/ MainRuns(o)
<1> DEFINE o == Head(code["main"])
<1>1. code \in [Thread -> Seq(Op)] /\ Thread = {"main", "fun1", "fun2"} /\ code["main"] # <<>>
  BY DEF StopInv, TypeInv, ThreadsOK, Thread, Execute, LoadByte, StoreByte, DCMotorRun, Branch,
         Executing
<1>2. /\ o \in Op /\ Instr("main") = o /\ Tail(code["main"]) \in Seq(Op)
      /\ Ops(code["main"]) = {o} \cup Ops(Tail(code["main"]))
  BY <1>1, OpsOfTail DEF Instr
<1>3. o.op # "when"
  BY <1>2 DEF StopInv, Roles, PlainOp
<1>4. UNCHANGED <<pc, done, lastCmd>>
  BY DEF Execute, LoadByte, StoreByte, DCMotorRun, Branch, irVars, clientVars
<1>t. DOMAIN reg = Thread /\ reg = [t \in Thread |-> reg[t]]
  BY DEF StopInv, TypeInv, ThreadsOK
<1> HIDE DEF o
<1>5. CASE LoadByte("main")
  <2>1. /\ o.op = "set" /\ UNCHANGED <<code, carstate, drive>>
        /\ reg' = [reg EXCEPT !["main"] = [f \in ByteOf(o.field) |-> carstate[f]]]
    BY <1>2, <1>5 DEF LoadByte, Executing
  <2>2. MainLoads(o)
    BY <1>1, <1>t, <2>1 DEF MainLoads
  <2> QED
    BY <1>2, <1>4, <2>1, <2>2 DEF o
<1>6. CASE StoreByte("main")
  <2>1. /\ o.op = "set" /\ reg["main"] # NotLoaded /\ UNCHANGED drive
        /\ carstate' = [g \in Field |-> IF g = o.field THEN o.value
                                        ELSE IF g \in ByteOf(o.field) THEN reg["main"][g]
                                        ELSE carstate[g]]
        /\ reg' = [reg EXCEPT !["main"] = NotLoaded]
        /\ code' = [code EXCEPT !["main"] = Tail(code["main"])]
    BY <1>2, <1>6 DEF StoreByte, Executing, Executed
  <2>2. \A g \in ByteOf(o.field) : reg["main"][g] = carstate[g]
    BY <1>2, <2>1 DEF StopInv, Current
  <2>3. carstate \in [Field -> BOOLEAN]
    BY DEF StopInv, TypeInv, GlobalsOK
  <2>4. o.field \in Field /\ o.value \in BOOLEAN /\ o = Set(o.field, o.value)
    BY <1>2, <2>1, OpShape
  <2>5. carstate' = [carstate EXCEPT ![o.field] = o.value]
    BY <2>1, <2>2, <2>3, <2>4
  <2>6. /\ code'["main"] = Tail(code["main"]) /\ reg'["main"] = NotLoaded
        /\ code'["fun1"] = code["fun1"] /\ code'["fun2"] = code["fun2"]
    BY <1>1, <1>t, <2>1
  <2>7. MainStores(o)
    BY <1>2, <2>1, <2>4, <2>5, <2>6 DEF MainStores
  <2> QED
    BY <1>2, <1>4, <2>6, <2>7 DEF o
<1>7. CASE DCMotorRun("main")
  <2>1. /\ o.op = "run" /\ UNCHANGED <<carstate, reg>>
        /\ drive' = [drive EXCEPT ![o.motor] = o.cmd]
        /\ code' = [code EXCEPT !["main"] = Tail(code["main"])]
    BY <1>2, <1>7 DEF DCMotorRun, Executing, Executed
  <2>2. o.motor \in Motor /\ o = Run(o.motor, o.cmd)
    BY <1>2, <2>1, OpShape
  <2>3. reg["main"] = NotLoaded
    BY <1>1, <1>2, <2>1 DEF StopInv, TypeInv, ThreadsOK, Loaded
  <2>4. /\ code'["main"] = Tail(code["main"])
        /\ code'["fun1"] = code["fun1"] /\ code'["fun2"] = code["fun2"]
    BY <1>1, <2>1
  <2>5. MainRuns(o)
    BY <1>2, <2>1, <2>2, <2>3, <2>4 DEF MainRuns
  <2> QED
    BY <1>2, <1>4, <2>4, <2>5 DEF o
<1>8. ~Branch("main")
  BY <1>2, <1>3 DEF Branch, Executing
<1> QED
  BY <1>5, <1>6, <1>7, <1>8 DEF Execute, o

(* What a field is to become it still becomes.                              *)
LEMMA BecomesStays ==
  ASSUME StopInv, NEW o \in Ops(code["main"]), MainLoads(o) \/ MainStores(o) \/ MainRuns(o),
         NEW f \in Field, NEW v \in BOOLEAN, Becomes(f, v)
  PROVE  Becomes(f, v)'
<1>0. carstate \in [Field -> BOOLEAN]
  BY DEF StopInv, TypeInv, GlobalsOK
<1>1. CASE MainLoads(o)
  BY <1>1 DEF MainLoads, Becomes
<1>2. CASE MainStores(o)
  <2>1. \A p \in Ops(code'["main"]) : p.op = "set" /\ p.field = f => p.value = v
    BY <1>2 DEF MainStores, Becomes
  <2>2. CASE o.field = f
    <3>1. carstate'[f] = v
      BY <1>0, <1>2, <2>2 DEF MainStores, Becomes
    <3> QED
      BY <2>1, <3>1 DEF Becomes
  <2>3. CASE o.field # f
    <3>1. carstate'[f] = carstate[f] /\ o # Set(f, v)
      BY <1>0, <1>2, <2>3 DEF MainStores, Set
    <3> QED
      BY <1>2, <2>1, <3>1 DEF MainStores, Becomes
  <2> QED
    BY <2>2, <2>3
<1>3. CASE MainRuns(o)
  <2>1. o # Set(f, v)
    BY <1>3 DEF MainRuns, Set
  <2> QED
    BY <1>3, <2>1 DEF MainRuns, Becomes
<1> QED
  BY <1>1, <1>2, <1>3

LEMMA RestingStays ==
  ASSUME StopInv, NEW o \in Ops(code["main"]), MainLoads(o) \/ MainStores(o) \/ MainRuns(o),
         code'["fun2"] = code["fun2"], pc' = pc, Resting
  PROVE  Resting'
<1>1. Becomes("autoAvoid", FALSE)'
  BY BecomesStays DEF Resting, Field, HighByte
<1>2. \A p \in Ops(code'["main"]) : p.op = "run" => p.cmd = R
  BY DEF MainLoads, MainStores, MainRuns, Resting
<1>3. ASSUME NEW m \in Motor  PROVE Ending(m)'
  <2>0. Ending(m) /\ drive \in [Motor -> {F, B, R}]
    BY DEF Resting, StopInv, TypeInv, GlobalsOK
  <2>1. CASE MainLoads(o)
    BY <2>0, <2>1 DEF MainLoads, Ending
  <2>2. CASE MainStores(o)
    <3>1. o # Run(m, R)
      BY <2>2 DEF MainStores, Run
    <3> QED
      BY <2>0, <2>2, <3>1 DEF MainStores, Ending
  <2>3. CASE MainRuns(o)
    <3>1. o.cmd = R
      BY <2>3 DEF MainRuns, Resting
    <3>2. CASE o.motor = m
      <4>1. drive'[m] = R
        BY <2>0, <2>3, <3>1, <3>2 DEF MainRuns
      <4> QED
        BY <4>1 DEF Ending
    <3>3. CASE o.motor # m
      <4>1. drive'[m] = drive[m] /\ o # Run(m, R)
        BY <2>0, <2>3, <3>3 DEF MainRuns, Run
      <4> QED
        BY <2>0, <2>3, <4>1 DEF MainRuns, Ending
    <3> QED
      BY <3>2, <3>3
  <2> QED
    BY <2>1, <2>2, <2>3
<1> QED
  BY <1>1, <1>2, <1>3 DEF Resting

(***************************************************************************)
(* What main is given to execute: no branch, and nothing starts tracking.   *)
(***************************************************************************)
Plain(s) == s \in Seq(Op) /\ Ops(s) \subseteq PlainOp

LEMMA PlainBoth ==
  ASSUME NEW s, NEW u, Plain(s), Plain(u)
  PROVE  Plain(s \o u) /\ Ops(s \o u) = Ops(s) \cup Ops(u)
<1>1. s \o u \in Seq(Op)
  BY Joined DEF Plain
<1> QED
  BY <1>1, OpsOfBoth DEF Plain

LEMMA PlainSet ==
  /\ \A f \in Field \ {"trackenable"}, v \in BOOLEAN :
       Set(f, v) \in PlainOp /\ Plain(<<Set(f, v)>>) /\ Ops(<<Set(f, v)>>) = {Set(f, v)}
  /\ Set("trackenable", FALSE) \in PlainOp /\ Plain(<<Set("trackenable", FALSE)>>)
<1>1. \A f \in Field \ {"trackenable"}, v \in BOOLEAN : Set(f, v) \in PlainOp
  BY SetIsOp DEF PlainOp, Set
<1>2. Set("trackenable", FALSE) \in PlainOp
  BY SetIsOp DEF PlainOp, Set, Field, HighByte
<1>3. \A o \in PlainOp : Plain(<<o>>) /\ Ops(<<o>>) = {o}
  BY OpsOfOne, One DEF Plain, PlainOp
<1> QED
  BY <1>1, <1>2, <1>3

LEMMA PlainDrives ==
  /\ Plain(<<>>) /\ Ops(<<>>) = {}
  /\ Plain(stop) /\ Ops(stop) = Releases /\ Releases \subseteq Drivings
  /\ \A name \in Name : Plain(Go(name)) /\ Ops(Go(name)) \subseteq Drivings
<1>1. Drivings \subseteq PlainOp
  BY RunIsOp, CalmIsOp, ReleaseHas DEF Drivings, PlainOp
<1>2. Releases \subseteq Drivings
  BY DEF Releases, Drivings
<1> QED
  BY <1>1, <1>2, OpsOfNothing, Nothing, OpsOfStop, OpsOfGo DEF Plain

Cleared == {"left", "forward", "right", "stop", "back", "autoAvoid"}
Leaves == {Set(f, FALSE) : f \in Modes}
Clears == {Set(f, FALSE) : f \in Cleared}
Stops == {Set(f, FALSE) : f \in LowByte} \cup Leaves \cup {Set("stop", TRUE)}

LEMMA PlainFlags ==
  /\ Plain(LeaveModes) /\ Ops(LeaveModes) = Leaves
  /\ Plain(clearFlag) /\ Ops(clearFlag) = Clears
  /\ Plain(stopCase) /\ Ops(stopCase) = Stops
<1>1. \A f \in Field : Set(f, FALSE) \in PlainOp
  BY PlainSet
<1>2. Plain(LeaveModes) /\ Ops(LeaveModes) = Leaves
  <2> DEFINE fs == <<"trackenable", "autoAvoid">>
  <2>1. fs \in Seq(Field) /\ Len(fs) = 2
    BY DEF Field, HighByte
  <2>2. {fs[k] : k \in 1 .. 2} = Modes
    BY DEF Modes
  <2>3. LeaveModes = SetAll(fs, FALSE)
    BY DEF LeaveModes
  <2> HIDE DEF fs
  <2>4. LeaveModes \in Seq(Op) /\ Ops(LeaveModes) = Leaves
    BY <2>1, <2>2, <2>3, OpsOfFields DEF Leaves
  <2>5. Leaves \subseteq PlainOp
    BY <1>1 DEF Leaves, Modes, Field, HighByte
  <2> QED
    BY <2>4, <2>5 DEF Plain
<1>3. Plain(clearFlag) /\ Ops(clearFlag) = Clears
  <2> DEFINE fs == <<"left", "forward", "right", "stop", "back", "autoAvoid">>
  <2>1. fs \in Seq(Field) /\ Len(fs) = 6
    BY DEF Field, LowByte, HighByte
  <2>2. {fs[k] : k \in 1 .. 6} = Cleared
    BY DEF Cleared
  <2>3. clearFlag = SetAll(fs, FALSE)
    BY DEF clearFlag
  <2> HIDE DEF fs
  <2>4. clearFlag \in Seq(Op) /\ Ops(clearFlag) = Clears
    BY <2>1, <2>2, <2>3, OpsOfFields DEF Clears
  <2>5. Clears \subseteq PlainOp
    BY <1>1 DEF Clears, Cleared, Field, LowByte, HighByte
  <2> QED
    BY <2>4, <2>5 DEF Plain
<1>4. Plain(DirectionsOff) /\ Ops(DirectionsOff) = {Set(f, FALSE) : f \in LowByte}
  <2> DEFINE fs == <<"forward", "back", "left", "right">>
  <2>1. fs \in Seq(Field) /\ Len(fs) = 4
    BY DEF Field, LowByte
  <2>2. {fs[k] : k \in 1 .. 4} = LowByte
    BY DEF LowByte
  <2>3. DirectionsOff = SetAll(fs, FALSE)
    BY DEF DirectionsOff
  <2> HIDE DEF fs
  <2>4. DirectionsOff \in Seq(Op) /\ Ops(DirectionsOff) = {Set(f, FALSE) : f \in LowByte}
    BY <2>1, <2>2, <2>3, OpsOfFields
  <2> QED
    BY <1>1, <2>4 DEF Plain, Field
<1>5. Plain(stopCase) /\ Ops(stopCase) = Stops
  <2>1. /\ Plain(DirectionsOff \o LeaveModes)
        /\ Ops(DirectionsOff \o LeaveModes) = {Set(f, FALSE) : f \in LowByte} \cup Leaves
    BY <1>2, <1>4, PlainBoth
  <2>2. Plain(<<Set("stop", TRUE)>>) /\ Ops(<<Set("stop", TRUE)>>) = {Set("stop", TRUE)}
    BY PlainSet DEF Field, HighByte
  <2>3. stopCase = (DirectionsOff \o LeaveModes) \o <<Set("stop", TRUE)>>
    BY DEF stopCase
  <2> QED
    BY <2>1, <2>2, <2>3, PlainBoth DEF Stops
<1> QED
  BY <1>2, <1>3, <1>5

LEMMA PlainCommands ==
  ASSUME disWarning \in BOOLEAN, NEW c, c # 11
  PROVE  Plain(updateCarState(c)) /\ Plain(PhaseScratchCmd(c))
<1>1. \A f \in {"left", "right", "forward", "back", "autoAvoid"}, v \in BOOLEAN :
        Plain(<<Set(f, v)>>) /\ Plain(<<Set(f, v)>> \o LeaveModes)
  BY PlainSet, PlainFlags, PlainBoth DEF Field, LowByte, HighByte
<1>2. Plain(<<Set("trackenable", FALSE)>>)
  BY PlainSet
<1>3. Plain(updateCarState(c))
  BY <1>1, <1>2, PlainDrives, PlainFlags DEF updateCarState
<1>4. \A name \in {"forward", "back", "left", "right"} :
        Plain(Go(name)) /\ Plain(Go(name) \o LeaveModes)
  BY PlainDrives, PlainFlags, PlainBoth DEF Name
<1>5. Plain((IF disWarning THEN stop ELSE Go("back")) \o LeaveModes)
  BY <1>4, PlainDrives, PlainFlags, PlainBoth
<1>6. Plain(scratchStop)
  BY PlainDrives, PlainFlags, PlainBoth DEF scratchStop
<1>7. Plain(PhaseScratchCmd(c))
  BY <1>1, <1>2, <1>4, <1>5, <1>6, PlainDrives DEF PhaseScratchCmd
<1> QED
  BY <1>3, <1>7

LEMMA PlainMotion ==
  ASSUME carstate \in [Field -> BOOLEAN]
  PROVE  /\ Plain(updateCarMotion)
         /\ (\A f \in LowByte : carstate[f] = FALSE) /\ carstate["stop"] = TRUE =>
              Ops(updateCarMotion) = {Set("stop", FALSE)} \cup Releases
<1>1. /\ {carstate["left"], carstate["right"]} \subseteq BOOLEAN
      /\ {carstate["forward"], carstate["back"]} \subseteq BOOLEAN
  BY DEF Field, LowByte
<1>2. /\ Plain(<<Set("stop", FALSE)>> \o stop)
      /\ Ops(<<Set("stop", FALSE)>> \o stop) = {Set("stop", FALSE)} \cup Releases
  <2>1. Plain(<<Set("stop", FALSE)>>) /\ Ops(<<Set("stop", FALSE)>>) = {Set("stop", FALSE)}
    BY PlainSet DEF Field, HighByte
  <2> QED
    BY <2>1, PlainDrives, PlainBoth
<1> DEFINE side == CASE carstate["left"] = carstate["right"]      -> "straight"
                     [] carstate["left"] /\ ~carstate["right"]    -> "left"
                     [] carstate["right"] /\ ~carstate["left"]    -> "right"
<1>3. side \in {"straight", "left", "right"}
  BY <1>1
<1>4. \A s \in {"straight", "left", "right"} :
        /\ [straight |-> "forward", left |-> "forward_left", right |-> "forward_right"][s] \in Name
        /\ [straight |-> "back", left |-> "back_left", right |-> "back_right"][s] \in Name
        /\ s # "straight" => s \in Name
  BY DEF Name
<1>s. carstate["left"] = FALSE /\ carstate["right"] = FALSE => side = "straight"
  OBVIOUS
<1> HIDE DEF side
<1>5. CASE carstate["forward"] /\ ~carstate["back"]
  <2>1. updateCarMotion =
          Go([straight |-> "forward", left |-> "forward_left", right |-> "forward_right"][side])
    BY <1>1, <1>5 DEF updateCarMotion, side
  <2> QED
    BY <2>1, <1>3, <1>4, <1>5, PlainDrives DEF LowByte
<1>6. CASE carstate["back"] /\ ~carstate["forward"]
  <2>1. updateCarMotion =
          Go([straight |-> "back", left |-> "back_left", right |-> "back_right"][side])
    BY <1>1, <1>6 DEF updateCarMotion, side
  <2> QED
    BY <2>1, <1>3, <1>4, <1>6, PlainDrives DEF LowByte
<1>7. CASE carstate["forward"] = carstate["back"] /\ side # "straight"
  <2>1. updateCarMotion = Go(side)
    BY <1>1, <1>7 DEF updateCarMotion, side
  <2> QED
    BY <2>1, <1>3, <1>4, <1>7, <1>s, PlainDrives DEF LowByte
<1>8. CASE carstate["forward"] = carstate["back"] /\ side = "straight"
  <2>1. updateCarMotion = IF carstate["stop"] THEN <<Set("stop", FALSE)>> \o stop ELSE <<>>
    BY <1>1, <1>8 DEF updateCarMotion, side
  <2> QED
    BY <2>1, <1>2, PlainDrives
<1> QED
  BY <1>1, <1>5, <1>6, <1>7, <1>8

(***************************************************************************)
(* The invariant holds at first.                                           *)
(***************************************************************************)
LEMMA StopInit == Init => StopInv
<1> SUFFICES ASSUME Init  PROVE StopInv
  OBVIOUS
<1>1. \A t \in {"main", "fun1", "fun2"} : code[t] = <<>> /\ reg[t] = NotLoaded
  BY DEF Init, Thread
<1>2. /\ pc["fun2"] = "loop" /\ pc["main"] = "listen" /\ done = FALSE
      /\ carstate["trackenable"] = FALSE
  BY DEF Init, Field, HighByte
<1>3. Roles
  BY <1>1, <1>2, OpsOfNothing DEF Roles
<1>4. Current
  BY <1>1 DEF Current
<1>5. Obeyed
  BY <1>2 DEF Obeyed
<1> QED
  BY <1>3, <1>4, <1>5, TypeInit DEF StopInv

(***************************************************************************)
(* A thread that has nothing left to execute goes on with more code.       *)
(***************************************************************************)
LEMMA MainGoesOn ==
  ASSUME StopInv, NEW from, At("main", from), NEW ops, Plain(ops), NEW to,
         Do("main", ops, to), done' = FALSE
  PROVE  /\ Roles' /\ Current'
         /\ code["main"] = <<>> /\ pc["main"] = from /\ code'["main"] = ops /\ pc'["main"] = to
         /\ code'["fun2"] = code["fun2"] /\ pc'["fun2"] = pc["fun2"]
         /\ carstate' = carstate /\ drive' = drive
<1>1. pc \in [Thread -> Places] /\ code \in [Thread -> Seq(Op)] /\ Thread = {"main", "fun1", "fun2"}
  BY DEF StopInv, TypeInv, ThreadsOK, Thread
<1>2. /\ code'["main"] = ops /\ pc'["main"] = to
      /\ code'["fun1"] = code["fun1"]
      /\ code'["fun2"] = code["fun2"] /\ pc'["fun2"] = pc["fun2"]
      /\ carstate' = carstate /\ drive' = drive /\ reg' = reg
  BY <1>1 DEF Do
<1>3. reg["main"] = NotLoaded
  BY <1>1 DEF At, StopInv, TypeInv, ThreadsOK, Loaded
<1>4. Roles'
  BY <1>2 DEF StopInv, Roles, Plain
<1>5. Current'
  BY <1>2, <1>3 DEF Current
<1> QED
  BY <1>2, <1>4, <1>5 DEF At

(* Code that releases every motor and ends both modes leads to rest.        *)
LEMMA ComesToRest ==
  ASSUME Releases \subseteq Ops(code'["main"]),
         Ops(code'["main"]) \subseteq Releases \cup {Set(f, FALSE) : f \in Field},
         carstate'["autoAvoid"] = FALSE \/ Set("autoAvoid", FALSE) \in Ops(code'["main"])
  PROVE  Resting'
<1>1. \A o \in Ops(code'["main"]) : o.op = "set" => o.value = FALSE
  BY DEF Releases, Run, Set
<1>2. \A o \in Ops(code'["main"]) : o.op = "run" => o.cmd = R
  BY DEF Releases, Run, Set
<1>3. \A m \in Motor : Run(m, R) \in Ops(code'["main"])
  BY DEF Releases
<1> QED
  BY <1>1, <1>2, <1>3 DEF Resting, Becomes, Ending

(* What fun1 and fun2 do leaves main what it had.                           *)
LEMMA OthersGoOn ==
  ASSUME StopInv, TypeInv', NEW t \in {"fun1", "fun2"}, NEW from, At(t, from),
         NEW ops \in Seq(Op), NEW to, Do(t, ops, to), done' = FALSE, lastCmd' = lastCmd,
         t = "fun1" => Ops(ops) \subseteq Releases,
         t = "fun2" => /\ to \in {"loop", "avoidTest", "avoid", "ir"}
                       /\ Ops(ops) \subseteq Drivings
                       /\ to = "avoid" \/ Ops(ops) \subseteq Releases
                       /\ to = "avoid" \/ from # "avoid" \/ Releases \subseteq Ops(ops)
  PROVE  StopInv'
<1>1. pc \in [Thread -> Places] /\ code \in [Thread -> Seq(Op)] /\ Thread = {"main", "fun1", "fun2"}
  BY DEF StopInv, TypeInv, ThreadsOK, Thread
<1>2. /\ code'["main"] = code["main"] /\ pc'["main"] = pc["main"]
      /\ carstate' = carstate /\ drive' = drive /\ reg' = reg
      /\ code'[t] = ops /\ pc'[t] = to /\ code[t] = <<>> /\ pc[t] = from
      /\ t = "fun1" => code'["fun2"] = code["fun2"] /\ pc'["fun2"] = pc["fun2"]
      /\ t = "fun2" => code'["fun1"] = code["fun1"]
  BY <1>1 DEF Do, At
<1>3. Roles'
  BY <1>2 DEF StopInv, Roles
<1>4. Current'
  BY <1>2 DEF StopInv, Current, Instr
<1>5. \A m \in Motor : Ending(m) => Ending(m)'
  <2>1. CASE t = "fun1"
    BY <1>2, <2>1 DEF Ending
  <2>2. CASE t = "fun2"
    <3> SUFFICES ASSUME NEW m \in Motor, Ending(m)  PROVE Ending(m)'
      OBVIOUS
    <3>1. Run(m, R) \notin Ops(code["fun2"])
      BY <1>2, <2>2, OpsOfNothing
    <3>2. CASE drive[m] = R \/ Run(m, R) \in Ops(code["main"])
      BY <1>2, <3>2 DEF Ending
    <3>3. CASE pc["fun2"] = "avoid"
      <4>1. CASE to = "avoid"
        BY <1>2, <2>2, <4>1 DEF Ending
      <4>2. CASE to # "avoid"
        <5>1. Run(m, R) \in Ops(ops)
          BY <1>2, <2>2, <3>3, <4>2 DEF Releases
        <5> QED
          BY <1>2, <2>2, <5>1 DEF Ending
      <4> QED
        BY <4>1, <4>2
    <3> QED
      BY <3>1, <3>2, <3>3 DEF Ending
  <2> QED
    BY <2>1, <2>2
<1>6. Resting => Resting'
  BY <1>2, <1>5 DEF Resting, Becomes
<1>7. Preparing => Preparing'
  BY <1>2 DEF Preparing, Becomes
<1>8. Obeyed'
  BY <1>2, <1>6, <1>7 DEF StopInv, Obeyed, Silent
<1> QED
  BY <1>3, <1>4, <1>8 DEF StopInv

(***************************************************************************)
(* A thread executes an instruction.                                       *)
(***************************************************************************)
LEMMA MainExecutes ==
  ASSUME StopInv, TypeInv', Execute("main")
  PROVE  StopInv'
<1> DEFINE o == Head(code["main"])
<1>1. /\ UNCHANGED <<pc, done, lastCmd>>
      /\ code'["fun1"] = code["fun1"] /\ code'["fun2"] = code["fun2"]
      /\ o \in Ops(code["main"]) /\ o = Instr("main")
      /\ MainLoads(o) \/ MainStores(o) \/ MainRuns(o)
  BY MainStep DEF Instr
<1> HIDE DEF o
<1>2. Ops(code'["main"]) \subseteq Ops(code["main"])
  BY <1>1 DEF MainLoads, MainStores, MainRuns
<1>3. Roles'
  <2>1. carstate'["trackenable"] = FALSE
    <3>1. o \in PlainOp /\ carstate["trackenable"] = FALSE
      BY <1>1 DEF StopInv, Roles
    <3>2. carstate \in [Field -> BOOLEAN]
      BY DEF StopInv, TypeInv, GlobalsOK
    <3>3. "trackenable" \in Field
      BY DEF Field, HighByte
    <3>4. CASE MainStores(o)
      <4>1. CASE o.field = "trackenable"
        <5>1. o.value = FALSE
          BY <3>1, <3>4, <4>1 DEF MainStores, PlainOp
        <5> QED
          BY <3>2, <3>3, <3>4, <4>1, <5>1 DEF MainStores
      <4>2. CASE o.field # "trackenable"
        BY <3>1, <3>2, <3>3, <3>4, <4>2 DEF MainStores
      <4> QED
        BY <4>1, <4>2
    <3> QED
      BY <1>1, <3>1, <3>4 DEF MainLoads, MainRuns
  <2> QED
    BY <1>1, <1>2, <2>1 DEF StopInv, Roles
<1>4. Current'
  <2>1. CASE MainLoads(o)
    BY <1>1, <2>1 DEF MainLoads, Current, Instr
  <2>2. CASE MainStores(o) \/ MainRuns(o)
    BY <2>2 DEF MainStores, MainRuns, Current
  <2> QED
    BY <1>1, <2>1, <2>2
<1>5. Resting => Resting'
  BY <1>1, RestingStays
<1>6. Preparing => Preparing'
  <2>1. LowByte \cup {"autoAvoid", "stop"} \subseteq Field
    BY DEF Field, HighByte
  <2>2. \A f \in Field, v \in BOOLEAN : Becomes(f, v) => Becomes(f, v)'
    BY <1>1, BecomesStays
  <2> QED
    BY <2>1, <2>2 DEF Preparing
<1>7. Obeyed'
  BY <1>1, <1>5, <1>6 DEF StopInv, Obeyed, Silent
<1> QED
  BY <1>3, <1>4, <1>7 DEF StopInv

LEMMA OthersExecute ==
  ASSUME StopInv, TypeInv', NEW t \in {"fun1", "fun2"}, Execute(t)
  PROVE  StopInv'
<1>1. code \in [Thread -> Seq(Op)] /\ Thread = {"main", "fun1", "fun2"} /\ code[t] # <<>>
  BY DEF StopInv, TypeInv, ThreadsOK, Thread, Execute, LoadByte, StoreByte, DCMotorRun, Branch,
         Executing
<1>2. /\ Instr(t) \in Ops(code[t]) /\ Tail(code[t]) \in Seq(Op)
      /\ Ops(code[t]) = {Instr(t)} \cup Ops(Tail(code[t]))
  BY <1>1, OpsOfTail DEF Instr
<1>3. Releases \subseteq Drivings
  BY PlainDrives
<1>4. Instr(t) \in Drivings /\ (t = "fun1" => Instr(t) \in Releases)
  BY <1>2, <1>3 DEF StopInv, Roles
<1>5. PICK m \in Motor, c \in {F, B, R} : Instr(t) = Run(m, c)
  BY <1>4 DEF Drivings
<1>6. Instr(t).op = "run" /\ Instr(t).motor = m /\ Instr(t).cmd = c
  BY <1>5, ReleaseHas
<1>7. /\ drive' = [drive EXCEPT ![m] = c] /\ code' = [code EXCEPT ![t] = Tail(code[t])]
      /\ UNCHANGED <<carstate, reg, pc, done, lastCmd>>
  BY <1>6 DEF Execute, LoadByte, StoreByte, DCMotorRun, Branch, Executing, Executed, irVars,
              clientVars
<1>8. /\ code'["main"] = code["main"] /\ code'[t] = Tail(code[t])
      /\ t = "fun1" => code'["fun2"] = code["fun2"]
      /\ t = "fun2" => code'["fun1"] = code["fun1"]
  BY <1>1, <1>7
<1>9. Ops(code'["fun1"]) \subseteq Ops(code["fun1"]) /\ Ops(code'["fun2"]) \subseteq Ops(code["fun2"])
  BY <1>2, <1>8
<1>10. Roles'
  BY <1>7, <1>8, <1>9 DEF StopInv, Roles
<1>11. Current'
  BY <1>7, <1>8 DEF StopInv, Current, Instr
<1>12. c = R \/ pc["fun2"] = "avoid"
  <2>1. Instr(t) \in Releases => c = R
    BY <1>6, ReleaseHas DEF Releases
  <2> QED
    BY <1>2, <1>4, <2>1 DEF StopInv, Roles
<1>13. ASSUME NEW n \in Motor, Ending(n)  PROVE Ending(n)'
  <2>0. drive \in [Motor -> {F, B, R}]
    BY DEF StopInv, TypeInv, GlobalsOK
  <2>1. CASE pc["fun2"] = "avoid"
    BY <1>7, <2>1 DEF Ending
  <2>2. CASE pc["fun2"] # "avoid" /\ n = m
    <3>1. drive'[n] = R
      BY <1>7, <1>12, <2>0, <2>2
    <3> QED
      BY <3>1 DEF Ending
  <2>3. CASE n # m
    <3>1. drive'[n] = drive[n] /\ Instr(t) # Run(n, R)
      BY <1>6, <1>7, <2>0, <2>3, ReleaseHas
    <3> QED
      BY <1>2, <1>7, <1>8, <1>13, <3>1 DEF Ending
  <2> QED
    BY <2>1, <2>2, <2>3
<1>14. Resting => Resting'
  BY <1>7, <1>8, <1>13 DEF Resting, Becomes
<1>15. Preparing => Preparing'
  BY <1>7, <1>8 DEF Preparing, Becomes
<1>16. Obeyed'
  BY <1>7, <1>14, <1>15 DEF StopInv, Obeyed, Silent
<1> QED
  BY <1>10, <1>11, <1>16 DEF StopInv

(***************************************************************************)
(* The steps of main.                                                      *)
(***************************************************************************)
LEMMA MainStops ==
  ASSUME NoTracking, StopInv, TypeInv',
         Listen \/ Accept \/ ReadApp \/ Motion \/ ReadScratch \/ Hangup
  PROVE  StopInv'
<1>d. /\ disWarning \in BOOLEAN /\ carstate \in [Field -> BOOLEAN]
      /\ done = FALSE
  BY DEF StopInv, TypeInv, GlobalsOK, Roles
<1>f. Cleared \subseteq Field /\ Modes \subseteq Field /\ "autoAvoid" \in Cleared \cap Modes
  BY DEF Cleared, Modes, Field, LowByte, HighByte
<1>1. CASE Listen
  <2>1. At("main", "listen") /\ Do("main", clearFlag \o stop, "accept") /\ done' = FALSE
    BY <1>1, <1>d DEF Listen, irVars
  <2>2. /\ Plain(clearFlag \o stop) /\ Ops(clearFlag \o stop) = Clears \cup Releases
    BY PlainFlags, PlainDrives, PlainBoth
  <2>3. Roles' /\ Current' /\ code'["main"] = clearFlag \o stop /\ pc'["main"] = "accept"
    BY <2>1, <2>2, MainGoesOn
  <2>4. Resting'
    BY <1>f, <2>2, <2>3, ComesToRest DEF Clears
  <2> QED
    BY <2>3, <2>4 DEF StopInv, Obeyed
<1>2. CASE Accept
  <2>1. At("main", "accept") /\ Do("main", <<>>, "read") /\ done' = FALSE /\ lastCmd' = lastCmd
    BY <1>2, <1>d DEF Accept, irVars
  <2>2. /\ Roles' /\ Current' /\ code["main"] = <<>> /\ code'["main"] = <<>>
        /\ pc["main"] = "accept" /\ pc'["main"] = "read" /\ code'["fun2"] = code["fun2"]
        /\ pc'["fun2"] = pc["fun2"] /\ carstate' = carstate /\ drive' = drive
    BY <2>1, MainGoesOn, PlainDrives
  <2>3. Resting => Resting'
    BY <2>2 DEF Resting, Becomes, Ending
  <2> QED
    BY <2>1, <2>2, <2>3 DEF StopInv, Obeyed, Silent
<1>3. CASE ReadApp
  <2>1. PICK c \in AppCommands : /\ Do("main", updateCarState(c), "motion")
                                 /\ lastCmd' = [via |-> "app", byte |-> c]
    BY <1>3 DEF ReadApp
  <2>2. At("main", "read") /\ done' = FALSE
    BY <1>3, <1>d DEF ReadApp, irVars
  <2>3. Plain(updateCarState(c))
    BY <1>d, <2>1, PlainCommands DEF NoTracking
  <2>4. /\ Roles' /\ Current' /\ code'["main"] = updateCarState(c) /\ pc'["main"] = "motion"
        /\ carstate' = carstate
    BY <2>1, <2>2, <2>3, MainGoesOn
  <2>5. c = 5 => Preparing'
    <3> SUFFICES ASSUME c = 5  PROVE Preparing'
      OBVIOUS
    <3>1. Ops(code'["main"]) = Stops
      BY <2>4, PlainFlags DEF updateCarState
    <3>2. \A o \in Stops : o.op = "set" /\ (o.field = "stop" => o.value = TRUE)
                                        /\ (o.field # "stop" => o.value = FALSE)
      BY DEF Stops, Leaves, Modes, LowByte, Set
    <3>3. /\ \A f \in LowByte \cup {"autoAvoid"} : Set(f, FALSE) \in Stops /\ f # "stop"
          /\ Set("stop", TRUE) \in Stops
      BY DEF Stops, Leaves, Modes, LowByte
    <3> QED
      BY <3>1, <3>2, <3>3 DEF Preparing, Becomes
  <2> QED
    BY <2>1, <2>4, <2>5 DEF StopInv, Obeyed
<1>4. CASE Motion
  <2>1. /\ At("main", "motion") /\ Do("main", updateCarMotion, "read") /\ done' = FALSE
        /\ lastCmd' = lastCmd
    BY <1>4, <1>d DEF Motion, irVars, clientVars
  <2>2. Plain(updateCarMotion)
    BY <1>d, PlainMotion
  <2>3. /\ Roles' /\ Current' /\ code["main"] = <<>> /\ pc["main"] = "motion"
        /\ code'["main"] = updateCarMotion /\ pc'["main"] = "read" /\ carstate' = carstate
    BY <2>1, <2>2, MainGoesOn
  <2>4. ASSUME Preparing  PROVE Resting'
    <3>1. /\ \A f \in LowByte : carstate[f] = FALSE
          /\ carstate["stop"] = TRUE /\ carstate["autoAvoid"] = FALSE
      BY <2>3, <2>4, OpsOfNothing DEF Preparing, Becomes
    <3>2. Ops(code'["main"]) = {Set("stop", FALSE)} \cup Releases
      BY <1>d, <2>3, <3>1, PlainMotion
    <3> QED
      BY <2>3, <3>1, <3>2, ComesToRest DEF Field, HighByte
  <2> QED
    BY <2>1, <2>3, <2>4 DEF StopInv, Obeyed, Silent
<1>5. CASE ReadScratch
  <2>1. PICK c \in ScratchCommands : /\ Do("main", PhaseScratchCmd(c), "read")
                                     /\ lastCmd' = [via |-> "scratch", byte |-> c]
    BY <1>5 DEF ReadScratch
  <2>2. At("main", "read") /\ done' = FALSE
    BY <1>5, <1>d DEF ReadScratch, irVars
  <2>3. Plain(PhaseScratchCmd(c))
    BY <1>d, <2>1, PlainCommands DEF NoTracking
  <2>4. Roles' /\ Current' /\ code'["main"] = PhaseScratchCmd(c) /\ pc'["main"] = "read"
    BY <2>1, <2>2, <2>3, MainGoesOn
  <2>5. c = 5 => Resting'
    <3> SUFFICES ASSUME c = 5  PROVE Resting'
      OBVIOUS
    <3>1. Ops(code'["main"]) = Releases \cup Leaves
      BY <2>4, PlainDrives, PlainFlags, PlainBoth DEF PhaseScratchCmd, scratchStop
    <3> QED
      BY <1>f, <3>1, ComesToRest DEF Leaves
  <2> QED
    BY <2>1, <2>4, <2>5 DEF StopInv, Obeyed, Silent
<1>6. CASE Hangup
  <2>1. At("main", "read") /\ Do("main", stop \o clearFlag, "listen") /\ done' = FALSE
    BY <1>6, <1>d DEF Hangup, irVars
  <2>2. Plain(stop \o clearFlag)
    BY PlainFlags, PlainDrives, PlainBoth
  <2>3. Roles' /\ Current' /\ pc'["main"] = "listen"
    BY <2>1, <2>2, MainGoesOn
  <2> QED
    BY <2>3 DEF StopInv, Obeyed
<1> QED
  BY <1>1, <1>2, <1>3, <1>4, <1>5, <1>6

(***************************************************************************)
(* The steps of fun1 and fun2.                                             *)
(***************************************************************************)
LEMMA OthersStop ==
  ASSUME StopInv, TypeInv', fun1Steps \/ fun2Steps
  PROVE  StopInv'
<1>d. /\ done = FALSE /\ carstate["trackenable"] = FALSE
      /\ pc["fun2"] \in {"loop", "avoidTest", "avoid", "ir"}
  BY DEF StopInv, Roles
<1>n. <<>> \in Seq(Op) /\ Ops(<<>>) = {}
  BY Nothing, OpsOfNothing
<1>e. ASSUME NEW from \in {"loop", "avoidTest", "ir"}, NEW to \in {"loop", "avoidTest", "avoid", "ir"},
             At("fun2", from), Do("fun2", <<>>, to), done' = FALSE, lastCmd' = lastCmd
      PROVE  StopInv'
  <2>1. Ops(<<>>) \subseteq Releases /\ Ops(<<>>) \subseteq Drivings /\ from # "avoid"
    BY <1>n
  <2> QED
    BY <1>n, <1>e, <2>1, OthersGoOn
<1>s. stop \in Seq(Op) /\ Ops(stop) = Releases /\ Releases \subseteq Drivings
  BY OpsOfStop, PlainDrives
<1>g. \A name \in {"forward", "back", "left"} : Go(name) \in Seq(Op) /\ Ops(Go(name)) \subseteq Drivings
  BY OpsOfGo DEF Name
<1>1. CASE Measure
  <2> DEFINE to == IF near THEN "warned" ELSE "measure"
  <2>1. At("fun1", "measure") /\ Do("fun1", <<>>, to) /\ done' = FALSE /\ lastCmd' = lastCmd
    BY <1>1, <1>d DEF Measure, irVars, clientVars
  <2> HIDE DEF to
  <2> QED
    BY <1>n, <2>1, OthersGoOn
<1>2. CASE Warned
  <2> DEFINE ops == IF carstate["forward"] /\ ~carstate["autoAvoid"] THEN stop ELSE <<>>
  <2>1. At("fun1", "warned") /\ Do("fun1", ops, "measure") /\ done' = FALSE /\ lastCmd' = lastCmd
    BY <1>2, <1>d DEF Warned, irVars, clientVars
  <2>2. ops \in Seq(Op) /\ Ops(ops) \subseteq Releases
    BY <1>n, <1>s
  <2> HIDE DEF ops
  <2> QED
    BY <2>1, <2>2, OthersGoOn
<1>3. CASE TrackTest("loop")
  <2>1. At("fun2", "loop") /\ Do("fun2", <<>>, "avoidTest") /\ done' = FALSE /\ lastCmd' = lastCmd
    BY <1>3, <1>d DEF TrackTest, irVars, clientVars
  <2> QED
    BY <1>e, <2>1
<1>4. CASE AvoidTest
  <2> DEFINE to == IF carstate["autoAvoid"] THEN "avoid" ELSE "ir"
  <2>1. At("fun2", "avoidTest") /\ Do("fun2", <<>>, to) /\ done' = FALSE /\ lastCmd' = lastCmd
    BY <1>4, <1>d DEF AvoidTest, irVars, clientVars
  <2>2. to \in {"avoid", "ir"}
    OBVIOUS
  <2> HIDE DEF to
  <2> QED
    BY <1>e, <2>1, <2>2
<1>5. CASE AvoidExit
  <2>1. At("fun2", "avoid") /\ Do("fun2", stop, "ir") /\ done' = FALSE /\ lastCmd' = lastCmd
    BY <1>5, <1>d DEF AvoidExit, irVars, clientVars
  <2> QED
    BY <1>s, <2>1, OthersGoOn
<1>6. CASE AvoidForward
  <2>1. At("fun2", "avoid") /\ Do("fun2", Go("forward"), "avoid") /\ done' = FALSE /\ lastCmd' = lastCmd
    BY <1>6, <1>d DEF AvoidForward, irVars, clientVars
  <2> QED
    BY <1>g, <2>1, OthersGoOn
<1>7. CASE AvoidTurn
  <2>1. PICK phase \in IF turnFlag THEN {turnPhase} ELSE Phases :
          Do("fun2", CASE phase = "now"  -> <<>>
                       [] phase = "back" -> Go("back")
                       [] phase = "left" -> Go("left")
                       [] phase = "over" -> stop, "avoid")
    BY <1>7 DEF AvoidTurn
  <2> DEFINE ops == CASE phase = "now"  -> <<>>
                      [] phase = "back" -> Go("back")
                      [] phase = "left" -> Go("left")
                      [] phase = "over" -> stop
  <2>2. phase \in Phases
    BY DEF StopInv, TypeInv, GlobalsOK
  <2>3. ops \in Seq(Op) /\ Ops(ops) \subseteq Drivings
    BY <2>2, <1>n, <1>s, <1>g DEF Phases
  <2>4. /\ At("fun2", "avoid") /\ Do("fun2", ops, "avoid")
        /\ done' = FALSE /\ lastCmd' = lastCmd
    BY <1>7, <1>d, <2>1 DEF AvoidTurn, irVars, clientVars
  <2> HIDE DEF ops
  <2> QED
    BY <2>3, <2>4, OthersGoOn
<1>8. CASE IrPoll
  <2>1. At("fun2", "ir") /\ Do("fun2", <<>>, "loop") /\ done' = FALSE /\ lastCmd' = lastCmd
    BY <1>8, <1>d DEF IrPoll, clientVars
  <2> QED
    BY <1>e, <2>1
<1>9. ~TrackTest("track") /\ ~Sense /\ ~FollowLine("lineLeft", "forward_left")
      /\ ~FollowLine("lineRight", "forward_right") /\ ~IrMotion
  BY <1>d DEF TrackTest, Sense, FollowLine, IrMotion, At
<1>10. Execute("fun1") \/ Execute("fun2") => StopInv'
  BY OthersExecute
<1> QED
  BY <1>1, <1>2, <1>3, <1>4, <1>5, <1>6, <1>7, <1>8, <1>9, <1>10 DEF fun1Steps, fun2Steps

LEMMA StopNext == NoTracking /\ StopInv /\ [Next]_vars => StopInv'
<1> SUFFICES ASSUME NoTracking, StopInv, [Next]_vars  PROVE StopInv'
  OBVIOUS
<1>i. TypeInv'
  BY TypeNext DEF StopInv
<1>1. CASE UNCHANGED <<carstate, drive, threadVars, done, lastCmd>>
  BY <1>1, <1>i DEF StopInv, Roles, Current, Obeyed, Resting, Preparing, Becomes, Ending, Silent,
                    Instr, threadVars
<1>2. CASE Obstacle \/ Tick \/ getIR \/ Exit
  <2>1. ~getIR
    BY DEF getIR, NoTracking
  <2>2. UNCHANGED <<carstate, drive, threadVars, done, lastCmd>>
    BY <1>2, <2>1 DEF Obstacle, Tick, Exit, Surroundings, irVars, clientVars
  <2> QED
    BY <1>1, <2>2
<1>3. CASE UNCHANGED vars
  <2>1. UNCHANGED <<carstate, drive, threadVars, done, lastCmd>>
    BY <1>3 DEF vars, irVars, clientVars
  <2> QED
    BY <1>1, <2>1
<1>4. CASE Execute("main")
  BY <1>4, <1>i, MainExecutes
<1>5. CASE Listen \/ Accept \/ ReadApp \/ Motion \/ ReadScratch \/ Hangup
  BY <1>5, <1>i, MainStops
<1>6. CASE fun1Steps \/ fun2Steps
  BY <1>6, <1>i, OthersStop
<1> QED
  BY <1>2, <1>3, <1>4, <1>5, <1>6 DEF Next, mainSteps, clientSteps

LEMMA StopInvStands == StopInv => StopIsDone
<1> SUFFICES ASSUME StopInv, Quiet,
                    lastCmd.via = "none" \/ Last("app", {5}) \/ Last("scratch", {5})
             PROVE  /\ ~carstate["autoAvoid"]
                    /\ pc["fun2"] = "avoid" \/ code["fun2"] # <<>> \/ Stopped
  BY DEF StopIsDone
<1>1. Resting /\ code["main"] = <<>>
  BY DEF StopInv, Obeyed, Quiet, Silent, Last
<1>2. carstate["autoAvoid"] = FALSE
  BY <1>1, OpsOfNothing DEF Resting, Becomes
<1>3. code["fun2"] = <<>> /\ pc["fun2"] # "avoid" => Stopped
  BY <1>1, OpsOfNothing DEF Resting, Ending, Stopped
<1> QED
  BY <1>2, <1>3

(* As long as nobody starts tracking and no remote is used, a car whose      *)
(* client said stop last, or has said nothing yet, stands as soon as main    *)
(* is done and fun2 has left avoidance, whichever way the three threads     *)
(* interleave and whatever was under way when the stop came.               *)
THEOREM StopStands == ASSUME NoTracking  PROVE Spec => []StopIsDone
<1>1. StopInv /\ [Next]_vars => StopInv'
  BY StopNext
<1> QED
  BY <1>1, StopInit, StopInvStands, PTL DEF Spec

(***************************************************************************)
(* turn(): only fun2 and the clock touch its flags.                        *)
(***************************************************************************)
(* turn() is under way whenever a flag says so, and each flag goes up in     *)
(* its own part of the turn, although avoidance may be left in the middle   *)
(* of one and be entered again when its time is long over.                 *)
TurnIsTimed == /\ turnBackFlag => turnFlag /\ turnPhase # "now"
               /\ turnLeftFlag => turnFlag /\ turnPhase \in {"left", "over"}

LEMMA TurnNext == TypeInv /\ TurnIsTimed /\ [Next]_vars => TurnIsTimed'
<1> SUFFICES ASSUME TypeInv, TurnIsTimed, [Next]_vars  PROVE TurnIsTimed'
  OBVIOUS
<1>1. CASE AvoidTurn
  <2>1. PICK phase \in IF turnFlag THEN {turnPhase} ELSE Phases :
          /\ turnPhase' = phase
          /\ turnFlag' = turnFlagAfter(phase)
          /\ turnBackFlag' = turnBackFlagAfter(phase)
          /\ turnLeftFlag' = turnLeftFlagAfter(phase)
    BY <1>1 DEF AvoidTurn
  <2>2. turnFlag => phase = turnPhase
    BY <2>1
  <2>3. turnBackFlag' => turnFlag' /\ turnPhase' # "now"
    BY <2>1, <2>2 DEF TurnIsTimed, turnFlagAfter, turnBackFlagAfter
  <2>4. turnLeftFlag' => turnFlag' /\ turnPhase' \in {"left", "over"}
    BY <2>1, <2>2 DEF TurnIsTimed, turnFlagAfter, turnLeftFlagAfter
  <2> QED
    BY <2>3, <2>4 DEF TurnIsTimed
<1>2. CASE Tick
  <2>1. turnPhase \in {"now", "back", "left"}
    BY <1>2 DEF Tick, TypeInv, GlobalsOK, Phases
  <2> QED
    BY <1>2, <2>1 DEF Tick, TurnIsTimed
<1>3. CASE UNCHANGED turnVars
  BY <1>3 DEF turnVars, TurnIsTimed
<1>4. ASSUME NEW t, Execute(t)  PROVE UNCHANGED turnVars
  BY <1>4 DEF Execute, LoadByte, StoreByte, DCMotorRun, Branch
<1>5. mainSteps \/ clientSteps \/ fun1Steps => UNCHANGED turnVars
  BY <1>4 DEF mainSteps, clientSteps, fun1Steps, Listen, Motion, Hangup, Accept, ReadApp,
              ReadScratch, Measure, Warned
<1>6. fun2Steps => AvoidTurn \/ UNCHANGED turnVars
  BY <1>4 DEF fun2Steps, TrackTest, Sense, FollowLine, AvoidTest, AvoidExit, AvoidForward,
              IrPoll, IrMotion
<1>7. Obstacle \/ getIR \/ Exit => UNCHANGED turnVars
  BY DEF Obstacle, getIR, Exit
<1>8. vars' = vars => UNCHANGED turnVars
  BY DEF vars
<1> QED
  BY <1>1, <1>2, <1>3, <1>5, <1>6, <1>7, <1>8 DEF Next

(* However often avoidance is left in the middle of a turn and entered again *)
(* later, the flags of turn() tell no other story than its clock.           *)
THEOREM TurnsAreTimed == Spec => []TurnIsTimed
<1>1. Init => TurnIsTimed
  BY DEF Init, TurnIsTimed
<1> QED
  BY <1>1, TypeInit, TypeNext, TurnNext, PTL DEF Spec
===============================================================================
