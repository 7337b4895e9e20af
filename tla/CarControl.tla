------------------------------ MODULE CarControl ------------------------------
(***************************************************************************)
(* The control core of remoteserver.c: the three threads that decide how   *)
(* the motors are driven, and the globals through which they do so.        *)
(*                                                                         *)
(*   main   serves one TCP client at a time and runs its commands          *)
(*   fun1   measures the distance ahead and stops the car at an obstacle   *)
(*   fun2   runs line tracking, automatic avoidance and the IR remote      *)
(*                                                                         *)
(* No lock protects carstate, disWarning or the motors.  A handler is a    *)
(* sequence of instructions in code[t], and instructions of different      *)
(* threads interleave: an assignment to a bit-field of carstate is a load  *)
(* of the byte that holds it and a store of that byte; a call of           *)
(* DCMotorRun is one instruction (MotorDriver opens it up).                *)
(***************************************************************************)
EXTENDS Integers, Sequences

CONSTANTS AppCommands,      \* bytes a client may send to updateCarState
          ScratchCommands,  \* bytes it may send to PhaseScratchCmd
          IrCodes,          \* frames the IR remote may send
          Obstacles,        \* what the distance may be: subset of BOOLEAN (near?)
          SensorReadings,   \* what <<left, middle, right>> line sensors may read
          Signals           \* what may end the program: subset of {"SIGINT"}

ASSUME CommandsAssumption ==
  /\ AppCommands \subseteq 0 .. 255
  /\ ScratchCommands \subseteq 0 .. 255
  /\ IrCodes \subseteq 0 .. 65535

ASSUME WorldAssumption ==
  /\ Obstacles \subseteq BOOLEAN /\ FALSE \in Obstacles
  /\ SensorReadings \subseteq [1 .. 3 -> {0, 1}]
  /\ Signals \subseteq {"SIGINT"}

Thread == {"main", "fun1", "fun2"}
Motor == 1 .. 4

VARIABLES carstate,         \* struct motionstate: its direction and mode bits
          disWarning,       \* an obstacle was near at the last measurement
          turnFlag,         \* turn()'s static flag: a turn is being timed
          turnPhase,        \* how much of the turn's time has passed
          turnLeftFlag, turnBackFlag,
          done, irCode,     \* a frame was decoded; the code in buf[2], buf[3]
          client,           \* what newsockfd stands for
          client_Connected,
          poweroffFlag,
          drive,            \* drive[m]: the last DCMotorRun command of motor m
          pc, code, reg,    \* per thread: position, instructions left, byte loaded
          near,             \* environment: something is within 50 cm
          alive,            \* the program is running
          lastCmd           \* history: the last byte main processed for its client,
                            \* or whether the last client left the car tracking

turnVars == <<turnFlag, turnPhase, turnLeftFlag, turnBackFlag>>
irVars == <<done, irCode>>
clientVars == <<client, client_Connected, poweroffFlag, lastCmd>>
threadVars == <<pc, code, reg>>
vars == <<carstate, disWarning, turnVars, irVars, clientVars, drive, threadVars,
          near, alive>>

-------------------------------------------------------------------------------
(* carstate: which bit-fields share a byte decides which assignments of two *)
(* threads can undo each other.  The servo and speed bits move no motor and *)
(* are left out, and with them the stores of their assignments, although    *)
(* these write the same two bytes: in clearFlag they stand beside those of  *)
(* the bits kept here; IrRemote has those of the two remotes.              *)
LowByte == {"left", "forward", "right", "back"}
HighByte == {"trackenable", "autoAvoid", "stop"}
Field == LowByte \cup HighByte
ByteOf(f) == IF f \in LowByte THEN LowByte ELSE HighByte

NotLoaded == [none |-> TRUE]

Set(f, v) == [op |-> "set", field |-> f, value |-> v]
Run(m, c) == [op |-> "run", motor |-> m, cmd |-> c]
When(f, name) == [op |-> "when", field |-> f, name |-> name]

(* `carstate.f = v` for each f of the sequence fs.                          *)
SetAll(fs, v) == [k \in DOMAIN fs |-> Set(fs[k], v)]

(* The go_* functions of motordriver.c: the DCMotorRun calls in their order. *)
Drives(order, cmds) == [k \in 1 .. 4 |-> Run(order[k], cmds[k])]
F == "FORWARD"
B == "BACKWARD"
R == "RELEASE"
stop_BrakesInstead == Drives(<<1, 2, 3, 4>>, <<R, R, R, "BRAKE">>)
stop_Motor3Twice == Drives(<<1, 2, 3, 3>>, <<R, R, R, R>>)
stop == Drives(<<1, 2, 3, 4>>, <<R, R, R, R>>)

Manoeuvre ==
  [forward       |-> Drives(<<1, 2, 3, 4>>, <<F, F, F, F>>),
   left          |-> Drives(<<2, 1, 3, 4>>, <<F, B, B, F>>),
   right         |-> Drives(<<2, 1, 3, 4>>, <<B, F, F, B>>),
   forward_left  |-> Drives(<<2, 1, 3, 4>>, <<F, R, R, F>>),
   forward_right |-> Drives(<<2, 1, 3, 4>>, <<R, F, F, R>>),
   back          |-> Drives(<<1, 2, 3, 4>>, <<B, B, B, B>>),
   back_left     |-> Drives(<<2, 1, 3, 4>>, <<B, R, R, B>>),
   back_right    |-> Drives(<<2, 1, 3, 4>>, <<R, B, B, R>>)]
Go(name) == Manoeuvre[name]

LeaveModes == SetAll(<<"trackenable", "autoAvoid">>, FALSE)

clearFlag_KeepsAvoidance == SetAll(<<"left", "forward", "right", "stop", "back">>, FALSE)
clearFlag == SetAll(<<"left", "forward", "right", "stop", "back", "autoAvoid">>, FALSE)

(* Case 5 of updateCarState, the stop command.                              *)
DirectionsOff == SetAll(<<"forward", "back", "left", "right">>, FALSE)
stopCase_NoStopBit == DirectionsOff \o LeaveModes
stopCase_KeepsModes == DirectionsOff \o <<Set("stop", TRUE)>>
stopCase == DirectionsOff \o LeaveModes \o <<Set("stop", TRUE)>>

(* updateCarState(c); a byte without a case does nothing here.              *)
updateCarState(c) ==
  CASE c = 0  -> <<Set("left", TRUE)>>
    [] c = 1  -> <<Set("forward", ~disWarning)>> \o LeaveModes
    [] c = 2  -> <<Set("right", TRUE)>> \o LeaveModes
    [] c = 3  -> <<Set("back", TRUE)>> \o LeaveModes
    [] c = 4  -> <<Set("left", FALSE)>> \o LeaveModes
    [] c = 5  -> stopCase
    [] c = 6  -> <<Set("right", FALSE)>> \o LeaveModes
    [] c = 11 -> <<Set("trackenable", TRUE)>>
    [] c = 12 -> <<Set("trackenable", FALSE)>>
    [] c = 17 -> <<Set("autoAvoid", TRUE)>>
    [] c = 18 -> <<Set("autoAvoid", FALSE)>>
    [] OTHER  -> <<>>

scratchStop == stop \o LeaveModes

(* PhaseScratchCmd(c): drives the motors itself, without the direction bits. *)
PhaseScratchCmd(c) ==
  CASE c = 1  -> Go("forward")
    [] c = 2  -> (IF disWarning THEN stop ELSE Go("back")) \o LeaveModes
    [] c = 3  -> Go("left") \o LeaveModes
    [] c = 4  -> Go("right") \o LeaveModes
    [] c = 5  -> scratchStop
    [] c = 11 -> <<Set("trackenable", TRUE)>>
    [] c = 12 -> <<Set("trackenable", FALSE)>>
    [] c = 17 -> <<Set("autoAvoid", TRUE)>>
    [] c = 18 -> <<Set("autoAvoid", FALSE)>>
    [] OTHER  -> <<>>

(* updateCarMotion(): the manoeuvre that the direction bits select; none    *)
(* when no direction bit is set and the stop bit is clear.                 *)
updateCarMotion ==
  LET fwd == carstate["forward"]  bck == carstate["back"]
      side == CASE carstate["left"] = carstate["right"]      -> "straight"
                [] carstate["left"] /\ ~carstate["right"]    -> "left"
                [] carstate["right"] /\ ~carstate["left"]    -> "right"
      ahead  == [straight |-> "forward", left |-> "forward_left", right |-> "forward_right"]
      behind == [straight |-> "back", left |-> "back_left", right |-> "back_right"]
  IN CASE fwd /\ ~bck -> Go(ahead[side])
       [] bck /\ ~fwd -> Go(behind[side])
       [] fwd = bck /\ side # "straight" -> Go(side)
       [] fwd = bck /\ side = "straight" ->
            IF carstate["stop"] THEN <<Set("stop", FALSE)>> \o stop ELSE <<>>

(* The frames of both remotes (remoteserver.h); the servo and speed codes   *)
(* that equal no direction code move no motor.                             *)
IR_up    == {\h46b9, \h18e7}
IR_down  == {\h15ea, \h52ad}
IR_Left  == {\h44bb, \h08f7}
IR_right == {\h43bc, \h5aa5}
IR_stop  == {\h40bf, \h1ce3}
IR_track == \h42bd
IR_track_stop == \h4ab5

irStop_KeepsForward == SetAll(<<"back", "right", "left">>, FALSE) \o stop
irStop == SetAll(<<"forward", "back", "right", "left">>, FALSE) \o stop

IR_updateCarState(c) ==
  CASE c \in IR_up    -> <<Set("forward", ~disWarning)>>
    [] c \in IR_down  -> <<Set("back", TRUE)>>
    [] c \in IR_Left  -> <<Set("left", TRUE)>>
    [] c \in IR_right -> <<Set("right", TRUE)>>
    [] c \in IR_stop  -> irStop
    [] c = IR_track   -> <<Set("trackenable", TRUE)>>
    [] c = IR_track_stop -> <<Set("trackenable", FALSE)>> \o stop
    [] OTHER -> <<>>

(* IR_updateCarMotion(): every set direction bit gets its manoeuvre, in turn. *)
IR_updateCarMotion == <<When("forward", "forward"), When("back", "back"),
                        When("left", "left"), When("right", "right")>>
-------------------------------------------------------------------------------
Init == /\ carstate = [f \in Field |-> FALSE]
        /\ disWarning = FALSE
        /\ turnFlag = FALSE /\ turnPhase = "now"
        /\ turnLeftFlag = FALSE /\ turnBackFlag = FALSE
        /\ done = FALSE /\ irCode = 0
        /\ client = "none" /\ client_Connected = FALSE /\ poweroffFlag = FALSE
        /\ drive = [m \in Motor |-> "RELEASE"]
        /\ pc = [main |-> "listen", fun1 |-> "measure", fun2 |-> "loop"]
        /\ code = [t \in Thread |-> <<>>]
        /\ reg = [t \in Thread |-> NotLoaded]
        /\ near = FALSE
        /\ alive = TRUE
        /\ lastCmd = [via |-> "none"]

(* Thread t, at label `from` with no instruction left, goes on at `to` with *)
(* the instructions ops ahead of it.                                       *)
At(t, from) == alive /\ pc[t] = from /\ code[t] = <<>>
Do(t, ops, to) == /\ pc' = [pc EXCEPT ![t] = to]
                  /\ code' = [code EXCEPT ![t] = ops]
                  /\ UNCHANGED <<reg, carstate, drive, near, alive>>

(***************************************************************************)
(* Instructions.                                                           *)
(***************************************************************************)
Instr(t) == Head(code[t])
Executing(t, op) == alive /\ code[t] # <<>> /\ Instr(t).op = op
Executed(t) == code' = [code EXCEPT ![t] = Tail(@)]

LoadByte(t) ==
  /\ Executing(t, "set") /\ reg[t] = NotLoaded
  /\ reg' = [reg EXCEPT ![t] = [f \in ByteOf(Instr(t).field) |-> carstate[f]]]
  /\ UNCHANGED <<carstate, disWarning, turnVars, irVars, clientVars, drive, pc, code,
                 near, alive>>

StoreByte(t) ==
  /\ Executing(t, "set") /\ reg[t] # NotLoaded
  /\ LET f == Instr(t).field  v == Instr(t).value
     IN carstate' = [g \in Field |-> IF g = f THEN v
                                     ELSE IF g \in ByteOf(f) THEN reg[t][g] ELSE carstate[g]]
  /\ reg' = [reg EXCEPT ![t] = NotLoaded]
  /\ Executed(t)
  /\ UNCHANGED <<disWarning, turnVars, irVars, clientVars, drive, pc, near, alive>>

DCMotorRun(t) ==
  /\ Executing(t, "run")
  /\ drive' = [drive EXCEPT ![Instr(t).motor] = Instr(t).cmd]
  /\ Executed(t)
  /\ UNCHANGED <<carstate, disWarning, turnVars, irVars, clientVars, pc, reg, near, alive>>

Branch(t) ==
  /\ Executing(t, "when")
  /\ code' = [code EXCEPT ![t] = (IF carstate[Instr(t).field] THEN Go(Instr(t).name) ELSE <<>>)
                                   \o Tail(@)]
  /\ UNCHANGED <<carstate, disWarning, turnVars, irVars, clientVars, drive, pc, reg, near, alive>>

Execute(t) == LoadByte(t) \/ StoreByte(t) \/ DCMotorRun(t) \/ Branch(t)

(***************************************************************************)
(* main                                                                    *)
(***************************************************************************)
Listen == /\ At("main", "listen")
          /\ Do("main", clearFlag \o stop, "accept")
          /\ client_Connected' = FALSE
          /\ UNCHANGED <<disWarning, turnVars, irVars, client, poweroffFlag, lastCmd>>

(* accept may fail -- it always does once exit_UCTRONICS_Robot_Car closed   *)
(* sockfd -- and main goes on as if a client were there.                   *)
Accept == /\ At("main", "accept")
          /\ Do("main", <<>>, "read")
          /\ client' \in {"error"} \cup (IF poweroffFlag THEN {} ELSE {"peer"})
          /\ client_Connected' = TRUE
          /\ UNCHANGED <<disWarning, turnVars, irVars, poweroffFlag, lastCmd>>

(* What both command handlers do for byte 19: exit_UCTRONICS_Robot_Car.     *)
PowerOff(c) == /\ poweroffFlag' = (poweroffFlag \/ c = 19)
               /\ client_Connected' = (client_Connected /\ c # 19)

ReadApp == /\ At("main", "read") /\ client = "peer"
           /\ \E c \in AppCommands :
                 /\ Do("main", updateCarState(c), "motion")
                 /\ PowerOff(c)
                 /\ lastCmd' = [via |-> "app", byte |-> c]
           /\ UNCHANGED <<disWarning, turnVars, irVars, client>>

Motion == /\ At("main", "motion")
          /\ Do("main", updateCarMotion, "read")
          /\ UNCHANGED <<disWarning, turnVars, irVars, clientVars>>

ReadScratch == /\ At("main", "read") /\ client = "peer"
               /\ \E c \in ScratchCommands :
                     /\ Do("main", PhaseScratchCmd(c), "read")
                     /\ PowerOff(c)
                     /\ lastCmd' = [via |-> "scratch", byte |-> c]
               /\ UNCHANGED <<disWarning, turnVars, irVars, client>>

(* fun2 is in trackModeWork, or may enter it.                               *)
InTrackMode == pc["fun2"] \in {"track", "sense", "lineLeft", "lineRight"}
Tracking == InTrackMode \/ carstate["trackenable"]

Hangup_KeepsFlags ==
  /\ At("main", "read")
  /\ Do("main", stop, "accept")
  /\ client' = "none"
  /\ lastCmd' = [via |-> IF Tracking THEN "tracking" ELSE "none"]
  /\ UNCHANGED <<disWarning, turnVars, irVars, client_Connected, poweroffFlag>>

Hangup == /\ At("main", "read")
          /\ Do("main", stop \o clearFlag, "listen")
          /\ client' = "none"
          /\ lastCmd' = [via |-> IF Tracking THEN "tracking" ELSE "none"]
          /\ UNCHANGED <<disWarning, turnVars, irVars, client_Connected, poweroffFlag>>

(***************************************************************************)
(* fun1                                                                    *)
(***************************************************************************)
Measure == /\ At("fun1", "measure")
           /\ disWarning' = near
           /\ Do("fun1", <<>>, IF near THEN "warned" ELSE "measure")
           /\ UNCHANGED <<turnVars, irVars, clientVars>>

Warned_WhenAvoiding ==
  /\ At("fun1", "warned")
  /\ Do("fun1", IF carstate["forward"] /\ carstate["autoAvoid"] THEN stop ELSE <<>>, "measure")
  /\ UNCHANGED <<disWarning, turnVars, irVars, clientVars>>

Warned == /\ At("fun1", "warned")
          /\ Do("fun1", IF carstate["forward"] /\ ~carstate["autoAvoid"]
                          THEN stop ELSE <<>>, "measure")
          /\ UNCHANGED <<disWarning, turnVars, irVars, clientVars>>

(***************************************************************************)
(* fun2: trackModeWork is called from the top of the loop and avoidance    *)
(* after it; a frame of the IR remote is looked at when neither is running. *)
(***************************************************************************)
TrackTest(label) ==
  /\ At("fun2", label)
  /\ Do("fun2", <<>>, IF carstate["trackenable"] THEN "sense" ELSE "avoidTest")
  /\ UNCHANGED <<disWarning, turnVars, irVars, clientVars>>

(* Where tracking heads: nowhere while there is a warning.                  *)
Heading_IgnoresWarning(manoeuvre) == Go(manoeuvre)
Heading(manoeuvre) == IF disWarning THEN stop ELSE Go(manoeuvre)

Sense ==
  /\ At("fun2", "sense")
  /\ \E num \in SensorReadings :
       CASE num = <<0, 0, 0>> -> Do("fun2", stop, "track")
         [] num[1] = 0 /\ num[3] = 1 -> Do("fun2", Go("forward_left"), "lineLeft")
         [] num[3] = 0 /\ num[1] = 1 -> Do("fun2", Go("forward_right"), "lineRight")
         [] num[1] = num[3] /\ num # <<0, 0, 0>> ->
              Do("fun2", Heading("forward"), "track")
  /\ UNCHANGED <<disWarning, turnVars, irVars, clientVars>>

(* The inner loops of trackModeWork: until the middle sensor leaves the     *)
(* line, or tracking is disabled.                                          *)
FollowLine(label, manoeuvre) ==
  /\ At("fun2", label)
  /\ \E num \in SensorReadings :
       IF num[2] = 1 /\ carstate["trackenable"]
         THEN Do("fun2", Heading(manoeuvre), label)
         ELSE Do("fun2", <<>>, "track")
  /\ UNCHANGED <<disWarning, turnVars, irVars, clientVars>>

AvoidTest == /\ At("fun2", "avoidTest")
             /\ Do("fun2", <<>>, IF carstate["autoAvoid"] THEN "avoid" ELSE "ir")
             /\ UNCHANGED <<disWarning, turnVars, irVars, clientVars>>

AvoidExit == /\ At("fun2", "avoid") /\ ~carstate["autoAvoid"]
             /\ Do("fun2", stop, "ir")
             /\ UNCHANGED <<disWarning, turnVars, irVars, clientVars>>

MustTurn == disWarning \/ turnLeftFlag \/ turnBackFlag

AvoidForward == /\ At("fun2", "avoid") /\ carstate["autoAvoid"] /\ ~MustTurn
                /\ Do("fun2", Go("forward"), "avoid")
                /\ UNCHANGED <<disWarning, turnVars, irVars, clientVars>>

Phases == {"now", "back", "left", "over"}

(* What turn() leaves in its three flags after it has seen that much time.  *)
turnFlagAfter_RestartsClock(phase) == FALSE
turnFlagAfter(phase) == phase # "over"
turnBackFlagAfter_NotReset(phase) == turnBackFlag \/ phase = "back"
turnBackFlagAfter(phase) == phase # "over" /\ (turnBackFlag \/ phase = "back")
turnLeftFlagAfter(phase) == phase # "over" /\ (turnLeftFlag \/ phase = "left")

(* turn(): back for 500 ms, then left for 500 ms, then stop.  A turn that   *)
(* starts reads the time twice, in the same microsecond or however later   *)
(* fun2 is scheduled again.                                                *)
AvoidTurn ==
  /\ At("fun2", "avoid") /\ carstate["autoAvoid"] /\ MustTurn
  /\ \E phase \in IF turnFlag THEN {turnPhase} ELSE Phases :
       /\ turnPhase' = phase
       /\ turnFlag' = turnFlagAfter(phase)
       /\ turnBackFlag' = turnBackFlagAfter(phase)
       /\ turnLeftFlag' = turnLeftFlagAfter(phase)
       /\ Do("fun2", CASE phase = "now"  -> <<>>
                       [] phase = "back" -> Go("back")
                       [] phase = "left" -> Go("left")
                       [] phase = "over" -> stop, "avoid")
  /\ UNCHANGED <<disWarning, irVars, clientVars>>

IrPoll == /\ At("fun2", "ir")
          /\ done' = FALSE
          /\ IF done THEN Do("fun2", IR_updateCarState(irCode), "irMotion")
                     ELSE Do("fun2", <<>>, "loop")
          /\ UNCHANGED <<disWarning, turnVars, irCode, clientVars>>

IrMotion == /\ At("fun2", "irMotion")
            /\ Do("fun2", IR_updateCarMotion, "loop")
            /\ UNCHANGED <<disWarning, turnVars, irVars, clientVars>>

(***************************************************************************)
(* The surroundings: the obstacle, the clock, the IR receiver's interrupt  *)
(* (getIR, which also reports the previous frame again), and the end of    *)
(* the program.                                                            *)
(***************************************************************************)
Surroundings == <<carstate, disWarning, clientVars, drive, threadVars>>

Obstacle == /\ alive
            /\ near' \in Obstacles \ {near}
            /\ UNCHANGED <<Surroundings, turnVars, irVars, alive>>

Tick == /\ alive /\ turnFlag /\ turnPhase # "over"
        /\ turnPhase' = CASE turnPhase = "now" -> "back"
                          [] turnPhase = "back" -> "left"
                          [] turnPhase = "left" -> "over"
        /\ UNCHANGED <<Surroundings, turnFlag, turnLeftFlag, turnBackFlag, irVars, near, alive>>

getIR == /\ alive
         /\ done' = TRUE
         /\ irCode' \in IrCodes
         /\ UNCHANGED <<Surroundings, turnVars, near, alive>>

(* The system shuts down after "sudo poweroff", or the user confirms ^C.    *)
Exit == /\ alive
        /\ poweroffFlag \/ "SIGINT" \in Signals
        /\ alive' = FALSE
        /\ UNCHANGED <<Surroundings, turnVars, irVars, near>>

-------------------------------------------------------------------------------
mainSteps == Execute("main") \/ Listen \/ Motion \/ (client = "error" /\ Hangup)
fun1Steps == Execute("fun1") \/ Measure \/ Warned
fun2Steps == \/ Execute("fun2")
             \/ TrackTest("loop") \/ TrackTest("track") \/ Sense
             \/ FollowLine("lineLeft", "forward_left")
             \/ FollowLine("lineRight", "forward_right")
             \/ AvoidTest \/ AvoidExit \/ AvoidForward \/ AvoidTurn
             \/ IrPoll \/ IrMotion
clientSteps == Accept \/ ReadApp \/ ReadScratch \/ Hangup

Next == \/ mainSteps \/ clientSteps
        \/ fun1Steps
        \/ fun2Steps
        \/ Obstacle \/ Tick \/ getIR \/ Exit

(* Each thread is scheduled again and again, and time passes.  Clients,     *)
(* obstacles and the remote owe us nothing.                                *)
Spec == /\ Init /\ [][Next]_vars
        /\ WF_vars(mainSteps) /\ WF_vars(fun1Steps) /\ WF_vars(fun2Steps)
        /\ WF_vars(Tick)
-------------------------------------------------------------------------------
Op == [op : {"set"}, field : Field, value : BOOLEAN]
        \cup [op : {"run"}, motor : Motor, cmd : {F, B, R}]
        \cup [op : {"when"}, field : LowByte, name : LowByte]

(* Every variable has its type.                                             *)
TypeOK ==
  /\ carstate \in [Field -> BOOLEAN]
  /\ {disWarning, turnFlag, turnLeftFlag, turnBackFlag, done, client_Connected,
      poweroffFlag, near, alive} \subseteq BOOLEAN
  /\ turnPhase \in Phases
  /\ irCode \in IrCodes \cup {0}
  /\ client \in {"none", "peer", "error"}
  /\ drive \in [Motor -> {F, B, R}]
  /\ pc["main"] \in {"listen", "accept", "read", "motion"}
  /\ pc["fun1"] \in {"measure", "warned"}
  /\ pc["fun2"] \in {"loop", "track", "sense", "lineLeft", "lineRight", "avoidTest",
                     "avoid", "ir", "irMotion"}
  /\ \A t \in Thread : /\ \A k \in DOMAIN code[t] : code[t][k] \in Op
                       /\ reg[t] \in {NotLoaded} \cup [LowByte -> BOOLEAN]
                                       \cup [HighByte -> BOOLEAN]

Stopped == \A m \in Motor : drive[m] = R
Driving(name) == \A k \in 1 .. 4 : drive[Go(name)[k].motor] = Go(name)[k].cmd
Quiet == alive /\ pc["main"] \in {"accept", "read"} /\ code["main"] = <<>>
Last(via, bytes) == alive /\ lastCmd.via = via /\ lastCmd.byte \in bytes

(* The car stands still while it waits for a client: the loop top of main   *)
(* releases the motors, and nothing that only obeys a client drives then.  *)
WaitingMeansStopped == At("main", "accept") => Stopped

(* Without tracking and remote the car stands whenever main is idle and its *)
(* client has said nothing yet, or stop last: avoidance is off, and fun2,   *)
(* which may still be driving, ends with a stop of its own.                *)
StopIsDone ==
  Quiet /\ (lastCmd.via = "none" \/ Last("app", {5}) \/ Last("scratch", {5})) =>
    /\ ~carstate["autoAvoid"]
    /\ pc["fun2"] = "avoid" \/ code["fun2"] # <<>> \/ Stopped

(* Case 5 of both command handlers ("stop"): if it is the last thing the    *)
(* client says, the car comes to a stop and stays there.                   *)
StopObeyed == <>[](Last("app", {5}) \/ Last("scratch", {5})) => <>[]Stopped

(* A car without a remote whose client is gone for good stops for good,     *)
(* even in the middle of avoidance, unless he left it while it tracked:     *)
(* clearFlag does not clear trackenable, so the car goes on following its  *)
(* line, and one that is just leaving trackModeWork may be driven by it.   *)
DisconnectStops ==
  IrCodes = {} /\ <>[](client # "peer" /\ lastCmd.via # "tracking") => <>[]Stopped

(* fun1: a car that drives forward by command stops at a lasting obstacle.  *)
ObstacleStops ==
  <>[](disWarning /\ carstate["forward"] /\ ~carstate["autoAvoid"] /\ Quiet) => <>[]Stopped

(* avoidance() and turn(): once the obstacle is gone for good the car ends  *)
(* its turn and drives forward.                                            *)
AvoidanceResumes ==
  <>[](carstate["autoAvoid"] /\ ~carstate["trackenable"] /\ ~near /\ Quiet)
     => <>[]Driving("forward")

(* Avoidance never gets stuck in a turn, whatever the obstacle does.        *)
TurnEnds == <>[](carstate["autoAvoid"] /\ ~carstate["trackenable"])
              => []<>(~turnLeftFlag /\ ~turnBackFlag)

(* An inner loop of trackModeWork ends although tracking is on: the middle  *)
(* sensor has left the line.                                               *)
LosesLine == /\ pc["fun2"] \in {"lineLeft", "lineRight"} /\ pc'["fun2"] = "track"
             /\ carstate["trackenable"]

(* trackModeWork: a car that follows a line stops at a lasting obstacle,    *)
(* provided that the middle sensor is not off the line again and again:     *)
(* the two turns onto the line begin without a look at disWarning, so a car *)
(* that sees the line only with an outer sensor drives on regardless.      *)
TrackingStops ==
  <>[](disWarning /\ InTrackMode /\ Quiet) /\ <>[][~LosesLine]_vars => <>[]Stopped

(* The stop button of the IR remote: pressing it again and again does stop  *)
(* the car once main has nothing to do, for then no assignment of fun2 to   *)
(* the direction bits is lost any more (a single press may be).            *)
IrStopObeyedAgain == <>[](irCode \in IR_stop /\ Quiet) /\ []<>done => <>[]Stopped
===============================================================================
