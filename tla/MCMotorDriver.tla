---------------------------- MODULE MCMotorDriver -----------------------------
(***************************************************************************)
(* Instances of MotorDriver for TLC.                                       *)
(***************************************************************************)
EXTENDS MotorDriver

(* The board of motordriver.h: four motors on eight bits.                   *)
FourMotors == 1 .. 4
HeaderBitA == [m \in FourMotors |-> <<3, 4, 5, 0>>[m]]
HeaderBitB == [m \in FourMotors |-> <<2, 1, 7, 6>>[m]]
AllOrNothing == {{}, 0 .. Width - 1}

(* A small board, for the run with several threads.                         *)
OneMotor == {1}
OneBitA == [m \in OneMotor |-> 1]
OneBitB == [m \in OneMotor |-> 0]
Dark == {{}}
===============================================================================
