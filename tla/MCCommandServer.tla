---------------------------- MODULE MCCommandServer ----------------------------
(***************************************************************************)
(* Instance of CommandServer for TLC.                                      *)
(***************************************************************************)
EXTENDS CommandServer

(* One message of each kind but the commands of the app; 0 and 7 are such   *)
(* commands when a message is cut or joined, and 19 turns the car off.     *)
OneOfEach == {<<115, 0, 0, 7>>, <<99, 0, 0, 0, 0>>, <<118>>, <<255, 85, 19>>}
===============================================================================
