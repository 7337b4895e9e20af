----------------------------- MODULE MCCarControl -----------------------------
(***************************************************************************)
(* Instances of CarControl for TLC.                                        *)
(***************************************************************************)
EXTENDS CarControl

(* What the line sensors read: anything, at every look.                     *)
AnyReading == [1 .. 3 -> {0, 1}]

(* The buttons of the IR remote.                                            *)
UpAndStop == {\h18e7, \h1ce3}
===============================================================================
