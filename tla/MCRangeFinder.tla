---------------------------- MODULE MCRangeFinder ----------------------------
(***************************************************************************)
(* Instance of RangeFinder for TLC.                                        *)
(***************************************************************************)
EXTENDS RangeFinder

(* Around the bounds of one and of two readings, no echo, and a clock that  *)
(* was set back.                                                           *)
EdgeDistances == {-60, 0, 25, 26, 50, 51}
===============================================================================
