---------------------------- MODULE MCCdiMachine ----------------------------
(***************************************************************************)
(* Instances of CdiMachine for TLC.                                        *)
(***************************************************************************)
EXTENDS CdiMachine, TLC

CONSTANTS o1, o2, c1, c2
=============================================================================
