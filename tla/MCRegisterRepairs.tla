-------------------------- MODULE MCRegisterRepairs --------------------------
(***************************************************************************)
(* Instances of RegisterRepairs for TLC.                                   *)
(***************************************************************************)
EXTENDS RegisterRepairs, MCMachineRegister
=============================================================================
