-------------------------- MODULE MCMachineRegister --------------------------
(***************************************************************************)
(* Instances of MachineRegister for TLC.                                   *)
(***************************************************************************)
EXTENDS MachineRegister

CONSTANTS c1, c2, s1, s2, boot, nic, a, b

SystemOfDef == [r \in Request |-> r]
TypeOfDef == [r \in Request |-> "machine_register"]

\* MAAS links every interface to a.  The boot interface is to have b besides, any other
\* one b instead.
AskedDef == [i \in Iface |-> {b}]
\* The request does not name the boot interface.
AskedNicDef == [i \in Iface |-> IF i = boot THEN {} ELSE {b}]
\* The request asks for what MAAS links by itself.
AskedAutoDef == [i \in Iface |-> {a}]
AutoDef == [i \in Iface |-> {a}]
=============================================================================
