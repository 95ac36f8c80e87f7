-------------------------- MODULE MCHostAddresses --------------------------
(***************************************************************************)
(* Instances of HostAddresses for TLC.                                     *)
(***************************************************************************)
EXTENDS HostAddresses, TLC

CONSTANTS o1, o2, h1, h2, n1, n2, s1, s2

\* Each host has one interface besides the boot interface.
HostDef == [i \in Nic |-> IF i = n1 THEN h1 ELSE h2]
\* Small subnets, so that they run out of addresses.
AddrDef == [s \in Subnet |-> IF s = s1 THEN {1, 2} ELSE {11, 12}]

Symmetry == Permutations(Op)
=============================================================================
