----------------------------- MODULE MCJobStore -----------------------------
(***************************************************************************)
(* Instances of JobStore for TLC.                                          *)
(***************************************************************************)
EXTENDS JobStore, TLC

CONSTANTS c1, c2, c3, r1, r2, r3

\* Two payloads of one type for one machine, and a join of the same machine.
SystemOfDef == [r \in Request |-> "sys1"]
TypeOfDef == [r \in Request |-> IF r = r3 THEN "kubeadm_join" ELSE "machine_register"]

Symmetry == Permutations(Call)
=============================================================================
