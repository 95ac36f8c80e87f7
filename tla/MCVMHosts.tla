----------------------------- MODULE MCVMHosts -----------------------------
(***************************************************************************)
(* Instances of SubnetRanges, and with it of VMHosts, for TLC.             *)
(***************************************************************************)
EXTENDS SubnetRanges, TLC

CONSTANTS c1, v1, v2, n1, n2

\* The system IDs, with the workers of their jobs, are interchangeable.
Symmetry == Permutations(System)

\* In a network of sixteen addresses there is a range before the request's and one after;
\* in one of four the request keeps what is usable, and its last address is missing.
AskedDef == [n \in Cidr |-> IF n = n1 THEN [start |-> 5, end |-> 9, size |-> 16]
                                      ELSE [start |-> 13, end |-> NoAddress, size |-> 4]]
=============================================================================
