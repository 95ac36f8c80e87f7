-------------------------- MODULE MCMetricsRounds --------------------------
(***************************************************************************)
(* Instances of MetricsRounds for TLC.                                     *)
(***************************************************************************)
EXTENDS MetricsRounds, TLC

CONSTANTS t1, t2, l1, l2, r1, r2

\* One interface, or gauge, suffices for t2.
LabelsDef == [t \in Target |-> IF t = t1 THEN {l1, l2} ELSE {l1}]
=============================================================================
