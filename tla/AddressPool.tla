---------------------------- MODULE AddressPool ----------------------------
(***************************************************************************)
(* What NetworkUpdate and OsRelease promise of the static addresses: an    *)
(* interface uses addresses that are reserved for it alone, and only an    *)
(* address in nobody's use goes back to the pool.                          *)
(***************************************************************************)
CONSTANTS Nic, Addr

VARIABLES
    taken,  \* the addresses taken out of the pool
    use     \* use[i]: the addresses interface i uses

Init == taken = {} /\ use = [i \in Nic |-> {}]

\* An address leaves the pool.
Take(a) ==
    /\ a \notin taken
    /\ taken' = taken \cup {a}
    /\ UNCHANGED use

\* Interface i exchanges its addresses for ones that are taken and unused.
Assign(i, new) ==
    /\ new \subseteq taken
    /\ \A j \in Nic : new \cap use[j] = {}
    /\ use' = [use EXCEPT ![i] = new]
    /\ UNCHANGED taken

\* The host with the given interfaces is erased.
Erase(nics) ==
    /\ use' = [i \in Nic |-> IF i \in nics THEN {} ELSE use[i]]
    /\ UNCHANGED taken

\* An address that nobody uses goes back to the pool.
Give(a) ==
    /\ a \in taken
    /\ \A i \in Nic : a \notin use[i]
    /\ taken' = taken \ {a}
    /\ UNCHANGED use

Next ==
    \/ \E a \in Addr : Take(a) \/ Give(a)
    \/ \E i \in Nic, new \in SUBSET Addr : Assign(i, new)
    \/ \E nics \in SUBSET Nic : Erase(nics)

PoolSpec == Init /\ [][Next]_<<taken, use>>
=============================================================================
