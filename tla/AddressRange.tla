---------------------------- MODULE AddressRange ----------------------------
(***************************************************************************)
(* reverseIPAddressRange of canonical_maas_controller.go: the addresses of *)
(* a network that MAAS may give out by itself are the ones before and the  *)
(* ones after the range that a request keeps for its interfaces.           *)
(*                                                                         *)
(* An address is a number below Modulus (2^32 in the code, whose uint32    *)
(* arithmetic wraps around there).  A network of size addresses starts at  *)
(* a multiple of size; its prefix length stands for a size 2^k, and its    *)
(* mask's complement for size - 1.                                         *)
(***************************************************************************)
EXTENDS Integers

CONSTANTS
    Modulus,   \* the number of addresses
    NoAddress  \* no address, an empty string in the request

ASSUME AddressAssumption ==
    /\ Modulus \in Nat \ {0}
    /\ NoAddress \notin Int

Address == 0 .. Modulus - 1

\* addr & ^mask and addr & mask.
HostPart(addr, size)  == addr % size
NetworkOf(addr, size) == addr - HostPart(addr, size)

\* uint32 arithmetic.
Wrap(n) == n % Modulus

\* The range before the first address of the request, without the network's own.
Before(start, size) ==
    IF start # NoAddress /\ 1 < HostPart(start, size)
    THEN {<<Wrap(NetworkOf(start, size) + 1), Wrap(start - 1)>>}
    ELSE {}

\* addr | mask: the host part below a network part of ones.
OrMask(addr, size) == Modulus - size + HostPart(addr, size)

\* The range after its last address, without the broadcast address.
After(end, size) ==
    IF end # NoAddress /\ OrMask(end, size) < Modulus - 2
    THEN {<<Wrap(end + 1), Wrap(NetworkOf(end, size) + size - 1 - 1)>>}
    ELSE {}

\* What MAAS is asked to reserve, range by range.
ReverseIPAddressRange(start, end, size) == Before(start, size) \cup After(end, size)

-----------------------------------------------------------------------------
\* The addresses that a network has for hosts, and whether the request keeps one for
\* its interfaces; it names one of its two bounds at least.
Usable(addr, size)     == NetworkOf(addr, size) + 1 .. NetworkOf(addr, size) + size - 2
Kept(addr, start, end) == /\ start = NoAddress \/ start <= addr
                          /\ end = NoAddress \/ addr <= end

Rest(start, end, size) ==
    LET given == IF start = NoAddress THEN end ELSE start IN
    {a \in Usable(given, size) : ~Kept(a, start, end)}

\* The ranges are exactly the usable addresses that the request does not keep, none of
\* them is empty and no two overlap.
IsRest(start, end, size) ==
    LET ranges == ReverseIPAddressRange(start, end, size) IN
    /\ UNION {r[1] .. r[2] : r \in ranges} = Rest(start, end, size)
    /\ \A r \in ranges : r[1] <= r[2]
    /\ \A r, s \in ranges : r # s => (r[1] .. r[2]) \cap (s[1] .. s[2]) = {}

\* A range of one network, or one bound of it.  The addresses have room for the
\* network, as they have for those whose size divides their number.
Fits(addr, size) == NetworkOf(addr, size) + size <= Modulus
RangeOf(start, end, size) ==
    /\ start \in Address \cup {NoAddress} /\ end \in Address \cup {NoAddress}
    /\ start # NoAddress \/ end # NoAddress
    /\ start # NoAddress => Fits(start, size)
    /\ end # NoAddress => Fits(end, size)
    /\ start # NoAddress /\ end # NoAddress =>
           start <= end /\ NetworkOf(start, size) = NetworkOf(end, size)
=============================================================================
