---------------------------- MODULE SubnetRanges ----------------------------
(***************************************************************************)
(* VMHosts with the address ranges of its subnets: createSubnetAndIPRange  *)
(* of canonical_maas_controller.go posts the ranges that AddressRange      *)
(* computes one by one, and a failure leaves the subnet with some of them. *)
(***************************************************************************)
EXTENDS VMHosts, AddressRange

CONSTANT
    Asked  \* Asked[n]: the first and the last address that the request keeps in
           \* network n, either may be missing, and the network's size

\* Bounds that lie in their network and are in order; the code checks neither.
ASSUME AskedAssumption ==
    \A n \in Cidr : /\ Asked[n].size \in Nat \ {0}
                    /\ \/ RangeOf(Asked[n].start, Asked[n].end, Asked[n].size)
                       \/ Asked[n].start = NoAddress /\ Asked[n].end = NoAddress

VARIABLE
    reserved  \* reserved[n]: the dynamic ranges that MAAS has in the subnet of n

rangeVars == <<vmVars, reserved>>

-----------------------------------------------------------------------------
FirstRange(n) == Before(Asked[n].start, Asked[n].size)
LastRange(n)  == After(Asked[n].end, Asked[n].size)
Ranges(n)     == ReverseIPAddressRange(Asked[n].start, Asked[n].end, Asked[n].size)

\* The loop over ipRanges of the process that made the subnet.
ToPost(n)   == Ranges(n) \ reserved[n]
NextPost(n) == IF FirstRange(n) \subseteq reserved[n] THEN LastRange(n) ELSE FirstRange(n)

\* Mutant of PostRange: the loop goes on after an error.
PostRange_ignored(p) ==
    LET n == v[p].at IN
    /\ pc[p] = "range"
    /\ \/ /\ ToPost(n) = {}
          /\ CreateRanges(p) /\ pc'[p] = "network"
          /\ UNCHANGED reserved
       \/ \E r \in NextPost(n) \cap ToPost(n) :
            /\ \/ reserved' = [reserved EXCEPT ![n] = @ \cup {r}]
               \/ "call" \in Faults /\ UNCHANGED reserved
            /\ IF ToPost(n) = {r} THEN CreateRanges(p) ELSE UNCHANGED vmVars

\* One POST; the one that is the last makes the subnet complete, also if its answer
\* is lost.  Without a range to post there is no call that could fail.
PostRange(p) ==
    LET n == v[p].at IN
    /\ pc[p] = "range"
    /\ \/ /\ ToPost(n) = {}
          /\ CreateRanges(p) /\ pc'[p] = "network"
          /\ UNCHANGED reserved
       \/ \E r \in NextPost(n) \cap ToPost(n) :
            /\ reserved' = [reserved EXCEPT ![n] = @ \cup {r}]
            /\ IF ToPost(n) = {r} THEN CreateRanges(p)
               ELSE \/ UNCHANGED vmVars
                    \/ /\ "lost" \in Faults /\ Error(p)
                       /\ abandoned' = abandoned \cup {n}
                       /\ UNCHANGED maasVars

\* Every other step of VMHosts.
OtherStep ==
    \/ \E c \in Call : Handler(c)
    \/ \E p \in Proc : OtherCall(p) /\ (CallFails(p) /\ pc[p] = "range" => ToPost(v[p].at) # {})
    \/ \E s \in System : Worker(s) \/ Expire(s) \/ Commissioned(s)

RangesNext == (OtherStep /\ UNCHANGED reserved) \/ \E p \in Proc : PostRange(p)

RangesInit == VMInit /\ reserved = [n \in Cidr |-> {}]
RangesSpec == RangesInit /\ [][RangesNext]_rangeVars

-----------------------------------------------------------------------------
\* The addresses in the ranges of network n, and the usable ones that the request does
\* not keep; a request without bounds leaves the network alone.
Given(n)  == UNION {r[1] .. r[2] : r \in reserved[n]}
RestOf(n) == IF Asked[n].start = NoAddress /\ Asked[n].end = NoAddress THEN {}
             ELSE Rest(Asked[n].start, Asked[n].end, Asked[n].size)

\* MAAS gives out by itself no address that a request keeps for its interfaces, also
\* from a subnet that is being made or was left half done; from any other subnet it
\* gives out every usable address besides, and each from one range only, whichever
\* process made the subnet and whichever calls failed on the way.  No range is empty.
SubnetsKeepTheRange ==
    \A n \in Cidr :
        /\ Given(n) \subseteq RestOf(n)
        /\ \A r \in reserved[n] : r[1] <= r[2]
        /\ \A r, s \in reserved[n] : r # s => (r[1] .. r[2]) \cap (s[1] .. s[2]) = {}
        /\ \/ subnet[n] = "none" \/ n \in abandoned
           \/ \E p \in Proc : pc[p] = "range" /\ v[p].at = n
           \/ Given(n) = RestOf(n)
=============================================================================
