------------------------- MODULE SubnetRanges_proofs -------------------------
(***************************************************************************)
(* The address ranges that createSubnetAndIPRange reserves: that they are  *)
(* the right ones, for networks and addresses of any size, that posting    *)
(* them one by one is a refinement of VMHosts, and that no failure, and no *)
(* other process, leaves MAAS an address that the request keeps.           *)
(***************************************************************************)
EXTENDS SubnetRanges, VMHosts_proofs

\* The parts of an address.
LEMMA Parts ==
    ASSUME NEW addr \in Address, NEW size \in Nat \ {0}
    PROVE  /\ HostPart(addr, size) \in 0 .. size - 1
           /\ NetworkOf(addr, size) \in Int
           /\ addr = NetworkOf(addr, size) + HostPart(addr, size)
           /\ NetworkOf(addr, size) >= 0
  <1>1. addr \in Nat BY AddressAssumption DEF Address
  <1>2. HostPart(addr, size) \in 0 .. size - 1 BY <1>1 DEF HostPart
  <1>3. HostPart(addr, size) <= addr BY <1>1 DEF HostPart
  <1>4. QED BY <1>1, <1>2, <1>3 DEF NetworkOf

\* No step of the arithmetic leaves the addresses, so none wraps.
LEMMA NoWrap ==
    ASSUME NEW n \in 0 .. Modulus - 1
    PROVE  Wrap(n) = n
  BY AddressAssumption DEF Wrap

\* The addresses of some ranges.
Addresses(ranges) == UNION {r[1] .. r[2] : r \in ranges}

\* The range from lo to hi, if there is one.
Between(lo, hi) == IF lo <= hi THEN {<<lo, hi>>} ELSE {}

LEMMA BetweenAddresses ==
    ASSUME NEW lo \in Int, NEW hi \in Int
    PROVE  Addresses(Between(lo, hi)) = lo .. hi
  <1>1. CASE lo <= hi
    <2>1. \A r \in {<<lo, hi>>} : r[1] .. r[2] = lo .. hi OBVIOUS
    <2>2. {r[1] .. r[2] : r \in {<<lo, hi>>}} = {lo .. hi} BY <2>1
    <2>3. QED BY <1>1, <2>2 DEF Addresses, Between
  <1>2. CASE ~(lo <= hi)
    <2>1. Between(lo, hi) = {} /\ lo .. hi = {} BY <1>2 DEF Between
    <2>2. QED BY <2>1 DEF Addresses
  <1>3. QED BY <1>1, <1>2

\* The addresses of two sets of ranges.
LEMMA UnionAddresses == \A R, S : Addresses(R \cup S) = Addresses(R) \cup Addresses(S)
  BY Zenon DEF Addresses

\* The range before a first address: none at the start of the network.
LEMMA BeforeIs ==
    ASSUME NEW start \in Address, NEW size \in Nat \ {0}, Fits(start, size)
    PROVE  Before(start, size) =
             Between(NetworkOf(start, size) + 1, start - 1)
  <1>1. start # NoAddress /\ start \in Int BY AddressAssumption DEF Address
  <1>2. /\ HostPart(start, size) \in 0 .. size - 1 /\ NetworkOf(start, size) \in Int
        /\ start = NetworkOf(start, size) + HostPart(start, size)
        /\ NetworkOf(start, size) >= 0
    BY Parts
  <1>3. CASE 1 < HostPart(start, size)
    <2>1. /\ NetworkOf(start, size) + 1 \in 0 .. Modulus - 1
          /\ start - 1 \in 0 .. Modulus - 1
      BY <1>1, <1>2, <1>3, AddressAssumption DEF Fits, Address
    <2>2. /\ Wrap(NetworkOf(start, size) + 1) = NetworkOf(start, size) + 1
          /\ Wrap(start - 1) = start - 1
      BY <2>1, NoWrap
    <2>3. NetworkOf(start, size) + 1 < start BY <1>2, <1>3
    <2>4. QED BY <1>1, <1>2, <1>3, <2>2, <2>3 DEF Before, Between
  <1>4. CASE ~(1 < HostPart(start, size))
    <2>1. ~(NetworkOf(start, size) + 1 < start) BY <1>2, <1>4
    <2>2. QED BY <1>1, <1>2, <1>4, <2>1 DEF Before, Between
  <1>5. QED BY <1>3, <1>4

\* The range after a last address: none at the end of the network.
LEMMA AfterIs ==
    ASSUME NEW end \in Address, NEW size \in Nat \ {0}, Fits(end, size)
    PROVE  After(end, size) =
             Between(end + 1, NetworkOf(end, size) + size - 2)
  <1>1. end # NoAddress /\ end \in Int BY AddressAssumption DEF Address
  <1>2. /\ HostPart(end, size) \in 0 .. size - 1 /\ NetworkOf(end, size) \in Int
        /\ end = NetworkOf(end, size) + HostPart(end, size)
        /\ NetworkOf(end, size) >= 0
    BY Parts
  <1>3. OrMask(end, size) < Modulus - 2 <=> end < NetworkOf(end, size) + size - 2
    BY <1>2, AddressAssumption DEF OrMask
  <1>4. CASE end < NetworkOf(end, size) + size - 2
    <2>1. /\ end + 1 \in 0 .. Modulus - 1
          /\ NetworkOf(end, size) + size - 1 - 1 \in 0 .. Modulus - 1
      BY <1>1, <1>2, <1>4, AddressAssumption DEF Fits, Address
    <2>2. /\ Wrap(end + 1) = end + 1
          /\ Wrap(NetworkOf(end, size) + size - 1 - 1) = NetworkOf(end, size) + size - 1 - 1
      BY <2>1, NoWrap
    <2>3. NetworkOf(end, size) + size - 1 - 1 = NetworkOf(end, size) + size - 2 BY <1>2
    <2>4. QED BY <1>1, <1>2, <1>3, <1>4, <2>2, <2>3 DEF After, Between
  <1>5. CASE ~(end < NetworkOf(end, size) + size - 2) BY <1>1, <1>2, <1>3, <1>5 DEF After, Between
  <1>6. QED BY <1>4, <1>5

LEMMA RestIsCovered ==
    ASSUME NEW size \in Nat \ {0}, NEW start, NEW end, RangeOf(start, end, size)
    PROVE  IsRest(start, end, size)
  <1> USE AddressAssumption
  <1>1. CASE end = NoAddress
    <2> DEFINE net == NetworkOf(start, size)
    <2>1. start \in Address /\ start # NoAddress /\ Fits(start, size) BY <1>1 DEF RangeOf
    <2>2. ReverseIPAddressRange(start, end, size) = Between(net + 1, start - 1)
      BY <1>1, <2>1, BeforeIs DEF ReverseIPAddressRange, After
    <2>3. net \in Int /\ start \in Int /\ start <= net + size - 1 /\ net <= start
      BY <2>1, Parts DEF Address
    <2>4. {a \in Usable(start, size) : ~Kept(a, start, end)} = net + 1 .. start - 1
      BY <1>1, <2>1, <2>3 DEF Usable, Kept
    <2> HIDE DEF net
    <2>5. Addresses(ReverseIPAddressRange(start, end, size)) = net + 1 .. start - 1
      <3>1. net + 1 \in Int /\ start - 1 \in Int BY <2>3
      <3>2. Addresses(Between(net + 1, start - 1)) = net + 1 .. start - 1
        BY <3>1, BetweenAddresses
      <3>3. QED BY <2>2, <3>2
    <2>6. /\ \A r \in ReverseIPAddressRange(start, end, size) : r[1] <= r[2]
          /\ \A r, s \in ReverseIPAddressRange(start, end, size) : r = s
      BY <2>2, <2>3 DEF Between
    <2>7. QED BY <2>1, <2>4, <2>5, <2>6 DEF IsRest, Rest, Addresses
  <1>2. CASE start = NoAddress
    <2> DEFINE net == NetworkOf(end, size)
    <2>1. end \in Address /\ end # NoAddress /\ Fits(end, size) BY <1>2 DEF RangeOf
    <2>2. ReverseIPAddressRange(start, end, size) = Between(end + 1, net + size - 2)
      BY <1>2, <2>1, AfterIs DEF ReverseIPAddressRange, Before
    <2>3. net \in Int /\ end \in Int /\ net <= end BY <2>1, Parts DEF Address
    <2>4. {a \in Usable(end, size) : ~Kept(a, start, end)} = end + 1 .. net + size - 2
      BY <1>2, <2>1, <2>3 DEF Usable, Kept
    <2> HIDE DEF net
    <2>5. Addresses(ReverseIPAddressRange(start, end, size)) = end + 1 .. net + size - 2
      <3>1. end + 1 \in Int /\ net + size - 2 \in Int BY <2>3
      <3>2. Addresses(Between(end + 1, net + size - 2)) = end + 1 .. net + size - 2
        BY <3>1, BetweenAddresses
      <3>3. QED BY <2>2, <3>2
    <2>6. /\ \A r \in ReverseIPAddressRange(start, end, size) : r[1] <= r[2]
          /\ \A r, s \in ReverseIPAddressRange(start, end, size) : r = s
      BY <2>2, <2>3 DEF Between
    <2>7. QED BY <1>2, <2>1, <2>4, <2>5, <2>6 DEF IsRest, Rest, Addresses
  <1>3. CASE start # NoAddress /\ end # NoAddress
    <2> DEFINE net == NetworkOf(start, size)
               low == Between(net + 1, start - 1)
               high == Between(end + 1, net + size - 2)
    <2>1. /\ start \in Address /\ end \in Address /\ start <= end
          /\ Fits(start, size) /\ Fits(end, size) /\ NetworkOf(end, size) = net
      BY <1>3 DEF RangeOf
    <2>2. ReverseIPAddressRange(start, end, size) = low \cup high
      BY <2>1, BeforeIs, AfterIs DEF ReverseIPAddressRange
    <2>3. /\ net \in Int /\ start \in Int /\ end \in Int
          /\ net <= start /\ end <= net + size - 1
      BY <2>1, Parts DEF Address
    <2>4. \A a : a \in Usable(start, size) /\ ~Kept(a, start, end)
                   <=> a \in net + 1 .. start - 1 \/ a \in end + 1 .. net + size - 2
      BY <1>3, <2>1, <2>3 DEF Usable, Kept
    <2> HIDE DEF net
    <2>5. Addresses(low) = net + 1 .. start - 1 BY <2>3, BetweenAddresses
    <2>6. Addresses(high) = end + 1 .. net + size - 2 BY <2>3, BetweenAddresses
    <2>7. Addresses(low \cup high)
            = {a \in Usable(start, size) : ~Kept(a, start, end)}
      <3> HIDE DEF low, high
      <3>1. Addresses(low \cup high) = (net + 1 .. start - 1) \cup (end + 1 .. net + size - 2)
        <4>1. Addresses(low \cup high) = Addresses(low) \cup Addresses(high)
          BY UnionAddresses, Zenon
        <4>2. QED BY <4>1, <2>5, <2>6
      <3>2. {a \in Usable(start, size) : ~Kept(a, start, end)}
              = (net + 1 .. start - 1) \cup (end + 1 .. net + size - 2)
        BY <2>4
      <3>3. QED BY <3>1, <3>2
    <2>8. \A r \in low \cup high : r[1] <= r[2] BY <2>3 DEF Between
    <2>9. \A r, s \in low \cup high : r # s => (r[1] .. r[2]) \cap (s[1] .. s[2]) = {}
      <3>1. \A r \in low, s \in high : (r[1] .. r[2]) \cap (s[1] .. s[2]) = {}
        BY <2>1, <2>3 DEF Between
      <3>2. (\A r, s \in low : r = s) /\ (\A r, s \in high : r = s) BY DEF Between
      <3> HIDE DEF low, high
      <3>3. QED BY <3>1, <3>2
    <2>10. QED BY <1>3, <2>2, <2>7, <2>8, <2>9 DEF IsRest, Rest, Addresses
  <1>4. QED BY <1>1, <1>2, <1>3

\* For networks of any size and addresses of any width, not only the powers of two:
\* the ranges are exactly the usable addresses that the request does not keep, none is
\* empty, no two overlap and no subtraction or addition wraps.
THEOREM RangesAreRest ==
    \A size \in Nat \ {0}, start, end \in Address \cup {NoAddress} :
        RangeOf(start, end, size) => IsRest(start, end, size)
  BY RestIsCovered

-----------------------------------------------------------------------------
USE DEF maasVars

\* What is posted of a subnet's ranges, by the state of the subnet.
PostedInv ==
    /\ reserved \in [Cidr -> SUBSET UNION {Ranges(n) : n \in Cidr}]
    /\ \A n \in Cidr : /\ reserved[n] \subseteq Ranges(n)
                       /\ subnet[n] = "none" => reserved[n] = {}
                       /\ subnet[n] = "ranged" => reserved[n] = Ranges(n)

\* The ranges of the first and of the last bound are the ones there are.
LEMMA NextIsOne == \A n : NextPost(n) \subseteq Ranges(n)
  BY DEF NextPost, FirstRange, LastRange, Ranges, ReverseIPAddressRange

\* A step besides PostRange makes new subnets only, and makes them bare.
LEMMA OtherSubnets ==
    ASSUME VTypeOK, OtherStep, NEW n \in Cidr
    PROVE  subnet'[n] = subnet[n] \/ (subnet[n] = "none" /\ subnet'[n] = "bare")
  <1>1. ASSUME NEW c \in Call, Handler(c) PROVE subnet' = subnet
    BY <1>1 DEF Handler, BeginCompose, Compose, RegisterJob, VMDelete, OsDeploy, BeginRelease,
                DeleteHost, Unsubscribe, ReleaseMachine
  <1>2. ASSUME NEW s \in System, Worker(s) \/ Expire(s) \/ Commissioned(s) PROVE subnet' = subnet
    BY <1>2 DEF Worker, WorkerStarts, Compose, Poll, GetInterfaces, Disconnect, Link, Linked,
                MarkBroken, Expire, Commissioned
  <1>3. ASSUME NEW p \in Proc, CreateSubnet(p)
        PROVE  subnet'[n] = subnet[n] \/ (subnet[n] = "none" /\ subnet'[n] = "bare")
    BY <1>3 DEF CreateSubnet, Calls, Refused, VTypeOK
  <1>4. ASSUME NEW p \in Proc, OtherCall(p), ~CreateSubnet(p) PROVE subnet' = subnet
    BY <1>4 DEF OtherCall, SetupLxd, AddHost, Certificate, Refresh, ListSubnets, Network,
                LooksForVM, ComposeVM, CallFails
  <1>5. QED BY <1>1, <1>2, <1>3, <1>4 DEF OtherStep

\* A process that moves and does not make a subnet is at no new range.
LEMMA RangeEntered ==
    ASSUME VTypeOK, OtherStep, NEW q \in Proc, pc'[q] = "range", ~CreateSubnet(q)
    PROVE  pc[q] = "range" /\ v'[q].at = v[q].at
  <1>a. Call \subseteq Proc /\ System \subseteq Proc BY DEF Proc
  <1>b. ASSUME NEW p \in Proc, Moves(p), pc'[p] # "range" PROVE pc[q] = "range" /\ v'[q].at = v[q].at
    BY <1>b DEF Moves
  <1>c. ASSUME NEW p \in Proc, NEW l \in Labels \ {"range"}, NEW w, NEW made, Then(p, l, w, made)
        PROVE  pc[q] = "range" /\ v'[q].at = v[q].at
    <2>1. Leaves(p, l, w, made) BY <1>c, ThenMoves
    <2>2. Moves(p) /\ pc'[p] # "range" BY <2>1 DEF Leaves, Went
    <2>3. QED BY <2>2, <1>b
  <1>1. ASSUME NEW c \in Call, Handler(c) PROVE pc[q] = "range" /\ v'[q].at = v[q].at
    <2>1. CASE BeginCompose(c) \/ RegisterJob(c) \/ BeginRelease(c) \/ ReleaseMachine(c)
      <3>1. Moves(c) /\ pc'[c] # "range"
        BY <2>1, <1>a DEF BeginCompose, Compose, RegisterJob, BeginRelease, ReleaseMachine, Exits,
                          Goto, Moves, VTypeOK
      <3>2. QED BY <3>1, <1>a, <1>b
    <2>2. CASE VMDelete(c) \/ OsDeploy(c) BY <2>2 DEF VMDelete, OsDeploy
    <2>3. CASE DeleteHost(c)
      <3>1. v'[q] = [v[q] EXCEPT !.holds = FALSE] /\ v[q] \in Locals
        BY <2>3 DEF DeleteHost, VTypeOK
      <3>2. pc[q] = "range" BY <2>3, <1>a DEF DeleteHost, Calls, Goto, VTypeOK
      <3>3. QED BY <3>1, <3>2, UpdateTypes
    <2>4. CASE Unsubscribe(c) BY <2>4, <1>a, <1>c DEF Unsubscribe, Labels, ReleasePC
    <2>5. QED BY <1>1, <2>1, <2>2, <2>3, <2>4 DEF Handler
  <1>2. ASSUME NEW p \in Proc, OtherCall(p) PROVE pc[q] = "range" /\ v'[q].at = v[q].at
    <2>1. CASE SetupLxd(p) \/ Certificate(p) \/ Refresh(p) \/ ComposeVM(p)
      <3>1. PICK l \in {"addHost", "refresh", "list", Composed(p)} : \E w, made : Then(p, l, w, made)
        BY <2>1 DEF SetupLxd, Certificate, Refresh, ComposeVM
      <3>2. l \in Labels \ {"range"} BY DEF Composed, Labels, ComposePC, FlowPC
      <3>3. QED BY <3>1, <3>2, <1>c
    <2>2. CASE AddHost(p) \/ ListSubnets(p) \/ Network(p) \/ LooksForVM(p)
      <3>1. Moves(p) /\ pc'[p] # "range"
        BY <2>2 DEF AddHost, ListSubnets, Network, LooksForVM, Composed, Exits, Goto, Moves, VTypeOK
      <3>2. QED BY <3>1, <1>b
    <2>3. CASE CallFails(p)
      <3>1. Moves(p) /\ pc'[p] # "range" BY <2>3, ErrorMoves DEF CallFails
      <3>2. QED BY <3>1, <1>b
    <2>4. CASE CreateSubnet(p)
      <3>1. Leaves(p, "range", v[p], {v[p].at}) BY <2>4, ThenMoves DEF CreateSubnet
      <3>2. QED BY <2>4, <3>1 DEF Leaves, Moves
    <2>5. QED BY <1>2, <2>1, <2>2, <2>3, <2>4 DEF OtherCall
  <1>3. ASSUME NEW s \in System, Worker(s) \/ Expire(s) \/ Commissioned(s)
        PROVE  pc[q] = "range" /\ v'[q].at = v[q].at
    <2>1. CASE Expire(s) \/ Commissioned(s) BY <2>1 DEF Expire, Commissioned
    <2>2. CASE WorkerStarts(s) \/ Poll(s) \/ GetInterfaces(s) \/ Linked(s) \/ MarkBroken(s)
      <3>1. Moves(s) /\ pc'[s] # "range"
        BY <2>2, <1>a DEF WorkerStarts, Compose, Poll, GetInterfaces, Linked, MarkBroken, Exits,
                          Goto, Moves, VTypeOK
      <3>2. QED BY <3>1, <1>a, <1>b
    <2>3. CASE Disconnect(s) BY <2>3, <1>a, <1>c DEF Disconnect, Labels, FlowPC
    <2>4. CASE Link(s) BY <2>4, <1>a, <1>c DEF Link, Labels, FlowPC
    <2>5. QED BY <1>3, <2>1, <2>2, <2>3, <2>4 DEF Worker
  <1>4. QED BY <1>1, <1>2, <1>3 DEF OtherStep

\* The processes at a range have made its subnet, each one of its own.
Makers ==
    /\ \A p \in Proc : pc[p] = "range" => subnet[v[p].at] = "bare"
    /\ \A p, q \in Proc : pc[p] = "range" /\ pc[q] = "range" /\ p # q => v[p].at # v[q].at

LEMMA OtherMakers ==
    ASSUME VTypeOK, Makers, OtherStep
    PROVE  Makers'
  <1>1. \A p \in Proc : pc'[p] = "range" => v[p].at \in Cidr /\ v'[p].at \in Cidr
    <2>1. ASSUME NEW p \in Proc, pc'[p] = "range" PROVE v[p].at \in Cidr /\ v'[p].at = v[p].at
      <3>1. CASE CreateSubnet(p)
        <4>1. Leaves(p, "range", v[p], {v[p].at}) BY <3>1, ThenMoves DEF CreateSubnet
        <4>2. pc[p] = "subnet" /\ v'[p] = v[p]
          BY <2>1, <3>1, <4>1 DEF CreateSubnet, Calls, Leaves, Went
        <4>3. QED BY <4>2 DEF VTypeOK, Locals
      <3>2. CASE ~CreateSubnet(p)
        <4>1. pc[p] = "range" /\ v'[p].at = v[p].at BY <2>1, <3>2, RangeEntered
        <4>2. QED BY <4>1 DEF VTypeOK, Locals
      <3>3. QED BY <3>1, <3>2
    <2>2. QED BY <2>1
  <1>2. ASSUME NEW p \in Proc, pc'[p] = "range", CreateSubnet(p)
        PROVE  /\ v'[p].at = v[p].at /\ subnet[v[p].at] = "none" /\ subnet'[v[p].at] = "bare"
               /\ \A q \in Proc \ {p} : pc'[q] = pc[q] /\ v'[q] = v[q]
    <2>1. Leaves(p, "range", v[p], {v[p].at}) BY <1>2, ThenMoves DEF CreateSubnet
    <2>2. v'[p] = v[p] BY <1>2, <2>1 DEF Leaves, Went
    <2>3. subnet[v[p].at] = "none" BY <1>2 DEF CreateSubnet, Calls, Refused
    <2>4. subnet'[v[p].at] = "bare" BY <1>1, <1>2 DEF CreateSubnet, VTypeOK
    <2>5. QED BY <2>1, <2>2, <2>3, <2>4 DEF Leaves, Moves
  <1>3. ASSUME NEW p \in Proc, pc'[p] = "range" PROVE subnet'[v'[p].at] = "bare"
    <2>1. CASE CreateSubnet(p) BY <1>2, <1>3, <2>1
    <2>2. CASE ~CreateSubnet(p)
      <3>1. pc[p] = "range" /\ v'[p].at = v[p].at /\ v[p].at \in Cidr
        BY <1>1, <1>3, <2>2, RangeEntered
      <3>2. subnet[v[p].at] = "bare" BY <3>1 DEF Makers
      <3>3. PICK n \in Cidr : n = v[p].at BY <3>1
      <3>4. subnet'[n] = "bare" BY <3>2, <3>3, OtherSubnets
      <3>5. QED BY <3>1, <3>3, <3>4
    <2>3. QED BY <2>1, <2>2
  <1>4. ASSUME NEW p \in Proc, NEW q \in Proc, pc'[p] = "range", pc'[q] = "range", p # q
        PROVE  v'[p].at # v'[q].at
    <2>1. CASE CreateSubnet(p)
      <3>1. pc[q] = "range" /\ v'[q] = v[q] BY <1>2, <1>4, <2>1
      <3>2. QED BY <1>2, <1>4, <2>1, <3>1 DEF Makers
    <2>2. CASE CreateSubnet(q)
      <3>1. pc[p] = "range" /\ v'[p] = v[p] BY <1>2, <1>4, <2>2
      <3>2. QED BY <1>2, <1>4, <2>2, <3>1 DEF Makers
    <2>3. CASE ~CreateSubnet(p) /\ ~CreateSubnet(q)
      <3>1. pc[p] = "range" /\ v'[p].at = v[p].at BY <1>4, <2>3, RangeEntered
      <3>2. pc[q] = "range" /\ v'[q].at = v[q].at BY <1>4, <2>3, RangeEntered
      <3>3. QED BY <1>4, <3>1, <3>2 DEF Makers
    <2>4. QED BY <2>1, <2>2, <2>3
  <1>5. QED BY <1>3, <1>4 DEF Makers

\* A POST is nothing that VMHosts sees, an error on the way, or the one that makes the
\* subnet complete.
LEMMA PostIs ==
    ASSUME VTypeOK, PostedInv, Makers, NEW p \in Proc, PostRange(p)
    PROVE  /\ UNCHANGED vmVars \/ CallFails(p) \/ CreateRanges(p)
           /\ PostedInv'
  <1>a. pc[p] = "range" /\ v[p].at \in Cidr
    BY DEF PostRange, VTypeOK, Locals
  <1>1. PICK n \in Cidr : n = v[p].at
    BY <1>a
  <1>b. subnet[n] = "bare"
    BY <1>a, <1>1 DEF Makers
  <1>2. subnet \in [Cidr -> {"none", "bare", "ranged"}]
    BY DEF VTypeOK
  <1>3. CASE ToPost(n) = {} /\ CreateRanges(p) /\ UNCHANGED reserved
    <2>1. reserved[n] = Ranges(n)
      BY <1>1, <1>3 DEF ToPost, PostedInv
    <2>2. subnet' = [subnet EXCEPT ![n] = "ranged"]
      BY <1>1, <1>3 DEF CreateRanges
    <2>3. QED BY <1>1, <1>2, <1>3, <2>1, <2>2 DEF PostedInv, Ranges
  <1>4. ASSUME NEW r \in NextPost(n) \cap ToPost(n),
               reserved' = [reserved EXCEPT ![n] = @ \cup {r}],
               IF ToPost(n) = {r} THEN CreateRanges(p)
               ELSE \/ UNCHANGED vmVars
                    \/ /\ "lost" \in Faults /\ Error(p)
                       /\ abandoned' = abandoned \cup {n}
                       /\ UNCHANGED maasVars
        PROVE  /\ UNCHANGED vmVars \/ CallFails(p) \/ CreateRanges(p)
               /\ PostedInv'
    <2>1. /\ r \in Ranges(n) /\ r \notin reserved[n]
          /\ reserved'[n] = reserved[n] \cup {r} /\ reserved'[n] \subseteq Ranges(n)
          /\ \A m \in Cidr \ {n} : reserved'[m] = reserved[m]
          /\ reserved' \in [Cidr -> SUBSET UNION {Ranges(m) : m \in Cidr}]
      BY <1>1, <1>4 DEF ToPost, PostedInv
    <2>2. CASE ToPost(n) = {r} /\ CreateRanges(p)
      <3>1. reserved'[n] = Ranges(n)
        BY <1>1, <2>1, <2>2 DEF ToPost, PostedInv
      <3>2. subnet' = [subnet EXCEPT ![n] = "ranged"]
        BY <1>1, <2>2 DEF CreateRanges
      <3>3. QED BY <1>1, <1>2, <2>1, <2>2, <3>1, <3>2 DEF PostedInv, Ranges
    <2>3. CASE subnet' = subnet
      <3>2. PostedInv'
        BY <1>1, <1>b, <2>1, <2>3 DEF PostedInv, Ranges
      <3>3. CASE UNCHANGED vmVars BY <3>2, <3>3
      <3>4. CASE "lost" \in Faults /\ Error(p) /\ abandoned' = abandoned \cup {n}
                 /\ UNCHANGED maasVars
        <4>1. HalfDone(p) = {n} BY <1>a, <1>1 DEF HalfDone
        <4>2. CallFails(p) BY <1>a, <3>4, <4>1 DEF CallFails, ComposePC
        <4>3. QED BY <3>2, <4>2
      <3>5. CASE CreateRanges(p) BY <3>2, <3>5
      <3>6. QED BY <1>4, <3>3, <3>4, <3>5
    <2>4. QED BY <1>4, <2>2, <2>3 DEF vmVars
  <1>5. QED BY <1>1, <1>3, <1>4 DEF PostRange

LEMMA PostMakers ==
    ASSUME VTypeOK, Makers, NEW p \in Proc, pc[p] = "range",
           UNCHANGED vmVars \/ CallFails(p) \/ CreateRanges(p)
    PROVE  Makers'
  <1>1. CASE UNCHANGED vmVars BY <1>1 DEF vmVars, Makers
  <1>2. CASE CallFails(p)
    <2>1. Moves(p) /\ pc'[p] # "range" /\ subnet' = subnet
      BY <1>2, ErrorMoves DEF CallFails
    <2>2. QED BY <2>1 DEF Makers, Moves
  <1>3. CASE CreateRanges(p)
    <2>1. PICK w, made : Then(p, "network", w, made) BY <1>3 DEF CreateRanges
    <2>2. Moves(p) /\ pc'[p] # "range" BY <2>1, ThenMoves DEF Leaves, Went
    <2>3. \A n \in Cidr : n # v[p].at => subnet'[n] = subnet[n]
      BY <1>3 DEF CreateRanges, VTypeOK
    <2>4. \A q \in Proc : pc'[q] = "range" =>
             q # p /\ pc[q] = "range" /\ v'[q] = v[q] /\ v[q].at \in Cidr /\ v[q].at # v[p].at
      BY <2>2 DEF Moves, Makers, VTypeOK, Locals
    <2>5. QED BY <2>3, <2>4 DEF Makers
  <1>4. QED BY <1>1, <1>2, <1>3

RangesInv == VTypeOK /\ PostedInv /\ Makers

\* Each step is a step of VMHosts, or one that it does not see.
LEMMA RangesStep ==
    RangesInv /\ [RangesNext]_rangeVars => [VMNext]_vmVars /\ RangesInv'
  <1> SUFFICES ASSUME VTypeOK, PostedInv, Makers, [RangesNext]_rangeVars
               PROVE  [VMNext]_vmVars /\ RangesInv'
    BY DEF RangesInv
  <1>1. [VMNext]_vmVars /\ PostedInv' /\ Makers'
    <2>1. CASE OtherStep /\ UNCHANGED reserved
      <3>1. VMNext BY <2>1 DEF OtherStep, VMNext, Flow
      <3>2. PostedInv'
        <4>1. subnet \in [Cidr -> {"none", "bare", "ranged"}] BY DEF VTypeOK
        <4>2. \A n \in Cidr : subnet'[n] = subnet[n] \/ (subnet[n] = "none" /\ subnet'[n] = "bare")
          BY <2>1, OtherSubnets
        <4>3. QED BY <2>1, <4>1, <4>2 DEF PostedInv, Ranges
      <3>3. QED BY <2>1, <3>1, <3>2, OtherMakers
    <2>2. ASSUME NEW p \in Proc, PostRange(p) PROVE [VMNext]_vmVars /\ PostedInv' /\ Makers'
      <3>1. (UNCHANGED vmVars \/ CallFails(p) \/ CreateRanges(p)) /\ PostedInv'
        BY <2>2, PostIs
      <3>2. [VMNext]_vmVars BY <3>1 DEF VMNext, Flow, OtherCall
      <3>3. pc[p] = "range" BY <2>2 DEF PostRange
      <3>4. QED BY <3>1, <3>2, <3>3, PostMakers
    <2>3. CASE UNCHANGED rangeVars
      <3>1. UNCHANGED <<vmVars, reserved>> BY <2>3 DEF rangeVars
      <3>2. UNCHANGED <<subnet, pc, v>> BY <3>1 DEF vmVars
      <3>3. QED BY <3>1, <3>2 DEF PostedInv, Ranges, Makers
    <2>4. QED BY <2>1, <2>2, <2>3 DEF RangesNext
  <1>2. VTypeOK'
    <2>1. MaasOK' /\ ProcsOK' /\ JobsOK' /\ HistoryOK' BY <1>1, MaasStep, ProcsStep
    <2>2. QED
      BY <2>1 DEF VTypeOK, MaasOK, ProcsOK, JobsOK, HistoryOK, Labels, Results, Knowing
  <1>3. QED BY <1>1, <1>2 DEF RangesInv

LEMMA RangesStart == RangesInit => RangesInv
  <1> SUFFICES ASSUME VMInit, reserved = [n \in Cidr |-> {}] PROVE RangesInv
    BY DEF RangesInit
  <1>1. VTypeOK BY LocalsTypes DEF VMInit, VTypeOK, VmStatus, FlowPC
  <1>2. PostedInv BY DEF VMInit, PostedInv
  <1>3. Makers BY DEF VMInit, Makers
  <1>4. QED BY <1>1, <1>2, <1>3 DEF RangesInv

\* Posting the ranges one by one, with a failure or a lost answer between any two of
\* them, implements VMHosts, where it is one call: what is proved of VMHosts holds with
\* the ranges as well.
THEOREM RangesImplementVMHosts == RangesSpec => VMSpec
  <1>1. QED BY RangesStart, RangesStep, PTL DEF RangesSpec, RangesInit, VMSpec

\* No address that the request keeps is in a range, at any moment and whatever fails;
\* and a subnet that nobody is making and no failed call has left has all the ranges.
THEOREM RangesSpareKept == RangesSpec => []SubnetsKeepTheRange
  <1>1. RangesInv /\ HalfDoneIsOwned => SubnetsKeepTheRange
    <2> SUFFICES ASSUME VTypeOK, PostedInv, HalfDoneIsOwned, NEW n \in Cidr
                 PROVE  /\ Given(n) \subseteq RestOf(n)
                        /\ \A r \in reserved[n] : r[1] <= r[2]
                        /\ \A r, s \in reserved[n] : r # s => (r[1] .. r[2]) \cap (s[1] .. s[2]) = {}
                        /\ \/ subnet[n] = "none" \/ n \in abandoned
                           \/ \E p \in Proc : pc[p] = "range" /\ v[p].at = n
                           \/ Given(n) = RestOf(n)
      BY DEF RangesInv, SubnetsKeepTheRange
    <2>1. /\ Addresses(Ranges(n)) = RestOf(n)
          /\ \A r \in Ranges(n) : r[1] <= r[2]
          /\ \A r, s \in Ranges(n) : r # s => (r[1] .. r[2]) \cap (s[1] .. s[2]) = {}
      <3>1. CASE Asked[n].start = NoAddress /\ Asked[n].end = NoAddress
        <4>1. Ranges(n) = {} BY <3>1 DEF Ranges, ReverseIPAddressRange, Before, After
        <4>2. QED BY <3>1, <4>1 DEF RestOf, Addresses
      <3>2. CASE ~(Asked[n].start = NoAddress /\ Asked[n].end = NoAddress)
        <4>1. IsRest(Asked[n].start, Asked[n].end, Asked[n].size)
          BY <3>2, AskedAssumption, RestIsCovered
        <4>2. QED BY <3>2, <4>1 DEF IsRest, RestOf, Ranges, Addresses
      <3>3. QED BY <3>1, <3>2
    <2>2. reserved[n] \subseteq Ranges(n) /\ Given(n) = Addresses(reserved[n])
      BY DEF PostedInv, Given, Addresses
    <2>3. Given(n) \subseteq RestOf(n) BY <2>1, <2>2 DEF Addresses
    <2>4. \/ subnet[n] = "none" \/ n \in abandoned
          \/ \E p \in Proc : pc[p] = "range" /\ v[p].at = n
          \/ Given(n) = RestOf(n)
      <3>1. CASE subnet[n] = "bare"
        <4>1. n \in abandoned \cup UNION {HalfDone(p) : p \in Proc}
          BY <3>1 DEF HalfDoneIsOwned
        <4>2. \A p \in Proc : n \in HalfDone(p) => pc[p] = "range" /\ v[p].at = n
          BY VMAssumption DEF HalfDone
        <4>3. QED BY <4>1, <4>2
      <3>2. CASE subnet[n] = "ranged"
        <4>1. reserved[n] = Ranges(n) BY <3>2 DEF PostedInv
        <4>2. QED BY <2>1, <2>2, <4>1
      <3>3. QED BY <3>1, <3>2 DEF VTypeOK
    <2>5. QED BY <2>1, <2>2, <2>3, <2>4
  <1>2. RangesSpec => []RangesInv
    BY RangesStart, RangesStep, PTL DEF RangesSpec
  <1>3. QED BY <1>1, <1>2, RangesImplementVMHosts, HalfDoneOwned, PTL
=============================================================================
