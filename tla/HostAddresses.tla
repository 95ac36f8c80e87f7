--------------------------- MODULE HostAddresses ---------------------------
(***************************************************************************)
(* Static addresses of deployed hosts: the handlers NetworkUpdate and      *)
(* OsRelease of canonical_maas_controller.go.                              *)
(*                                                                         *)
(* An address lives in three places: MAAS' reservations, the tags by which *)
(* an interface remembers what was given to it, and the host itself, where *)
(* Ansible configures it.  The handlers keep the three in step by a        *)
(* sequence of remote calls without a transaction, a lock or an undo; each *)
(* call is an action.                                                      *)
(***************************************************************************)
EXTENDS Naturals, FiniteSets

CONSTANTS
    Op,         \* handler goroutines
    Host, Nic,  \* hosts and their interfaces, the boot interfaces apart
    HostOf,     \* HostOf[i]: the host of interface i
    Subnet,
    AddrOf,     \* AddrOf[s]: the addresses of subnet s
    Fails,      \* the calls that may fail without an effect
    Lost,       \* the calls of which the answer may be lost
    Exclusive   \* whether clients have one operation at a time per host

Addr == UNION {AddrOf[s] : s \in Subnet}

UpdateCalls  == {"query", "reserve", "configure", "release", "untag", "tag"}
ReleaseCalls == {"machine", "interfaces", "ipRelease", "ipUntag"}
Calls == UpdateCalls \cup ReleaseCalls

ASSUME AddressAssumption ==
    /\ Nic # {} /\ Addr # {}
    /\ HostOf \in [Nic -> Host]
    /\ AddrOf \in [Subnet -> SUBSET Nat]
    /\ Fails \subseteq Calls /\ Lost \subseteq Calls
    /\ Exclusive \in BOOLEAN

VARIABLES
    reserved,  \* the addresses reserved in MAAS
    tags,      \* tags[i]: the addresses in the IP/prefix tags of interface i
    config,    \* config[i]: the static addresses interface i has on its host
    deployed,  \* the hosts that run an operating system
    pc,        \* pc[o]: the next call of handler o
    v          \* v[o]: the local variables of handler o

vars == <<reserved, tags, config, deployed, pc, v>>

-----------------------------------------------------------------------------
AnyHost == CHOOSE h \in Host : TRUE
AnyNic  == CHOOSE i \in Nic : TRUE
AnyAddr == CHOOSE a \in Addr : TRUE

\* host: in.SystemId.  ask, snap: of the interface groups not begun yet, the subnets
\* they ask for and the addresses in the tags of the interface list read at the start.
\* nic, subs, pick: the group at work, its subnets without an address, newIP.
\* new: newIPs, later those without a tag.  old, rel: the tags to remove, the addresses
\* to release.  todo: the tags OsRelease has still to go through.
Locals == [host : Host, ask : [Nic -> SUBSET Subnet], snap : [Nic -> SUBSET Addr],
           nic : Nic, subs : SUBSET Subnet, pick : Addr, new : SUBSET Addr,
           old : SUBSET Addr, rel : SUBSET Addr, todo : SUBSET (Nic \X Addr)]

NoLocals(h) ==
    [host |-> h, ask |-> [i \in Nic |-> {}], snap |-> [i \in Nic |-> {}], nic |-> AnyNic,
     subs |-> {}, pick |-> AnyAddr, new |-> {}, old |-> {}, rel |-> {}, todo |-> {}]

Busy(h) == \E o \in Op : pc[o] # "idle" /\ v[o].host = h
Admitted(o, h) == pc[o] = "idle" /\ (Exclusive => ~Busy(h))

Init ==
    /\ reserved = {}
    /\ tags = [i \in Nic |-> {}]
    /\ config = [i \in Nic |-> {}]
    /\ deployed = {}
    /\ pc = [o \in Op |-> "idle"]
    /\ v = [o \in Op |-> NoLocals(AnyHost)]

\* Handler o goes on with call l and locals w; back to its caller, they are dropped.
Goto(o, l, w) ==
    /\ pc' = [pc EXCEPT ![o] = l]
    /\ v' = [v EXCEPT ![o] = IF l = "idle" THEN NoLocals(AnyHost) ELSE w]

\* After a call that had its effect the handler goes on, or its answer was lost.
\* Every error ends the handler where it is: nothing is undone.
Done(o, l, w) ==
    \/ Goto(o, l, w)
    \/ pc[o] \in Lost /\ Goto(o, "idle", w)

Error(o) == Goto(o, "idle", v[o]) /\ UNCHANGED <<reserved, tags, config, deployed>>

CallFails(o) == pc[o] \in Fails /\ Error(o)

-----------------------------------------------------------------------------
\* NetworkUpdate: interfaces, subnets and access information are read, and the
\* request is grouped by interface, the boot interface left out.
BeginUpdate(o, h) ==
    /\ Admitted(o, h)
    /\ \E ask \in [Nic -> SUBSET Subnet] :
         /\ \E i \in Nic : ask[i] # {}
         /\ \A i \in Nic : ask[i] # {} => HostOf[i] = h
         /\ Goto(o, "group", [NoLocals(h) EXCEPT !.ask = ask,
                 !.snap = [i \in Nic |-> IF ask[i] = {} THEN {} ELSE tags[i]]])
    /\ UNCHANGED <<reserved, tags, config, deployed>>

\* The next interface group; after the last one the handler replies (a failure of the
\* cloud-init run before that changes only the reply).
Group(o) ==
    /\ pc[o] = "group"
    /\ \/ \E i \in Nic :
            /\ v[o].ask[i] # {}
            /\ Goto(o, "query", [v[o] EXCEPT !.ask[i] = {}, !.snap[i] = {}, !.nic = i,
                                             !.subs = v[o].ask[i], !.old = v[o].snap[i]])
       \/ (\A i \in Nic : v[o].ask[i] = {}) /\ Goto(o, "idle", v[o])
    /\ UNCHANGED <<reserved, tags, config, deployed>>

\* Mutant of Query: the list of ranges is not asked for its length.
Query_unchecked(o) ==
    /\ pc[o] = "query"
    /\ \E s \in v[o].subs :
         LET free == AddrOf[s] \ reserved IN
         /\ Goto(o, "reserve", [v[o] EXCEPT !.subs = @ \ {s},
                  !.pick = IF free = {} THEN 0 ELSE CHOOSE a \in free : \A b \in free : a <= b])
    /\ UNCHANGED <<reserved, tags, config, deployed>>

\* Step 4: the first unreserved address of the subnet, or the error that there is none.
Query(o) ==
    /\ pc[o] = "query"
    /\ \E s \in v[o].subs :
         LET free == AddrOf[s] \ reserved IN
         \/ \E a \in free :
              /\ \A b \in free : a <= b
              /\ Goto(o, "reserve", [v[o] EXCEPT !.subs = @ \ {s}, !.pick = a])
         \/ free = {} /\ Goto(o, "idle", v[o])
    /\ UNCHANGED <<reserved, tags, config, deployed>>

\* Mutant of Reserve: MAAS hands out an address that is already reserved.
Reserve_anyway(o) ==
    /\ pc[o] = "reserve"
    /\ reserved' = reserved \cup {v[o].pick}
    /\ Done(o, IF v[o].subs = {} THEN "configure" ELSE "query",
                  [v[o] EXCEPT !.new = @ \cup {v[o].pick}, !.pick = AnyAddr])
    /\ UNCHANGED <<tags, config, deployed>>

\* Step 5: MAAS refuses an address that another handler has reserved meanwhile.
Reserve(o) ==
    /\ pc[o] = "reserve"
    /\ \/ /\ v[o].pick \notin reserved
          /\ reserved' = reserved \cup {v[o].pick}
          /\ Done(o, IF v[o].subs = {} THEN "configure" ELSE "query",
                  [v[o] EXCEPT !.new = @ \cup {v[o].pick}, !.pick = AnyAddr])
       \/ /\ v[o].pick \in reserved
          /\ Goto(o, "idle", v[o])
          /\ UNCHANGED reserved
    /\ UNCHANGED <<tags, config, deployed>>

\* The next call of steps 7 and 8; the last one is the addition of a tag.
NextCall(w) == CASE w.rel # {} -> "release"
                 [] w.rel = {} /\ w.old # {} -> "untag"
                 [] OTHER -> "tag"
GoOn(o, w) == Done(o, NextCall(w), w)

\* Mutant of Configure: the new addresses are taken for old ones as well.
Configure_releaseAll(o) ==
    /\ pc[o] = "configure"
    /\ v[o].host \in deployed
    /\ config' = [config EXCEPT ![v[o].nic] = v[o].new]
    /\ GoOn(o, [v[o] EXCEPT !.rel = v[o].old \cup v[o].new])
    /\ UNCHANGED <<reserved, tags, deployed>>

\* Step 6: one playbook sets the new addresses; it cannot reach a host that is not
\* deployed.
Configure(o) ==
    /\ pc[o] = "configure"
    /\ \/ /\ v[o].host \in deployed
          /\ config' = [config EXCEPT ![v[o].nic] = v[o].new]
          /\ GoOn(o, [v[o] EXCEPT !.rel = v[o].old \ v[o].new])
       \/ /\ v[o].host \notin deployed
          /\ Goto(o, "idle", v[o])
          /\ UNCHANGED config
    /\ UNCHANGED <<reserved, tags, deployed>>

\* MAAS releases address a, whoever has it; one that is not reserved is an error.
Release(o, a, l, w) ==
    \/ a \in reserved /\ reserved' = reserved \ {a} /\ Done(o, l, w)
    \/ a \notin reserved /\ UNCHANGED reserved /\ Goto(o, "idle", w)

\* Step 7.
ReleaseOld(o) ==
    /\ pc[o] = "release"
    /\ \E a \in v[o].rel :
         LET w == [v[o] EXCEPT !.rel = @ \ {a}] IN Release(o, a, NextCall(w), w)
    /\ UNCHANGED <<tags, config, deployed>>

\* Mutant of RemoveTags: the old tags stay.
RemoveTags_none(o) ==
    /\ pc[o] = "untag"
    /\ GoOn(o, [v[o] EXCEPT !.old = {}])
    /\ UNCHANGED <<reserved, tags, config, deployed>>

\* Step 8, first half.
RemoveTags(o) ==
    /\ pc[o] = "untag"
    /\ \E a \in v[o].old :
         /\ tags' = [tags EXCEPT ![v[o].nic] = @ \ {a}]
         /\ GoOn(o, [v[o] EXCEPT !.old = @ \ {a}])
    /\ UNCHANGED <<reserved, config, deployed>>

\* Mutant of AddTags: only the first of the new addresses is tagged.
AddTags_first(o) ==
    /\ pc[o] = "tag"
    /\ \E a \in v[o].new :
         /\ tags' = [tags EXCEPT ![v[o].nic] = @ \cup {a}]
         /\ Done(o, "group", [v[o] EXCEPT !.new = {}, !.nic = AnyNic])
    /\ UNCHANGED <<reserved, config, deployed>>

\* Step 8, second half; after it comes the next interface group.
AddTags(o) ==
    /\ pc[o] = "tag"
    /\ \E a \in v[o].new :
         /\ tags' = [tags EXCEPT ![v[o].nic] = @ \cup {a}]
         /\ IF v[o].new = {a} THEN Done(o, "group", [v[o] EXCEPT !.new = {}, !.nic = AnyNic])
                              ELSE Done(o, "tag", [v[o] EXCEPT !.new = @ \ {a}])
    /\ UNCHANGED <<reserved, config, deployed>>

-----------------------------------------------------------------------------
\* OsRelease, up to the release of the machine.
BeginRelease(o, h) ==
    /\ Admitted(o, h)
    /\ Goto(o, "machine", NoLocals(h))
    /\ UNCHANGED <<reserved, tags, config, deployed>>

\* op-release, or success at once for a machine that is released already: the host
\* and with it its configuration are erased.
ReleaseMachine(o) ==
    /\ pc[o] = "machine"
    /\ deployed' = deployed \ {v[o].host}
    /\ config' = [i \in Nic |-> IF HostOf[i] = v[o].host THEN {} ELSE config[i]]
    /\ Done(o, "interfaces", v[o])
    /\ UNCHANGED <<reserved, tags>>

\* Mutant of GetInterfaces: the tags of every host are gone through.
GetInterfaces_all(o) ==
    LET todo == {p \in Nic \X Addr : p[2] \in tags[p[1]]} IN
    /\ pc[o] = "interfaces"
    /\ Goto(o, IF todo = {} THEN "idle" ELSE "ipRelease", [v[o] EXCEPT !.todo = todo])
    /\ UNCHANGED <<reserved, tags, config, deployed>>

\* The tags the loop will go through.
GetInterfaces(o) ==
    LET todo == {p \in Nic \X Addr : HostOf[p[1]] = v[o].host /\ p[2] \in tags[p[1]]} IN
    /\ pc[o] = "interfaces"
    /\ Goto(o, IF todo = {} THEN "idle" ELSE "ipRelease", [v[o] EXCEPT !.todo = todo])
    /\ UNCHANGED <<reserved, tags, config, deployed>>

\* Tag by tag: the address is released first ...
ReleaseTagged(o) ==
    /\ pc[o] = "ipRelease"
    /\ \E p \in v[o].todo :
         Release(o, p[2], "ipUntag", [v[o] EXCEPT !.todo = @ \ {p}, !.nic = p[1], !.pick = p[2]])
    /\ UNCHANGED <<tags, config, deployed>>

\* Mutant of RemoveTag: the tag stays.
RemoveTag_none(o) ==
    /\ pc[o] = "ipUntag"
    /\ Goto(o, IF v[o].todo = {} THEN "idle" ELSE "ipRelease",
            [v[o] EXCEPT !.nic = AnyNic, !.pick = AnyAddr])
    /\ UNCHANGED <<reserved, tags, config, deployed>>

\* ... and then its tag removed.
RemoveTag(o) ==
    /\ pc[o] = "ipUntag"
    /\ tags' = [tags EXCEPT ![v[o].nic] = @ \ {v[o].pick}]
    /\ Done(o, IF v[o].todo = {} THEN "idle" ELSE "ipRelease",
            [v[o] EXCEPT !.nic = AnyNic, !.pick = AnyAddr])
    /\ UNCHANGED <<reserved, config, deployed>>

\* OsDeploy, at the end of which MAAS runs a fresh system on the host.
OsDeploy(h) ==
    /\ h \notin deployed
    /\ Exclusive => ~Busy(h)
    /\ deployed' = deployed \cup {h}
    /\ UNCHANGED <<reserved, tags, config, pc, v>>

-----------------------------------------------------------------------------
Begin(o) == \E h \in Host : BeginUpdate(o, h) \/ BeginRelease(o, h)
Continue(o) ==
    \/ Group(o) \/ Query(o) \/ Reserve(o) \/ Configure(o)
    \/ ReleaseOld(o) \/ RemoveTags(o) \/ AddTags(o)
    \/ ReleaseMachine(o) \/ GetInterfaces(o) \/ ReleaseTagged(o) \/ RemoveTag(o)
    \/ CallFails(o)

Next ==
    \/ \E o \in Op : Begin(o) \/ Continue(o)
    \/ \E h \in Host : OsDeploy(h)

Spec == Init /\ [][Next]_vars

-----------------------------------------------------------------------------
\* Type invariant of the addresses and the handlers.
TypeOK ==
    /\ reserved \subseteq Addr
    /\ tags \in [Nic -> SUBSET Addr]
    /\ config \in [Nic -> SUBSET Addr]
    /\ deployed \subseteq Host
    /\ pc \in [Op -> {"idle", "group"} \cup Calls]
    /\ v \in [Op -> Locals]

\* No two interfaces are configured with the same address, however updates and
\* releases of different hosts interleave between query and reservation.
NoSharedAddress ==
    \A i, j \in Nic : i # j => config[i] \cap config[j] = {}

\* An address that a host uses is reserved in MAAS, so that MAAS gives it to no one
\* else, whatever call of whichever handler failed before.
ConfiguredIsReserved == \A i \in Nic : config[i] \subseteq reserved

\* Between the operations on its host, a tag never names an address that another
\* interface uses by now: the next update or release that goes through the tags
\* releases only what was given to its own host.
TagsPointHome ==
    \A i, j \in Nic : i # j /\ ~Busy(HostOf[i]) => tags[i] \cap config[j] = {}

\* An update that gets through an interface group leaves exactly the configured
\* addresses in the interface's tags, what earlier operations that failed half-way
\* have left there notwithstanding (NetworkUpdate, step 8).
UpdateTellsTags ==
    [][\A o \in Op : pc[o] = "tag" /\ pc'[o] = "group" =>
           tags'[v[o].nic] = config[v[o].nic]]_vars

\* "Release old IPs that are no longer assigned" (NetworkUpdate, step 7), and
\* likewise in OsRelease: an address that is released is configured nowhere.
ReleasesUnassigned ==
    [][\A a \in reserved \ reserved' : \A i \in Nic : a \notin config[i]]_vars

\* A tag of interface i whose address handler o has released, and which it is to remove.
Stale(o, i, a) ==
    /\ v[o].nic = i
    /\ \/ pc[o] \in {"release", "untag"} /\ a \in v[o].old \ v[o].rel
       \/ pc[o] = "ipUntag" /\ a = v[o].pick

\* A reservation that neither a handler nor a tag knows of, other than a tag about to
\* be removed, is never found again.  It is lost only when a handler ends with the
\* address still in its hands, so by a call that failed: no operation that gets
\* through loses a reservation, its own or another host's.
Forgotten(a) ==
    /\ a \in reserved
    /\ \A o \in Op : a \notin v[o].new
    /\ \A i \in Nic : a \in tags[i] => \E o \in Op : Stale(o, i, a)
Holds(o, a) == a \in v[o].new \/ (pc[o] = "reserve" /\ a = v[o].pick)
OnlyFailuresLeak ==
    [][\A a \in Addr : Forgotten(a)' /\ ~Forgotten(a)
                         => \E o \in Op : Holds(o, a) /\ pc'[o] = "idle"]_vars

\* MAAS' reservations and the hosts' configurations are a pool of addresses whatever
\* operations interleave: an interface gets reserved addresses that nobody uses, and
\* only unused ones are released.
Pool == INSTANCE AddressPool WITH taken <- reserved, use <- config
ImplementsPool == Pool!PoolSpec
=============================================================================
