------------------------ MODULE HostAddresses_proofs ------------------------
(***************************************************************************)
(* For any number of handlers, hosts, interfaces and addresses: if clients *)
(* have one operation at a time per host, and the calls that give an       *)
(* address or a tag back do not fail half-way (Benign), no two interfaces  *)
(* share an address, a configured address is reserved, only addresses in   *)
(* nobody's use are released, only handlers that fail leave a reservation  *)
(* behind, and HostAddresses implements AddressPool.                       *)
(***************************************************************************)
EXTENDS HostAddresses, TLAPS

-----------------------------------------------------------------------------
\* Type correctness.
Pcs == {"idle", "group"} \cup Calls

LEMMA CallNames ==
    Calls = {"query", "reserve", "configure", "release", "untag", "tag",
             "machine", "interfaces", "ipRelease", "ipUntag"}
  BY DEF Calls, UpdateCalls, ReleaseCalls

LEMMA AnyTypes == AnyHost \in Host /\ AnyNic \in Nic /\ AnyAddr \in Addr
  <1>1. AnyNic \in Nic /\ AnyAddr \in Addr
    BY AddressAssumption DEF AnyNic, AnyAddr
  <1>2. HostOf[AnyNic] \in Host
    BY <1>1, AddressAssumption
  <1>3. QED BY <1>1, <1>2 DEF AnyHost

LEMMA NoLocalsType == \A h \in Host : NoLocals(h) \in Locals
  BY AnyTypes DEF NoLocals, Locals

LEMMA Typed ==
    ASSUME TypeOK
    PROVE  /\ \A o \in Op : v[o] \in Locals
           /\ tags \in [Nic -> SUBSET Addr]
  BY DEF TypeOK

\* Whatever call a handler goes on with, its locals have their types.
LEMMA GotoTypes ==
    ASSUME TypeOK, NEW o \in Op, NEW l \in Pcs, NEW w \in Locals, Goto(o, l, w)
    PROVE  pc' \in [Op -> Pcs] /\ v' \in [Op -> Locals]
  BY NoLocalsType, AnyTypes DEF TypeOK, Goto, Pcs

LEMMA DoneTypes ==
    ASSUME TypeOK, NEW o \in Op, NEW l \in Pcs, NEW w \in Locals, Done(o, l, w)
    PROVE  pc' \in [Op -> Pcs] /\ v' \in [Op -> Locals]
  BY GotoTypes DEF Done, Pcs

LEMMA NextCallType == \A w \in Locals : NextCall(w) \in {"release", "untag", "tag"}
  BY DEF NextCall

LEMMA TypeStep == TypeOK /\ [Next]_vars => TypeOK'
  <1> SUFFICES ASSUME TypeOK, [Next]_vars PROVE TypeOK'
    OBVIOUS
  <1> DEFINE HandlerOK == pc' \in [Op -> Pcs] /\ v' \in [Op -> Locals]
  <1> USE CallNames DEF Pcs
  <1>1. ASSUME NEW o \in Op, NEW h \in Host, BeginUpdate(o, h) PROVE TypeOK'
    <2>1. PICK ask \in [Nic -> SUBSET Subnet] :
            Goto(o, "group", [NoLocals(h) EXCEPT !.ask = ask,
                 !.snap = [i \in Nic |-> IF ask[i] = {} THEN {} ELSE tags[i]]])
      BY <1>1 DEF BeginUpdate
    <2>2. [NoLocals(h) EXCEPT !.ask = ask,
                 !.snap = [i \in Nic |-> IF ask[i] = {} THEN {} ELSE tags[i]]] \in Locals
      <3>1. NoLocals(h) \in Locals BY NoLocalsType
      <3>2. [i \in Nic |-> IF ask[i] = {} THEN {} ELSE tags[i]] \in [Nic -> SUBSET Addr]
        BY Typed
      <3>3. QED BY <3>1, <3>2 DEF Locals
    <2>3. HandlerOK BY <2>1, <2>2, GotoTypes
    <2>4. QED BY <1>1, <2>3 DEF BeginUpdate, TypeOK
  <1>2. ASSUME NEW o \in Op, NEW h \in Host, BeginRelease(o, h) PROVE TypeOK'
    <2>1. HandlerOK BY <1>2, GotoTypes, NoLocalsType DEF BeginRelease
    <2>2. QED BY <1>2, <2>1 DEF BeginRelease, TypeOK
  <1>3. ASSUME NEW o \in Op, Group(o) PROVE TypeOK'
    <2>1. ASSUME NEW i \in Nic,
                 Goto(o, "query", [v[o] EXCEPT !.ask[i] = {}, !.snap[i] = {}, !.nic = i,
                                             !.subs = v[o].ask[i], !.old = v[o].snap[i]])
          PROVE  HandlerOK
      <3>1. [v[o] EXCEPT !.ask[i] = {}, !.snap[i] = {}, !.nic = i,
                         !.subs = v[o].ask[i], !.old = v[o].snap[i]] \in Locals
        BY Typed DEF Locals
      <3>2. QED BY <2>1, <3>1, GotoTypes
    <2>2. ASSUME Goto(o, "idle", v[o]) PROVE HandlerOK
      BY <2>2, GotoTypes, Typed
    <2>3. QED BY <1>3, <2>1, <2>2 DEF Group, TypeOK
  <1>4. ASSUME NEW o \in Op, Query(o) PROVE TypeOK'
    <2>1. CASE Goto(o, "idle", v[o])
      <3>1. HandlerOK BY <2>1, GotoTypes, Typed
      <3>2. QED BY <1>4, <3>1 DEF Query, TypeOK
    <2>2. ASSUME NEW s \in v[o].subs, NEW a \in AddrOf[s],
                 Goto(o, "reserve", [v[o] EXCEPT !.subs = @ \ {s}, !.pick = a])
          PROVE  TypeOK'
      <3>1. s \in Subnet /\ a \in Addr BY <2>2, Typed DEF Locals, Addr
      <3>2. [v[o] EXCEPT !.subs = @ \ {s}, !.pick = a] \in Locals
        BY <3>1, Typed DEF Locals
      <3>3. HandlerOK BY <2>2, <3>2, GotoTypes
      <3>4. QED BY <1>4, <3>3 DEF Query, TypeOK
    <2>3. QED BY <1>4, <2>1, <2>2 DEF Query
  <1>5. ASSUME NEW o \in Op, Reserve(o) PROVE TypeOK'
    <2> DEFINE w == [v[o] EXCEPT !.new = @ \cup {v[o].pick}, !.pick = AnyAddr]
    <2>1. w \in Locals /\ v[o] \in Locals /\ v[o].pick \in Addr
      BY AnyTypes, Typed DEF Locals
    <2>2. HandlerOK BY <1>5, <2>1, GotoTypes, DoneTypes DEF Reserve
    <2>3. QED BY <1>5, <2>1, <2>2 DEF Reserve, TypeOK
  <1>6. ASSUME NEW o \in Op, Configure(o) PROVE TypeOK'
    <2> DEFINE w == [v[o] EXCEPT !.rel = v[o].old \ v[o].new]
    <2>1. w \in Locals /\ v[o] \in Locals /\ v[o].new \subseteq Addr
      BY Typed DEF Locals
    <2>2. NextCall(w) \in Pcs BY <2>1, NextCallType
    <2>3. HandlerOK BY <1>6, <2>1, <2>2, GotoTypes, DoneTypes DEF Configure, GoOn
    <2>4. QED BY <1>6, <2>1, <2>3 DEF Configure, TypeOK
  <1>7. ASSUME NEW o \in Op, ReleaseOld(o) PROVE TypeOK'
    <2>1. PICK a \in v[o].rel :
            LET w == [v[o] EXCEPT !.rel = @ \ {a}] IN Release(o, a, NextCall(w), w)
      BY <1>7 DEF ReleaseOld
    <2> DEFINE w == [v[o] EXCEPT !.rel = @ \ {a}]
    <2>2. w \in Locals BY Typed DEF Locals
    <2>3. NextCall(w) \in Pcs BY <2>2, NextCallType
    <2>4. HandlerOK BY <2>1, <2>2, <2>3, GotoTypes, DoneTypes DEF Release
    <2>5. QED BY <1>7, <2>1, <2>4 DEF ReleaseOld, Release, TypeOK
  <1>8. ASSUME NEW o \in Op, RemoveTags(o) PROVE TypeOK'
    <2>1. PICK a \in v[o].old :
            /\ tags' = [tags EXCEPT ![v[o].nic] = @ \ {a}]
            /\ GoOn(o, [v[o] EXCEPT !.old = @ \ {a}])
      BY <1>8 DEF RemoveTags
    <2> DEFINE w == [v[o] EXCEPT !.old = @ \ {a}]
    <2>2. w \in Locals BY Typed DEF Locals
    <2>3. NextCall(w) \in Pcs BY <2>2, NextCallType
    <2>4. HandlerOK BY <2>1, <2>2, <2>3, DoneTypes DEF GoOn
    <2>5. QED BY <1>8, <2>1, <2>4 DEF RemoveTags, TypeOK
  <1>9. ASSUME NEW o \in Op, AddTags(o) PROVE TypeOK'
    <2>1. PICK a \in v[o].new :
            /\ tags' = [tags EXCEPT ![v[o].nic] = @ \cup {a}]
            /\ \/ Done(o, "group", [v[o] EXCEPT !.new = {}, !.nic = AnyNic])
               \/ Done(o, "tag", [v[o] EXCEPT !.new = @ \ {a}])
      BY <1>9 DEF AddTags
    <2>2. /\ [v[o] EXCEPT !.new = {}, !.nic = AnyNic] \in Locals
          /\ [v[o] EXCEPT !.new = @ \ {a}] \in Locals
          /\ a \in Addr
      BY AnyTypes, Typed DEF Locals
    <2>3. HandlerOK BY <2>1, <2>2, DoneTypes
    <2>4. QED BY <1>9, <2>1, <2>2, <2>3 DEF AddTags, TypeOK
  <1>10. ASSUME NEW o \in Op, ReleaseMachine(o) PROVE TypeOK'
    <2>1. HandlerOK BY <1>10, DoneTypes DEF ReleaseMachine, TypeOK
    <2>2. QED BY <1>10, <2>1 DEF ReleaseMachine, TypeOK
  <1>11. ASSUME NEW o \in Op, GetInterfaces(o) PROVE TypeOK'
    <2> DEFINE todo == {p \in Nic \X Addr : HostOf[p[1]] = v[o].host /\ p[2] \in tags[p[1]]}
    <2>1. [v[o] EXCEPT !.todo = todo] \in Locals
      BY Typed DEF Locals
    <2>2. HandlerOK BY <1>11, <2>1, GotoTypes DEF GetInterfaces
    <2>3. QED BY <1>11, <2>2 DEF GetInterfaces, TypeOK
  <1>12. ASSUME NEW o \in Op, ReleaseTagged(o) PROVE TypeOK'
    <2>1. PICK p \in v[o].todo :
         Release(o, p[2], "ipUntag", [v[o] EXCEPT !.todo = @ \ {p}, !.nic = p[1], !.pick = p[2]])
      BY <1>12 DEF ReleaseTagged
    <2>2. p[1] \in Nic /\ p[2] \in Addr BY Typed DEF Locals
    <2>3. [v[o] EXCEPT !.todo = @ \ {p}, !.nic = p[1], !.pick = p[2]] \in Locals
      BY <2>2, Typed DEF Locals
    <2>4. HandlerOK BY <2>1, <2>3, GotoTypes, DoneTypes DEF Release
    <2>5. QED BY <1>12, <2>1, <2>4 DEF ReleaseTagged, Release, TypeOK
  <1>13. ASSUME NEW o \in Op, RemoveTag(o) PROVE TypeOK'
    <2>1. [v[o] EXCEPT !.nic = AnyNic, !.pick = AnyAddr] \in Locals
      BY AnyTypes, Typed DEF Locals
    <2>2. HandlerOK BY <1>13, <2>1, DoneTypes DEF RemoveTag
    <2>3. QED BY <1>13, <2>2 DEF RemoveTag, TypeOK
  <1>14. ASSUME NEW o \in Op, CallFails(o) PROVE TypeOK'
    BY <1>14, GotoTypes DEF CallFails, Error, TypeOK
  <1>15. ASSUME NEW h \in Host, OsDeploy(h) PROVE TypeOK'
    BY <1>15 DEF OsDeploy, TypeOK
  <1>16. CASE UNCHANGED vars BY <1>16 DEF vars, TypeOK
  <1>17. QED
    BY <1>1, <1>2, <1>3, <1>4, <1>5, <1>6, <1>7, <1>8, <1>9, <1>10, <1>11, <1>12,
       <1>13, <1>14, <1>15, <1>16 DEF Next, Begin, Continue

\* Type correctness, whatever fails and however operations on one host overlap.
THEOREM AddressTypes == Spec => []TypeOK
  <1>1. Init => TypeOK
    BY NoLocalsType, AnyTypes DEF Init, TypeOK
  <1>2. QED BY <1>1, TypeStep, PTL DEF Spec

-----------------------------------------------------------------------------
\* The calls of which neither a failure nor a lost answer is covered: addresses_stale
\* shows what these do.
Benign ==
    /\ Exclusive
    /\ Fails \cap {"release", "untag", "ipUntag"} = {}
    /\ Lost \cap {"release", "untag", "ipRelease", "ipUntag"} = {}

Fresh  == {"query", "reserve", "configure"}
Update == Fresh \cup {"release", "untag", "tag"}
OnTag  == {"ipRelease", "ipUntag"}
Releasing == {"machine", "interfaces"} \cup OnTag

\* Handlers work on different hosts, each on its own interfaces.
OneEach ==
    \A o, p \in Op :
        o # p /\ pc[o] # "idle" /\ pc[p] # "idle" => v[o].host # v[p].host

OwnNicsOf(o) ==
    /\ pc[o] \in Update \cup {"ipUntag"} => HostOf[v[o].nic] = v[o].host
    /\ pc[o] \in Update => v[o].ask[v[o].nic] = {}
    /\ pc[o] \in Releasing => \A i \in Nic : v[o].ask[i] = {}
    /\ pc[o] # "idle" => \A i \in Nic : v[o].ask[i] # {} =>
           HostOf[i] = v[o].host /\ v[o].snap[i] = tags[i]

OwnNics == \A o \in Op : OwnNicsOf(o)

\* What belongs to interface i: its addresses, and those its other tags name.
Owns(i, a) ==
    \/ a \in config[i]
    \/ a \in tags[i] /\ \A o \in Op : ~Stale(o, i, a)

OwnedOnce == \A i, j \in Nic : \A a \in Addr : Owns(i, a) /\ Owns(j, a) => i = j
OwnedIsReserved == \A i \in Nic : \A a \in Addr : Owns(i, a) => a \in reserved

\* What a handler has reserved is its own until it configures it.
FreshOf(o) ==
    pc[o] \in Fresh =>
        /\ v[o].new \subseteq reserved
        /\ \A i \in Nic : \A a \in v[o].new : ~Owns(i, a)
        /\ \A p \in Op \ {o} : pc[p] \in Fresh => v[o].new \cap v[p].new = {}

FreshIsOwn == \A o \in Op : FreshOf(o)

\* How far handler o is with the interface at work.
ProgressOf(o) ==
    LET w == v[o] IN
    /\ pc[o] = "group" => w.new = {}
    /\ pc[o] \in Fresh => w.old = tags[w.nic]
    /\ pc[o] = "untag" => w.rel = {}
    /\ pc[o] \in {"release", "untag"} =>
           /\ tags[w.nic] = w.old /\ config[w.nic] = w.new
           /\ w.old \cap w.new = {} /\ w.rel \subseteq w.old
    /\ pc[o] = "tag" => tags[w.nic] \cup w.new = config[w.nic]
    /\ pc[o] \in OnTag => \A p \in w.todo : HostOf[p[1]] = w.host /\ p[2] \in tags[p[1]]
    /\ pc[o] \in OnTag \cup {"interfaces"} =>
           \A i \in Nic : HostOf[i] = w.host => config[i] = {}
    /\ pc[o] = "ipUntag" => <<w.nic, w.pick>> \notin w.todo /\ w.pick \in tags[w.nic]

Progress == \A o \in Op : ProgressOf(o)

AddressInv ==
    /\ TypeOK /\ OneEach /\ OwnNics
    /\ OwnedOnce /\ OwnedIsReserved /\ FreshIsOwn /\ Progress

-----------------------------------------------------------------------------
\* What a step of handler o leaves of the others, its host's interfaces apart.
Alone(o) ==
    /\ \A p \in Op \ {o} : pc'[p] = pc[p] /\ v'[p] = v[p]
    /\ pc'[o] # "idle" => v'[o].host = v[o].host
    /\ \A i \in Nic : HostOf[i] # v[o].host => tags'[i] = tags[i] /\ config'[i] = config[i]

\* Handlers on other hosts keep their part of the invariant.
LEMMA Frame ==
    ASSUME AddressInv, TypeOK', NEW o \in Op, pc[o] # "idle", Alone(o),
           OwnNicsOf(o)', ProgressOf(o)'
    PROVE  OneEach' /\ OwnNics' /\ Progress'
  <1> USE DEF AddressInv
  <1>1. OneEach'
    BY DEF OneEach, Alone
  <1>2. ASSUME NEW p \in Op \ {o} PROVE OwnNicsOf(p)' /\ ProgressOf(p)'
    <2>1. pc'[p] = pc[p] /\ v'[p] = v[p] BY DEF Alone
    <2>2. CASE pc[p] = "idle"
      BY <2>1, <2>2 DEF OwnNicsOf, ProgressOf, Update, Fresh, OnTag, Releasing
    <2>3. CASE pc[p] # "idle"
      <3>1. v[p].host # v[o].host BY <2>3 DEF OneEach
      <3>2. OwnNicsOf(p) /\ ProgressOf(p) BY DEF OwnNics, Progress
      <3>3. v[p] \in Locals BY Typed
      <3>4. OwnNicsOf(p)'
        BY <2>1, <3>1, <3>2 DEF OwnNicsOf, Alone
      <3>5. pc[p] \in Update \cup {"ipUntag"} =>
              /\ tags'[v[p].nic] = tags[v[p].nic]
              /\ config'[v[p].nic] = config[v[p].nic]
        BY <3>1, <3>2, <3>3 DEF OwnNicsOf, Alone, Locals
      <3>6. /\ \A i \in Nic : HostOf[i] = v[p].host => tags'[i] = tags[i] /\ config'[i] = config[i]
            /\ \A q \in v[p].todo : q[1] \in Nic
        BY <3>1, <3>3 DEF Alone, Locals
      <3>7. ProgressOf(p)'
        BY <2>1, <3>2, <3>5, <3>6 DEF ProgressOf, Update, Fresh, OnTag
      <3>8. QED BY <3>4, <3>7
    <2>4. QED BY <2>2, <2>3
  <1>3. QED BY <1>1, <1>2 DEF OwnNics, Progress

\* A step that gives nobody an address keeps the ownership.
LEMMA Ownership ==
    ASSUME AddressInv, TypeOK', NEW o \in Op, Alone(o), FreshOf(o)',
           \A i \in Nic : \A a \in Addr : Owns(i, a)' => Owns(i, a) /\ a \in reserved',
           \A p \in Op \ {o} : pc[p] \in Fresh => v[p].new \subseteq reserved'
    PROVE  OwnedOnce' /\ OwnedIsReserved' /\ FreshIsOwn'
  <1> USE DEF AddressInv
  <1>1. OwnedOnce' /\ OwnedIsReserved'
    BY DEF OwnedOnce, OwnedIsReserved
  <1>2. ASSUME NEW p \in Op \ {o} PROVE FreshOf(p)'
    <2>1. pc'[p] = pc[p] /\ v'[p] = v[p] /\ v[p].new \subseteq Addr
      BY Typed DEF Alone, Locals
    <2>2. SUFFICES ASSUME pc[p] \in Fresh
                   PROVE  /\ v[p].new \subseteq reserved'
                          /\ \A i \in Nic : \A a \in v[p].new : ~Owns(i, a)'
                          /\ \A q \in Op \ {p} : pc'[q] \in Fresh => v[p].new \cap v'[q].new = {}
      BY <2>1 DEF FreshOf
    <2>3. FreshOf(p) BY DEF FreshIsOwn
    <2>4. \A i \in Nic : \A a \in v[p].new : ~Owns(i, a)'
      BY <2>1, <2>2, <2>3 DEF FreshOf
    <2>5. ASSUME NEW q \in Op \ {p}, pc'[q] \in Fresh PROVE v[p].new \cap v'[q].new = {}
      BY <2>1, <2>2, <2>3, <2>5 DEF FreshOf, Alone
    <2>6. QED BY <2>2, <2>4, <2>5
  <1>3. QED BY <1>1, <1>2 DEF FreshIsOwn

\* A handler that is at work with an interface is the only one that is.
LEMMA WorksAlone ==
    ASSUME AddressInv, NEW o \in Op, NEW p \in Op \ {o}, NEW i \in Nic, NEW a,
           pc[o] # "idle", HostOf[i] = v[o].host
    PROVE  ~Stale(p, i, a)
  BY DEF AddressInv, OneEach, OwnNics, OwnNicsOf, Stale, Update

\* A step that takes no address back and by which no tag of a released address is
\* left behind.
LEMMA QuietStep ==
    ASSUME AddressInv, TypeOK', NEW o \in Op, pc[o] # "idle",
           reserved \subseteq reserved', Alone(o),
           \A i \in Nic : tags'[i] \subseteq tags[i] /\ config'[i] \subseteq config[i],
           \A i \in Nic : \A a \in tags'[i] : Stale(o, i, a) => Stale(o, i, a)',
           OwnNicsOf(o)', ProgressOf(o)', FreshOf(o)'
    PROVE  AddressInv'
  <1>1. ASSUME NEW i \in Nic, NEW a \in Addr, Owns(i, a)'
        PROVE  Owns(i, a) /\ a \in reserved'
    <2>1. \A p \in Op \ {o} : Stale(p, i, a)' <=> Stale(p, i, a)
      BY DEF Alone, Stale
    <2>2. Owns(i, a) BY <1>1, <2>1 DEF Owns
    <2>3. QED BY <2>2 DEF AddressInv, OwnedIsReserved
  <1>2. \A p \in Op \ {o} : pc[p] \in Fresh => v[p].new \subseteq reserved'
    BY DEF AddressInv, FreshIsOwn, FreshOf
  <1>3. QED BY <1>1, <1>2, Frame, Ownership DEF AddressInv

\* What Goto does.
LEMMA Goes ==
    ASSUME TypeOK, NEW o \in Op, NEW l, NEW w, Goto(o, l, w)
    PROVE  /\ \A p \in Op \ {o} : pc'[p] = pc[p] /\ v'[p] = v[p]
           /\ pc'[o] = l
           /\ l # "idle" => v'[o] = w
  BY DEF TypeOK, Goto

\* A handler that ends, not in the middle of giving an address back.
LEMMA EndStep ==
    ASSUME AddressInv, TypeOK', NEW o \in Op, NEW w, Goto(o, "idle", w),
           pc[o] \notin {"idle", "release", "untag", "ipUntag"},
           UNCHANGED <<tags, config>>, reserved \subseteq reserved'
    PROVE  AddressInv'
  <1>1. TypeOK BY DEF AddressInv
  <1>2. pc'[o] = "idle" /\ Alone(o)
    BY <1>1, Goes DEF Alone
  <1>3. OwnNicsOf(o)' /\ ProgressOf(o)' /\ FreshOf(o)'
    BY <1>2 DEF OwnNicsOf, ProgressOf, FreshOf, Update, Fresh, OnTag, Releasing
  <1>4. \A i \in Nic : \A a : ~Stale(o, i, a)
    BY DEF Stale
  <1>5. QED BY <1>2, <1>3, <1>4, QuietStep

\* A handler begins on a host that no other handler is busy with.
LEMMA BeginStep ==
    ASSUME AddressInv, TypeOK', Exclusive, NEW o \in Op, NEW h \in Host,
           BeginUpdate(o, h) \/ BeginRelease(o, h)
    PROVE  AddressInv'
  <1>1. TypeOK BY DEF AddressInv
  <1>2. /\ pc[o] = "idle" /\ UNCHANGED <<reserved, tags, config>>
        /\ \A p \in Op : pc[p] # "idle" => v[p].host # h
    BY DEF BeginUpdate, BeginRelease, Admitted, Busy
  <1>3. /\ \A p \in Op \ {o} : pc'[p] = pc[p] /\ v'[p] = v[p]
        /\ pc'[o] \in {"group", "machine"} /\ v'[o].host = h /\ v'[o].new = {}
        /\ pc'[o] = "machine" => \A i \in Nic : v'[o].ask[i] = {}
        /\ \A i \in Nic : v'[o].ask[i] # {} => HostOf[i] = h /\ v'[o].snap[i] = tags[i]
    <2>1. CASE BeginRelease(o, h)
      BY <1>1, <2>1, Goes DEF BeginRelease, NoLocals
    <2>2. CASE BeginUpdate(o, h)
      <3>1. PICK ask \in [Nic -> SUBSET Subnet] :
              /\ \A i \in Nic : ask[i] # {} => HostOf[i] = h
              /\ Goto(o, "group", [NoLocals(h) EXCEPT !.ask = ask,
                   !.snap = [i \in Nic |-> IF ask[i] = {} THEN {} ELSE tags[i]]])
        BY <2>2 DEF BeginUpdate
      <3>2. v'[o] = [NoLocals(h) EXCEPT !.ask = ask,
                   !.snap = [i \in Nic |-> IF ask[i] = {} THEN {} ELSE tags[i]]]
        BY <1>1, <3>1, Goes
      <3>3. /\ v'[o].host = h /\ v'[o].ask = ask /\ v'[o].new = {}
            /\ v'[o].snap = [i \in Nic |-> IF ask[i] = {} THEN {} ELSE tags[i]]
        BY <3>2 DEF NoLocals
      <3>4. QED BY <1>1, <3>1, <3>3, Goes
    <2>3. QED BY <2>1, <2>2
  <1>4. OneEach'
    BY <1>2, <1>3 DEF AddressInv, OneEach
  <1>5. OwnNics'
    BY <1>2, <1>3 DEF AddressInv, OwnNics, OwnNicsOf, Update, Fresh, Releasing, OnTag
  <1>6. Progress'
    BY <1>2, <1>3 DEF AddressInv, Progress, ProgressOf, Fresh, OnTag
  <1>7. \A p \in Op : \A i \in Nic : \A a : Stale(p, i, a)' <=> Stale(p, i, a)
    BY <1>2, <1>3 DEF Stale
  <1>8. \A i \in Nic : \A a : Owns(i, a)' <=> Owns(i, a)
    BY <1>2, <1>7 DEF Owns
  <1>9. OwnedOnce' /\ OwnedIsReserved'
    BY <1>2, <1>8 DEF AddressInv, OwnedOnce, OwnedIsReserved
  <1>10. FreshIsOwn'
    BY <1>2, <1>3, <1>8 DEF AddressInv, FreshIsOwn, FreshOf, Fresh
  <1>11. QED BY <1>4, <1>5, <1>6, <1>9, <1>10 DEF AddressInv

LEMMA GroupStep ==
    ASSUME AddressInv, TypeOK', NEW o \in Op, Group(o)
    PROVE  AddressInv'
  <1>1. TypeOK /\ v[o] \in Locals BY Typed DEF AddressInv
  <1>2. pc[o] = "group" /\ UNCHANGED <<reserved, tags, config>>
    BY DEF Group
  <1>3. CASE Goto(o, "idle", v[o])
    BY <1>2, <1>3, EndStep
  <1>4. ASSUME NEW i \in Nic, v[o].ask[i] # {},
               Goto(o, "query", [v[o] EXCEPT !.ask[i] = {}, !.snap[i] = {}, !.nic = i,
                                             !.subs = v[o].ask[i], !.old = v[o].snap[i]])
        PROVE  AddressInv'
    <2> DEFINE w == [v[o] EXCEPT !.ask[i] = {}, !.snap[i] = {}, !.nic = i,
                                 !.subs = v[o].ask[i], !.old = v[o].snap[i]]
    <2>1. /\ pc'[o] = "query" /\ v'[o] = w
          /\ \A p \in Op \ {o} : pc'[p] = pc[p] /\ v'[p] = v[p]
      BY <1>1, <1>4, Goes
    <2>2. /\ w.host = v[o].host /\ w.nic = i /\ w.old = v[o].snap[i] /\ w.new = v[o].new
          /\ w.ask[i] = {}
          /\ \A j \in Nic : w.ask[j] # {} => w.ask[j] = v[o].ask[j] /\ w.snap[j] = v[o].snap[j]
      BY <1>1 DEF Locals
    <2>3. OwnNicsOf(o) BY DEF AddressInv, OwnNics
    <2>4. OwnNicsOf(o)'
      BY <1>2, <1>4, <2>1, <2>2, <2>3 DEF OwnNicsOf, Releasing, OnTag
    <2>5. ProgressOf(o)'
      BY <1>2, <1>4, <2>1, <2>2, <2>3 DEF OwnNicsOf, ProgressOf, Fresh, OnTag
    <2>6. FreshOf(o)'
      <3>1. w.new = {} BY <1>2, <2>2 DEF AddressInv, Progress, ProgressOf
      <3>2. QED BY <2>1, <3>1 DEF FreshOf
    <2>7. Alone(o) BY <1>2, <2>1, <2>2 DEF Alone
    <2>8. QED BY <1>2, <2>4, <2>5, <2>6, <2>7, QuietStep DEF Stale
  <1>5. QED BY <1>3, <1>4 DEF Group

LEMMA QueryStep ==
    ASSUME AddressInv, TypeOK', NEW o \in Op, Query(o)
    PROVE  AddressInv'
  <1>1. TypeOK /\ v[o] \in Locals BY Typed DEF AddressInv
  <1>2. pc[o] = "query" /\ UNCHANGED <<reserved, tags, config>>
    BY DEF Query
  <1>3. CASE Goto(o, "idle", v[o])
    BY <1>2, <1>3, EndStep
  <1>4. ASSUME NEW s, NEW a,
               Goto(o, "reserve", [v[o] EXCEPT !.subs = @ \ {s}, !.pick = a])
        PROVE  AddressInv'
    <2> DEFINE w == [v[o] EXCEPT !.subs = @ \ {s}, !.pick = a]
    <2>1. /\ pc'[o] = "reserve" /\ v'[o] = w
          /\ \A p \in Op \ {o} : pc'[p] = pc[p] /\ v'[p] = v[p]
      BY <1>1, <1>4, Goes
    <2>2. /\ w.host = v[o].host /\ w.nic = v[o].nic /\ w.old = v[o].old
          /\ w.new = v[o].new /\ w.ask = v[o].ask /\ w.snap = v[o].snap
      BY <1>1 DEF Locals
    <2>3. OwnNicsOf(o) /\ ProgressOf(o) /\ FreshOf(o)
      BY DEF AddressInv, OwnNics, Progress, FreshIsOwn
    <2>4. OwnNicsOf(o)'
      BY <1>2, <2>1, <2>2, <2>3 DEF OwnNicsOf, Update, Fresh, Releasing, OnTag
    <2>5. ProgressOf(o)'
      BY <1>2, <2>1, <2>2, <2>3 DEF ProgressOf, Fresh, OnTag
    <2>6. \A p \in Op : \A i \in Nic : \A b : Stale(p, i, b)' <=> Stale(p, i, b)
      BY <1>2, <2>1 DEF Stale
    <2>7. FreshOf(o)'
      BY <1>2, <2>1, <2>2, <2>3, <2>6 DEF FreshOf, Owns, Fresh
    <2>8. Alone(o) BY <1>2, <2>1, <2>2 DEF Alone
    <2>9. QED BY <1>2, <2>4, <2>5, <2>6, <2>7, <2>8, QuietStep
  <1>5. QED BY <1>3, <1>4 DEF Query

\* The reserved address was nobody's.
LEMMA ReserveStep ==
    ASSUME AddressInv, TypeOK', NEW o \in Op, Reserve(o)
    PROVE  AddressInv'
  <1>1. TypeOK /\ v[o] \in Locals BY Typed DEF AddressInv
  <1>2. pc[o] = "reserve" /\ UNCHANGED <<tags, config>> /\ reserved \subseteq reserved'
    BY DEF Reserve
  <1>3. ASSUME NEW x, Goto(o, "idle", x) PROVE AddressInv'
    BY <1>2, <1>3, EndStep
  <1>4. ASSUME v[o].pick \notin reserved, reserved' = reserved \cup {v[o].pick},
               NEW l \in {"configure", "query"},
               Goto(o, l, [v[o] EXCEPT !.new = @ \cup {v[o].pick}, !.pick = AnyAddr])
        PROVE  AddressInv'
    <2> DEFINE a == v[o].pick
               w == [v[o] EXCEPT !.new = @ \cup {v[o].pick}, !.pick = AnyAddr]
    <2>1. /\ pc'[o] = l /\ v'[o] = w
          /\ \A p \in Op \ {o} : pc'[p] = pc[p] /\ v'[p] = v[p]
      BY <1>1, <1>4, Goes
    <2>2. /\ w.host = v[o].host /\ w.nic = v[o].nic /\ w.old = v[o].old
          /\ w.new = v[o].new \cup {a} /\ w.ask = v[o].ask /\ w.snap = v[o].snap
          /\ a \in Addr
      BY <1>1 DEF Locals
    <2>3. OwnNicsOf(o) /\ ProgressOf(o) /\ \A p \in Op : FreshOf(p)
      BY DEF AddressInv, OwnNics, Progress, FreshIsOwn
    <2>4. OwnNicsOf(o)'
      BY <1>2, <2>1, <2>2, <2>3 DEF OwnNicsOf, Update, Fresh, Releasing, OnTag
    <2>5. ProgressOf(o)'
      BY <1>2, <2>1, <2>2, <2>3 DEF ProgressOf, Fresh, OnTag
    <2>6. \A p \in Op : \A i \in Nic : \A b : Stale(p, i, b)' <=> Stale(p, i, b)
      BY <1>2, <2>1 DEF Stale
    <2>7. \A i \in Nic : \A b : Owns(i, b)' <=> Owns(i, b)
      BY <1>2, <2>6 DEF Owns
    <2>8. \A i \in Nic : ~Owns(i, a)
      BY <1>4, <2>2 DEF AddressInv, OwnedIsReserved
    <2>9. FreshOf(o)'
      <3>1. /\ v[o].new \subseteq reserved /\ \A i \in Nic : \A b \in v[o].new : ~Owns(i, b)
            /\ \A p \in Op \ {o} : pc[p] \in Fresh =>
                   v[o].new \cap v[p].new = {} /\ v[p].new \subseteq reserved
        BY <1>2, <2>3 DEF FreshOf, Fresh
      <3>2. /\ w.new \subseteq reserved' /\ \A i \in Nic : \A b \in w.new : ~Owns(i, b)'
            /\ \A p \in Op \ {o} : pc[p] \in Fresh => w.new \cap v[p].new = {}
        BY <1>4, <2>2, <2>7, <2>8, <3>1
      <3>3. QED BY <2>1, <3>2 DEF FreshOf
    <2>10. Alone(o) BY <1>2, <2>1, <2>2 DEF Alone
    <2>11. QED BY <1>2, <2>4, <2>5, <2>6, <2>9, <2>10, QuietStep
  <1>5. QED BY <1>3, <1>4 DEF Reserve, Done

\* The host gets the addresses that were reserved for the interface and loses others.
LEMMA ConfigureStep ==
    ASSUME AddressInv, TypeOK', Benign, NEW o \in Op, Configure(o)
    PROVE  AddressInv'
  <1>1. TypeOK /\ v[o] \in Locals BY Typed DEF AddressInv
  <1>2. pc[o] = "configure" /\ UNCHANGED <<reserved, tags>>
    BY DEF Configure
  <1>3. CASE UNCHANGED config /\ Goto(o, "idle", v[o])
    BY <1>2, <1>3, EndStep
  <1>4. ASSUME config' = [config EXCEPT ![v[o].nic] = v[o].new],
               GoOn(o, [v[o] EXCEPT !.rel = v[o].old \ v[o].new])
        PROVE  AddressInv'
    <2> DEFINE n == v[o].nic
               w == [v[o] EXCEPT !.rel = v[o].old \ v[o].new]
    <2>1. /\ w.host = v[o].host /\ w.nic = n /\ w.old = v[o].old /\ w.rel = w.old \ w.new
          /\ w.new = v[o].new /\ w.ask = v[o].ask /\ w.snap = v[o].snap
          /\ n \in Nic /\ w.new \subseteq Addr /\ w.old \subseteq Addr
      BY <1>1 DEF Locals
    <2> HIDE DEF w
    <2>2. config \in [Nic -> SUBSET Addr] BY <1>1 DEF TypeOK
    <2>3. /\ config'[n] = w.new
          /\ \A i \in Nic : i # n => config'[i] = config[i]
      BY <1>4, <2>1, <2>2
    <2>4. OwnNicsOf(o) /\ ProgressOf(o) /\ \A p \in Op : FreshOf(p)
      BY DEF AddressInv, OwnNics, Progress, FreshIsOwn
    <2>5. /\ HostOf[n] = v[o].host /\ tags[n] = w.old
          /\ w.new \subseteq reserved /\ \A i \in Nic : \A a \in w.new : ~Owns(i, a)
          /\ \A p \in Op \ {o} : pc[p] \in Fresh => w.new \cap v[p].new = {}
      BY <1>2, <2>1, <2>4 DEF OwnNicsOf, ProgressOf, FreshOf, Update, Fresh
    <2>6. \A i \in Nic : \A a : ~Stale(o, i, a)
      BY <1>2 DEF Stale
    <2>7. w.old \cap w.new = {}
      <3>1. \A a \in w.old : Owns(n, a)
        BY <1>2, <2>1, <2>5, <2>6, WorksAlone DEF Owns
      <3>2. QED BY <2>1, <2>5, <3>1
    <2>8. w.rel = w.old BY <2>1, <2>7
    <2>9. /\ \A p \in Op \ {o} : pc'[p] = pc[p] /\ v'[p] = v[p]
          /\ \/ pc'[o] = "idle"
             \/ v'[o] = w /\ \/ pc'[o] = "release" /\ w.old # {}
                             \/ pc'[o] = "tag" /\ w.old = {}
      <3>1. NextCall(w) \in {"release", "tag"} /\ (NextCall(w) = "tag" <=> w.old = {})
        BY <2>8 DEF NextCall
      <3>2. PICK l : Goto(o, l, w) /\ (l = "idle" \/ l = NextCall(w))
        BY <1>4 DEF GoOn, Done, w
      <3>3. /\ \A p \in Op \ {o} : pc'[p] = pc[p] /\ v'[p] = v[p]
            /\ pc'[o] = l /\ (l # "idle" => v'[o] = w)
        BY <1>1, <3>2, Goes
      <3>4. QED BY <3>1, <3>2, <3>3
    <2>10. Alone(o)
      BY <1>2, <2>1, <2>3, <2>5, <2>9 DEF Alone
    <2>11. OwnNicsOf(o)'
      BY <1>2, <2>1, <2>4, <2>5, <2>9 DEF OwnNicsOf, Update, Fresh, Releasing, OnTag
    <2>12. ProgressOf(o)'
      BY <1>2, <2>1, <2>3, <2>5, <2>7, <2>8, <2>9 DEF ProgressOf, Fresh, OnTag
    <2>13. FreshOf(o)' BY <2>9 DEF FreshOf, Fresh
    <2>14. \A p \in Op \ {o} : \A i \in Nic : \A a : Stale(p, i, a)' <=> Stale(p, i, a)
      BY <2>9 DEF Stale
    <2>15. ASSUME NEW i \in Nic, NEW a \in Addr
           PROVE  Owns(i, a)' <=> IF i = n THEN a \in w.new \cup w.old
                                         ELSE Owns(i, a)
      <3>1. ~Stale(o, i, a)'
        BY <2>8, <2>9 DEF Stale
      <3>2. i = n => \A p \in Op : ~Stale(p, i, a)'
        BY <1>2, <2>5, <2>14, <3>1, WorksAlone
      <3>3. CASE i = n BY <1>2, <2>3, <2>5, <3>2, <3>3 DEF Owns
      <3>4. CASE i # n BY <1>2, <2>3, <2>6, <2>14, <3>1, <3>4 DEF Owns
      <3>5. QED BY <3>3, <3>4
    <2>16. \A a \in w.old : Owns(n, a)
      BY <1>2, <2>1, <2>5, <2>6, WorksAlone DEF Owns
    <2>17. OwnedOnce' /\ OwnedIsReserved'
      BY <1>2, <2>1, <2>5, <2>15, <2>16 DEF AddressInv, OwnedOnce, OwnedIsReserved
    <2>18. ASSUME NEW p \in Op \ {o} PROVE FreshOf(p)'
      <3>1. v[p].new \subseteq Addr BY Typed DEF AddressInv, Locals
      <3>2. QED
        BY <1>2, <2>1, <2>4, <2>5, <2>9, <2>13, <2>15, <2>16, <3>1 DEF FreshOf, Fresh
    <2>19. QED
      BY <1>2, <2>10, <2>11, <2>12, <2>13, <2>17, <2>18, Frame DEF AddressInv, FreshIsOwn
  <1>5. QED BY <1>3, <1>4 DEF Configure

\* The released address is one that only a tag of the handler's interface names.
LEMMA GiveBack ==
    ASSUME AddressInv, TypeOK', NEW o \in Op, Alone(o), NEW n \in Nic, NEW a \in Addr,
           UNCHANGED <<tags, config>>, reserved' = reserved \ {a}, Owns(n, a),
           a \notin config[n], Stale(o, n, a)',
           \A i \in Nic : \A b : Stale(o, i, b) => Stale(o, i, b)',
           pc'[o] \notin Fresh, OwnNicsOf(o)', ProgressOf(o)', pc[o] # "idle"
    PROVE  AddressInv'
  <1>1. \A i \in Nic : Owns(i, a) => i = n
    BY DEF AddressInv, OwnedOnce
  <1>2. ASSUME NEW i \in Nic, NEW b \in Addr, Owns(i, b)'
        PROVE  Owns(i, b) /\ b \in reserved'
    <2>1. \A p \in Op \ {o} : Stale(p, i, b)' <=> Stale(p, i, b)
      BY DEF Alone, Stale
    <2>2. Owns(i, b) BY <1>2, <2>1 DEF Owns
    <2>3. b = a => i # n BY <1>2 DEF Owns
    <2>4. QED BY <1>1, <2>2, <2>3 DEF AddressInv, OwnedIsReserved
  <1>3. \A p \in Op \ {o} : pc[p] \in Fresh => v[p].new \subseteq reserved'
    BY DEF AddressInv, FreshIsOwn, FreshOf
  <1>4. FreshOf(o)' BY DEF FreshOf
  <1>5. QED BY <1>2, <1>3, <1>4, Frame, Ownership DEF AddressInv

LEMMA ReleaseOldStep ==
    ASSUME AddressInv, TypeOK', Benign, NEW o \in Op, ReleaseOld(o)
    PROVE  AddressInv'
  <1>1. TypeOK /\ v[o] \in Locals BY Typed DEF AddressInv
  <1>2. pc[o] = "release" /\ UNCHANGED <<tags, config>>
    BY DEF ReleaseOld
  <1>3. PICK a \in v[o].rel : LET w == [v[o] EXCEPT !.rel = @ \ {a}] IN Release(o, a, NextCall(w), w)
    BY DEF ReleaseOld
  <1> PICK n \in Nic : n = v[o].nic BY <1>1 DEF Locals
  <1> DEFINE w == [v[o] EXCEPT !.rel = @ \ {a}]
  <1>4. /\ w.host = v[o].host /\ w.nic = n /\ w.old = v[o].old /\ w.rel = v[o].rel \ {a}
        /\ w.new = v[o].new /\ w.ask = v[o].ask /\ w.snap = v[o].snap
        /\ a \in Addr
    BY <1>1 DEF Locals
  <1>5. OwnNicsOf(o) /\ ProgressOf(o)
    BY DEF AddressInv, OwnNics, Progress
  <1>6. /\ HostOf[n] = v[o].host /\ tags[n] = w.old /\ config[n] = w.new
        /\ w.old \cap w.new = {} /\ v[o].rel \subseteq w.old
    BY <1>2, <1>4, <1>5 DEF OwnNicsOf, ProgressOf, Update
  <1>7. Owns(n, a)
    <2>1. ~Stale(o, n, a) BY <1>2 DEF Stale
    <2>2. QED BY <1>2, <1>4, <1>6, <2>1, WorksAlone DEF Owns
  <1>8. a \in reserved BY <1>4, <1>7 DEF AddressInv, OwnedIsReserved
  <1>9. reserved' = reserved \ {a} /\ Goto(o, NextCall(w), w)
    BY <1>2, <1>3, <1>8 DEF Release, Done, Benign
  <1>10. /\ v'[o] = w /\ \/ pc'[o] = "release"
                         \/ pc'[o] = "untag" /\ w.rel = {}
         /\ \A p \in Op \ {o} : pc'[p] = pc[p] /\ v'[p] = v[p]
    <2>1. \/ NextCall(w) = "release"
          \/ NextCall(w) = "untag" /\ w.rel = {}
      BY <1>4, <1>6 DEF NextCall
    <2>2. QED BY <1>1, <1>9, <2>1, Goes
  <1>11. Alone(o) BY <1>2, <1>4, <1>10 DEF Alone
  <1>12. Stale(o, n, a)' /\ \A i \in Nic : \A b : Stale(o, i, b) => Stale(o, i, b)'
    BY <1>2, <1>4, <1>6, <1>10 DEF Stale
  <1>13. OwnNicsOf(o)'
    BY <1>2, <1>4, <1>5, <1>6, <1>10 DEF OwnNicsOf, Update, Releasing, OnTag
  <1>14. ProgressOf(o)'
    BY <1>2, <1>4, <1>6, <1>10 DEF ProgressOf, Fresh, OnTag
  <1>15. pc'[o] \notin Fresh /\ a \notin config[n]
    BY <1>6, <1>10 DEF Fresh
  <1> HIDE DEF w
  <1>16. QED
    BY <1>2, <1>4, <1>7, <1>9, <1>11, <1>12, <1>13, <1>14, <1>15, GiveBack

LEMMA RemoveTagsStep ==
    ASSUME AddressInv, TypeOK', Benign, NEW o \in Op, RemoveTags(o)
    PROVE  AddressInv'
  <1>1. TypeOK /\ v[o] \in Locals BY Typed DEF AddressInv
  <1>2. pc[o] = "untag" /\ UNCHANGED <<reserved, config>>
    BY DEF RemoveTags
  <1>3. PICK a \in v[o].old :
          /\ tags' = [tags EXCEPT ![v[o].nic] = @ \ {a}]
          /\ GoOn(o, [v[o] EXCEPT !.old = @ \ {a}])
    BY DEF RemoveTags
  <1> DEFINE n == v[o].nic
             w == [v[o] EXCEPT !.old = @ \ {a}]
  <1>4. /\ w.host = v[o].host /\ w.nic = n /\ w.old = v[o].old \ {a} /\ w.rel = v[o].rel
        /\ w.new = v[o].new /\ w.ask = v[o].ask /\ w.snap = v[o].snap /\ n \in Nic
    BY <1>1 DEF Locals
  <1>5. /\ tags'[n] = tags[n] \ {a} /\ \A i \in Nic : i # n => tags'[i] = tags[i]
    BY <1>1, <1>3, <1>4, Typed
  <1>6. OwnNicsOf(o) /\ ProgressOf(o)
    BY DEF AddressInv, OwnNics, Progress
  <1>7. /\ HostOf[n] = v[o].host /\ tags[n] = v[o].old /\ config[n] = w.new
        /\ v[o].old \cap w.new = {} /\ w.rel = {}
    BY <1>2, <1>4, <1>6 DEF OwnNicsOf, ProgressOf, Update
  <1>8. /\ v'[o] = w /\ \/ pc'[o] = "untag"
                        \/ pc'[o] = "tag" /\ w.old = {}
        /\ \A p \in Op \ {o} : pc'[p] = pc[p] /\ v'[p] = v[p]
    <2>1. \/ NextCall(w) = "untag"
          \/ NextCall(w) = "tag" /\ w.old = {}
      BY <1>7 DEF NextCall
    <2>2. Goto(o, NextCall(w), w) BY <1>2, <1>3 DEF GoOn, Done, Benign
    <2>3. QED BY <1>1, <2>1, <2>2, Goes
  <1>9. Alone(o) BY <1>2, <1>4, <1>5, <1>7, <1>8 DEF Alone
  <1>10. v[o].ask[n] = {} BY <1>2, <1>6 DEF OwnNicsOf, Update
  <1>11. OwnNicsOf(o)'
    BY <1>2, <1>4, <1>5, <1>6, <1>7, <1>8, <1>10 DEF OwnNicsOf, Update, Releasing, OnTag
  <1>12. ProgressOf(o)'
    BY <1>2, <1>4, <1>5, <1>7, <1>8 DEF ProgressOf, Fresh, OnTag
  <1>13. FreshOf(o)' BY <1>8 DEF FreshOf, Fresh
  <1>14. \A i \in Nic : \A b \in tags'[i] : Stale(o, i, b) => Stale(o, i, b)'
    BY <1>2, <1>4, <1>5, <1>7, <1>8 DEF Stale
  <1>15. QED
    BY <1>2, <1>5, <1>9, <1>11, <1>12, <1>13, <1>14, QuietStep

\* A tag is added for an address that the interface has.
LEMMA AddTagsStep ==
    ASSUME AddressInv, TypeOK', NEW o \in Op, AddTags(o)
    PROVE  AddressInv'
  <1>1. TypeOK /\ v[o] \in Locals BY Typed DEF AddressInv
  <1>2. pc[o] = "tag" /\ UNCHANGED <<reserved, config>>
    BY DEF AddTags
  <1>3. PICK n \in Nic : n = v[o].nic BY <1>1 DEF Locals
  <1>4. PICK a \in v[o].new :
          /\ tags' = [tags EXCEPT ![v[o].nic] = @ \cup {a}]
          /\ IF v[o].new = {a} THEN Done(o, "group", [v[o] EXCEPT !.new = {}, !.nic = AnyNic])
                               ELSE Done(o, "tag", [v[o] EXCEPT !.new = @ \ {a}])
    BY DEF AddTags
  <1>5. /\ tags'[n] = tags[n] \cup {a} /\ \A i \in Nic : i # n => tags'[i] = tags[i]
        /\ a \in Addr
    BY <1>1, <1>3, <1>4, Typed DEF Locals
  <1>6. OwnNicsOf(o) /\ ProgressOf(o)
    BY DEF AddressInv, OwnNics, Progress
  <1>7. /\ HostOf[n] = v[o].host /\ tags[n] \cup v[o].new = config[n]
        /\ v[o].ask[n] = {}
    BY <1>2, <1>3, <1>6 DEF OwnNicsOf, ProgressOf, Update
  <1>8. /\ \A p \in Op \ {o} : pc'[p] = pc[p] /\ v'[p] = v[p]
        /\ pc'[o] # "idle" =>
             /\ v'[o].host = v[o].host /\ v'[o].ask = v[o].ask /\ v'[o].snap = v[o].snap
             /\ \/ pc'[o] = "group" /\ v'[o].new = {}
                \/ pc'[o] = "tag" /\ v'[o].nic = n /\ v'[o].new = v[o].new \ {a}
    <2>1. CASE Done(o, "group", [v[o] EXCEPT !.new = {}, !.nic = AnyNic])
      <3> DEFINE w == [v[o] EXCEPT !.new = {}, !.nic = AnyNic]
      <3>1. w.host = v[o].host /\ w.ask = v[o].ask /\ w.snap = v[o].snap /\ w.new = {}
        BY <1>1 DEF Locals
      <3> HIDE DEF w
      <3>2. PICK l \in {"idle", "group"} : Goto(o, l, w)
        BY <2>1 DEF Done, w
      <3>3. /\ \A p \in Op \ {o} : pc'[p] = pc[p] /\ v'[p] = v[p]
            /\ pc'[o] = l /\ (l # "idle" => v'[o] = w)
        BY <1>1, <3>2, Goes
      <3>4. QED BY <3>1, <3>2, <3>3
    <2>2. CASE Done(o, "tag", [v[o] EXCEPT !.new = @ \ {a}])
      <3> DEFINE w == [v[o] EXCEPT !.new = @ \ {a}]
      <3>1. /\ w.host = v[o].host /\ w.ask = v[o].ask /\ w.snap = v[o].snap
            /\ w.nic = n /\ w.new = v[o].new \ {a}
        BY <1>1, <1>3 DEF Locals
      <3> HIDE DEF w
      <3>2. PICK l \in {"idle", "tag"} : Goto(o, l, w)
        BY <2>2 DEF Done, w
      <3>3. /\ \A p \in Op \ {o} : pc'[p] = pc[p] /\ v'[p] = v[p]
            /\ pc'[o] = l /\ (l # "idle" => v'[o] = w)
        BY <1>1, <3>2, Goes
      <3>4. QED BY <3>1, <3>2, <3>3
    <2>3. QED BY <1>4, <2>1, <2>2
  <1>9. Alone(o) BY <1>2, <1>5, <1>7, <1>8 DEF Alone
  <1>10. OwnNicsOf(o)'
    BY <1>2, <1>5, <1>6, <1>7, <1>8 DEF OwnNicsOf, Update, Fresh, Releasing, OnTag
  <1>11. ProgressOf(o)'
    BY <1>2, <1>4, <1>5, <1>7, <1>8 DEF ProgressOf, Fresh, OnTag
  <1>12. FreshOf(o)' BY <1>8 DEF FreshOf, Fresh
  <1>13. ASSUME NEW i \in Nic, NEW b \in Addr, Owns(i, b)'
         PROVE  Owns(i, b) /\ b \in reserved'
    <2>1. \A p \in Op : Stale(p, i, b) => Stale(p, i, b)'
      BY <1>2, <1>8 DEF Stale
    <2>2. i = n /\ b = a => b \in config[i] BY <1>7
    <2>3. Owns(i, b) BY <1>2, <1>5, <1>13, <2>1, <2>2 DEF Owns
    <2>4. QED BY <1>2, <2>3 DEF AddressInv, OwnedIsReserved
  <1>14. \A p \in Op \ {o} : pc[p] \in Fresh => v[p].new \subseteq reserved'
    BY <1>2 DEF AddressInv, FreshIsOwn, FreshOf
  <1>15. QED
    BY <1>2, <1>9, <1>10, <1>11, <1>12, <1>13, <1>14, Frame, Ownership DEF AddressInv

LEMMA ReleaseMachineStep ==
    ASSUME AddressInv, TypeOK', NEW o \in Op, ReleaseMachine(o)
    PROVE  AddressInv'
  <1>1. TypeOK /\ v[o] \in Locals BY Typed DEF AddressInv
  <1>2. /\ pc[o] = "machine" /\ UNCHANGED <<reserved, tags>>
        /\ \A i \in Nic : config'[i] = IF HostOf[i] = v[o].host THEN {} ELSE config[i]
    BY DEF ReleaseMachine
  <1>3. PICK l \in {"idle", "interfaces"} : Goto(o, l, v[o])
    BY DEF ReleaseMachine, Done
  <1>4. /\ \A p \in Op \ {o} : pc'[p] = pc[p] /\ v'[p] = v[p]
        /\ pc'[o] = l /\ (l # "idle" => v'[o] = v[o])
    BY <1>1, <1>3, Goes
  <1>5. OwnNicsOf(o) BY DEF AddressInv, OwnNics
  <1>6. Alone(o) BY <1>2, <1>4 DEF Alone
  <1>7. OwnNicsOf(o)'
    BY <1>2, <1>4, <1>5 DEF OwnNicsOf, Update, Fresh, Releasing, OnTag
  <1>8. ProgressOf(o)' BY <1>2, <1>4 DEF ProgressOf, Fresh, OnTag
  <1>9. FreshOf(o)' BY <1>4 DEF FreshOf, Fresh
  <1>10. QED BY <1>2, <1>6, <1>7, <1>8, <1>9, QuietStep DEF Stale

LEMMA GetInterfacesStep ==
    ASSUME AddressInv, TypeOK', NEW o \in Op, GetInterfaces(o)
    PROVE  AddressInv'
  <1>1. TypeOK /\ v[o] \in Locals BY Typed DEF AddressInv
  <1>2. pc[o] = "interfaces" /\ UNCHANGED <<reserved, tags, config>>
    BY DEF GetInterfaces
  <1> DEFINE todo == {p \in Nic \X Addr : HostOf[p[1]] = v[o].host /\ p[2] \in tags[p[1]]}
             w == [v[o] EXCEPT !.todo = todo]
  <1>3. /\ w.host = v[o].host /\ w.ask = v[o].ask /\ w.snap = v[o].snap /\ w.todo = todo
    BY <1>1 DEF Locals
  <1>4. PICK l \in {"idle", "ipRelease"} : Goto(o, l, w)
    BY DEF GetInterfaces
  <1>5. /\ \A p \in Op \ {o} : pc'[p] = pc[p] /\ v'[p] = v[p]
        /\ pc'[o] = l /\ (l # "idle" => v'[o] = w)
    BY <1>1, <1>4, Goes
  <1>6. OwnNicsOf(o) /\ ProgressOf(o) BY DEF AddressInv, OwnNics, Progress
  <1>7. \A p \in w.todo : HostOf[p[1]] = w.host /\ p[2] \in tags[p[1]]
    BY <1>3
  <1> HIDE DEF w, todo
  <1>8. Alone(o) BY <1>2, <1>3, <1>5 DEF Alone
  <1>9. OwnNicsOf(o)'
    BY <1>2, <1>3, <1>5, <1>6 DEF OwnNicsOf, Update, Fresh, Releasing, OnTag
  <1>10. ProgressOf(o)'
    BY <1>2, <1>3, <1>5, <1>6, <1>7 DEF ProgressOf, Fresh, OnTag
  <1>11. FreshOf(o)' BY <1>5 DEF FreshOf, Fresh
  <1>12. QED BY <1>2, <1>8, <1>9, <1>10, <1>11, QuietStep DEF Stale

LEMMA ReleaseTaggedStep ==
    ASSUME AddressInv, TypeOK', Benign, NEW o \in Op, ReleaseTagged(o)
    PROVE  AddressInv'
  <1>1. TypeOK /\ v[o] \in Locals BY Typed DEF AddressInv
  <1>2. pc[o] = "ipRelease" /\ UNCHANGED <<tags, config>>
    BY DEF ReleaseTagged
  <1>3. PICK t \in v[o].todo :
       Release(o, t[2], "ipUntag", [v[o] EXCEPT !.todo = @ \ {t}, !.nic = t[1], !.pick = t[2]])
    BY DEF ReleaseTagged
  <1>4. t \in Nic \X Addr BY <1>1 DEF Locals
  <1>5. PICK n \in Nic, a \in Addr : t = <<n, a>> /\ n = t[1] /\ a = t[2] BY <1>4
  <1> DEFINE w == [v[o] EXCEPT !.todo = @ \ {t}, !.nic = t[1], !.pick = t[2]]
  <1>6. /\ w.host = v[o].host /\ w.ask = v[o].ask /\ w.snap = v[o].snap
        /\ w.nic = n /\ w.pick = a /\ w.todo = v[o].todo \ {<<n, a>>}
    BY <1>1, <1>5 DEF Locals
  <1>7. OwnNicsOf(o) /\ ProgressOf(o) BY DEF AddressInv, OwnNics, Progress
  <1>8. /\ \A p \in v[o].todo : HostOf[p[1]] = v[o].host /\ p[2] \in tags[p[1]]
        /\ \A i \in Nic : HostOf[i] = v[o].host => config[i] = {}
    BY <1>2, <1>7 DEF ProgressOf, OnTag
  <1>9. HostOf[n] = v[o].host /\ a \in tags[n] /\ config[n] = {}
    BY <1>5, <1>8
  <1>10. Owns(n, a)
    BY <1>2, <1>9, WorksAlone DEF Owns, Stale
  <1>11. a \in reserved BY <1>10 DEF AddressInv, OwnedIsReserved
  <1>12. reserved' = reserved \ {a} /\ Goto(o, "ipUntag", w)
    BY <1>2, <1>3, <1>5, <1>11 DEF Release, Done, Benign
  <1> HIDE DEF w
  <1>13. /\ pc'[o] = "ipUntag" /\ v'[o] = w
         /\ \A p \in Op \ {o} : pc'[p] = pc[p] /\ v'[p] = v[p]
    BY <1>1, <1>12, Goes
  <1>14. Alone(o) BY <1>2, <1>6, <1>13 DEF Alone
  <1>15. Stale(o, n, a)' /\ \A i \in Nic : \A b : Stale(o, i, b) => Stale(o, i, b)'
    BY <1>2, <1>6, <1>13 DEF Stale
  <1>16. OwnNicsOf(o)'
    BY <1>2, <1>6, <1>7, <1>9, <1>13 DEF OwnNicsOf, Update, Fresh, Releasing, OnTag
  <1>17. ProgressOf(o)'
    BY <1>2, <1>6, <1>8, <1>9, <1>13 DEF ProgressOf, Fresh, OnTag
  <1>18. pc'[o] \notin Fresh /\ a \notin config[n]
    BY <1>9, <1>13 DEF Fresh
  <1>19. QED
    BY <1>2, <1>10, <1>12, <1>14, <1>15, <1>16, <1>17, <1>18, GiveBack

LEMMA RemoveTagStep ==
    ASSUME AddressInv, TypeOK', Benign, NEW o \in Op, RemoveTag(o)
    PROVE  AddressInv'
  <1>1. TypeOK /\ v[o] \in Locals BY Typed DEF AddressInv
  <1>2. pc[o] = "ipUntag" /\ UNCHANGED <<reserved, config>>
    BY DEF RemoveTag
  <1>3. PICK n \in Nic, a \in Addr : n = v[o].nic /\ a = v[o].pick BY <1>1 DEF Locals
  <1> DEFINE w == [v[o] EXCEPT !.nic = AnyNic, !.pick = AnyAddr]
  <1>4. w.host = v[o].host /\ w.ask = v[o].ask /\ w.snap = v[o].snap /\ w.todo = v[o].todo
    BY <1>1 DEF Locals
  <1>5. /\ tags'[n] = tags[n] \ {a} /\ \A i \in Nic : i # n => tags'[i] = tags[i]
    BY <1>1, <1>3, Typed DEF RemoveTag
  <1>6. OwnNicsOf(o) /\ ProgressOf(o) BY DEF AddressInv, OwnNics, Progress
  <1>7. /\ HostOf[n] = v[o].host /\ <<n, a>> \notin v[o].todo
        /\ \A p \in v[o].todo : HostOf[p[1]] = v[o].host /\ p[2] \in tags[p[1]]
        /\ \A i \in Nic : HostOf[i] = v[o].host => config[i] = {}
    BY <1>2, <1>3, <1>6 DEF OwnNicsOf, ProgressOf, OnTag
  <1>8. \A p \in v[o].todo : p[2] \in tags'[p[1]]
    <2>1. v[o].todo \subseteq Nic \X Addr BY <1>1 DEF Locals
    <2>2. ASSUME NEW p \in v[o].todo PROVE p[2] \in tags'[p[1]]
      <3>1. PICK i \in Nic, b \in Addr : p = <<i, b>> /\ i = p[1] /\ b = p[2] BY <2>1
      <3>2. b \in tags[i] /\ (i # n \/ b # a) BY <1>7, <3>1
      <3>3. b \in tags'[i] BY <1>5, <3>2
      <3>4. QED BY <3>1, <3>3
    <2>3. QED BY <2>2
  <1>9. PICK l \in {"idle", "ipRelease"} : Goto(o, l, w)
    BY <1>2 DEF RemoveTag, Done, Benign
  <1> HIDE DEF w
  <1>10. /\ pc'[o] = l /\ (l # "idle" => v'[o] = w)
         /\ \A p \in Op \ {o} : pc'[p] = pc[p] /\ v'[p] = v[p]
    BY <1>1, <1>9, Goes
  <1>11. Alone(o) BY <1>2, <1>4, <1>5, <1>7, <1>10 DEF Alone
  <1>12. OwnNicsOf(o)'
    BY <1>2, <1>4, <1>6, <1>10 DEF OwnNicsOf, Update, Fresh, Releasing, OnTag
  <1>13. ProgressOf(o)'
    BY <1>2, <1>4, <1>7, <1>8, <1>10 DEF ProgressOf, Fresh, OnTag
  <1>14. FreshOf(o)' BY <1>10 DEF FreshOf, Fresh
  <1>15. \A i \in Nic : \A b \in tags'[i] : Stale(o, i, b) => Stale(o, i, b)'
    BY <1>2, <1>3, <1>5 DEF Stale
  <1>16. QED
    BY <1>2, <1>5, <1>11, <1>12, <1>13, <1>14, <1>15, QuietStep

\* The step of a handler or of the deployment.
LEMMA InvStep == Benign /\ AddressInv /\ [Next]_vars => AddressInv'
  <1> SUFFICES ASSUME Benign, AddressInv, [Next]_vars PROVE AddressInv'
    OBVIOUS
  <1>1. TypeOK' BY TypeStep DEF AddressInv
  <1>2. ASSUME NEW o \in Op, Begin(o) PROVE AddressInv'
    BY <1>1, <1>2, BeginStep DEF Begin, Benign
  <1>3. ASSUME NEW o \in Op, CallFails(o) PROVE AddressInv'
    <2>1. pc[o] \notin {"idle", "release", "untag", "ipUntag"}
      BY <1>3, CallNames, AddressAssumption DEF CallFails, Benign
    <2>2. QED BY <1>1, <1>3, <2>1, EndStep DEF CallFails, Error
  <1>4. ASSUME NEW o \in Op, Continue(o) PROVE AddressInv'
    BY <1>1, <1>3, <1>4, GroupStep, QueryStep, ReserveStep, ConfigureStep, ReleaseOldStep,
       RemoveTagsStep, AddTagsStep, ReleaseMachineStep, GetInterfacesStep,
       ReleaseTaggedStep, RemoveTagStep DEF Continue
  <1>5. CASE UNCHANGED <<reserved, tags, config, pc, v>>
    BY <1>1, <1>5 DEF AddressInv, OneEach, OwnNics, OwnNicsOf, OwnedOnce, OwnedIsReserved,
         FreshIsOwn, FreshOf, Progress, ProgressOf, Owns, Stale
  <1>6. QED BY <1>2, <1>4, <1>5 DEF Next, OsDeploy, vars

LEMMA AddressInvHolds == ASSUME Benign PROVE Spec => []AddressInv
  <1>1. Init => AddressInv
    <2> SUFFICES ASSUME Init PROVE AddressInv
      OBVIOUS
    <2>1. TypeOK BY NoLocalsType, AnyTypes DEF Init, TypeOK
    <2>2. OneEach /\ OwnNics /\ FreshIsOwn /\ Progress
      BY DEF Init, OneEach, OwnNics, OwnNicsOf, FreshIsOwn, FreshOf, Progress, ProgressOf,
           Update, Fresh, OnTag, Releasing
    <2>3. \A i \in Nic : \A a : ~Owns(i, a) BY DEF Init, Owns
    <2>4. QED BY <2>1, <2>2, <2>3 DEF AddressInv, OwnedOnce, OwnedIsReserved
  <1>2. AddressInv /\ [Next]_vars => AddressInv'
    BY InvStep
  <1>3. QED BY <1>1, <1>2, PTL DEF Spec

-----------------------------------------------------------------------------
\* No two interfaces have the same static address, whatever operations on different
\* hosts interleave between the query for an address and its reservation.
THEOREM NoAddressShared == ASSUME Benign PROVE Spec => []NoSharedAddress
  <1>1. AddressInv => NoSharedAddress
    BY DEF AddressInv, TypeOK, NoSharedAddress, OwnedOnce, Owns
  <1>2. QED BY <1>1, AddressInvHolds, PTL

\* Whatever call of a handler fails, the addresses of a host stay reserved in MAAS.
THEOREM ConfiguredAreReserved == ASSUME Benign PROVE Spec => []ConfiguredIsReserved
  <1>1. AddressInv => ConfiguredIsReserved
    BY DEF AddressInv, TypeOK, ConfiguredIsReserved, OwnedIsReserved, Owns
  <1>2. QED BY <1>1, AddressInvHolds, PTL

\* Between the operations on a host the tags of its interfaces name no address of
\* another interface.
THEOREM TagsKeepHome == ASSUME Benign PROVE Spec => []TagsPointHome
  <1>1. AddressInv => TagsPointHome
    <2> SUFFICES ASSUME AddressInv, NEW i \in Nic, NEW j \in Nic, i # j,
                        ~Busy(HostOf[i]), NEW a \in tags[i], a \in config[j]
                 PROVE  FALSE
      BY DEF TagsPointHome
    <2>1. a \in Addr BY Typed DEF AddressInv
    <2>2. \A o \in Op : ~Stale(o, i, a)
      BY DEF AddressInv, OwnNics, OwnNicsOf, Stale, Busy, Update
    <2>3. Owns(i, a) /\ Owns(j, a) BY <2>2 DEF Owns
    <2>4. QED BY <2>1, <2>3 DEF AddressInv, OwnedOnce
  <1>2. QED BY <1>1, AddressInvHolds, PTL

\* A step changes the reservations or the hosts, never both.
LEMMA OneAtATime == [Next]_vars => UNCHANGED config \/ UNCHANGED reserved
  <1> SUFFICES ASSUME [Next]_vars PROVE UNCHANGED config \/ UNCHANGED reserved
    OBVIOUS
  <1>1. ASSUME NEW o \in Op, Begin(o) PROVE UNCHANGED config
    BY <1>1 DEF Begin, BeginUpdate, BeginRelease
  <1>2. ASSUME NEW o \in Op, Configure(o) \/ ReleaseMachine(o) PROVE UNCHANGED reserved
    BY <1>2 DEF Configure, ReleaseMachine
  <1>3. ASSUME NEW o \in Op,
               \/ Group(o) \/ Query(o) \/ Reserve(o) \/ ReleaseOld(o) \/ RemoveTags(o)
               \/ AddTags(o) \/ GetInterfaces(o) \/ ReleaseTagged(o) \/ RemoveTag(o)
               \/ CallFails(o)
        PROVE  UNCHANGED config
    BY <1>3 DEF Group, Query, Reserve, ReleaseOld, RemoveTags, AddTags, GetInterfaces,
         ReleaseTagged, RemoveTag, CallFails, Error
  <1>4. QED BY <1>1, <1>2, <1>3 DEF Next, Continue, OsDeploy, vars

LEMMA ReleaseStep ==
    ASSUME AddressInv, AddressInv', [Next]_vars
    PROVE  \A a \in reserved \ reserved' : \A i \in Nic : a \notin config[i]
  <1>1. \A i \in Nic : config'[i] \subseteq reserved'
    BY DEF AddressInv, TypeOK, OwnedIsReserved, Owns
  <1>2. QED BY <1>1, OneAtATime

\* Update and release give an address back only when no host is configured with it.
THEOREM OnlyUnassignedReleased == ASSUME Benign PROVE Spec => ReleasesUnassigned
  <1>1. AddressInv /\ AddressInv' /\ [Next]_vars =>
          [\A a \in reserved \ reserved' : \A i \in Nic : a \notin config[i]]_vars
    BY ReleaseStep
  <1>2. QED BY <1>1, AddressInvHolds, PTL DEF Spec, ReleasesUnassigned

\* An update that gets through a group leaves the interface's addresses in its tags.
THEOREM UpdatesTellTags == ASSUME Benign PROVE Spec => UpdateTellsTags
  <1> DEFINE Told == \A o \in Op : pc[o] = "tag" /\ pc'[o] = "group" =>
                         tags'[v[o].nic] = config[v[o].nic]
  <1>1. AddressInv /\ [Next]_vars => [Told]_vars
    <2> SUFFICES ASSUME AddressInv, Next, NEW o \in Op, pc[o] = "tag", pc'[o] = "group"
                 PROVE  tags'[v[o].nic] = config[v[o].nic]
      BY DEF vars
    <2>1. TypeOK /\ v[o] \in Locals BY Typed DEF AddressInv
    <2>2. \A p \in Op : \A l, w : Goto(p, l, w) => (IF p = o THEN l = "group" ELSE pc'[o] = pc[o])
      BY <2>1, Goes
    <2>3. ASSUME NEW p \in Op, Begin(p) PROVE FALSE
      BY <2>2, <2>3 DEF Begin, BeginUpdate, BeginRelease, Admitted
    <2>4. ASSUME NEW p \in Op, Continue(p) PROVE AddTags(o)
      <3>1. CASE p # o
        <4>1. pc'[o] = pc[o]
          BY <2>2, <2>4, <3>1 DEF Continue, Group, Query, Reserve, Configure, ReleaseOld,
               RemoveTags, AddTags, ReleaseMachine, GetInterfaces, ReleaseTagged, RemoveTag,
               CallFails, Error, Done, GoOn, Release
        <4>2. QED BY <4>1
      <3>2. CASE p = o
        <4>1. AddTags(o) \/ CallFails(o)
          BY <2>4, <3>2 DEF Continue, Group, Query, Reserve, Configure, ReleaseOld,
               RemoveTags, ReleaseMachine, GetInterfaces, ReleaseTagged, RemoveTag
        <4>2. ~CallFails(o)
          BY <2>1, Goes DEF CallFails, Error
        <4>3. QED BY <4>1, <4>2
      <3>3. QED BY <3>1, <3>2
    <2>5. AddTags(o) BY <2>3, <2>4 DEF Next, OsDeploy
    <2>6. PICK a \in v[o].new :
            /\ tags' = [tags EXCEPT ![v[o].nic] = @ \cup {a}]
            /\ IF v[o].new = {a} THEN Done(o, "group", [v[o] EXCEPT !.new = {}, !.nic = AnyNic])
                                 ELSE Done(o, "tag", [v[o] EXCEPT !.new = @ \ {a}])
      BY <2>5 DEF AddTags
    <2>7. v[o].new = {a} BY <2>2, <2>6 DEF Done
    <2>8. tags'[v[o].nic] = tags[v[o].nic] \cup {a}
      BY <2>1, <2>6, Typed DEF Locals
    <2>9. ProgressOf(o) BY DEF AddressInv, Progress
    <2>10. QED BY <2>7, <2>8, <2>9 DEF ProgressOf
  <1>2. QED BY <1>1, AddressInvHolds, PTL DEF Spec, UpdateTellsTags

-----------------------------------------------------------------------------
\* The handlers, MAAS and the hosts implement the pool of addresses.
LEMMA PoolStep ==
    ASSUME AddressInv, AddressInv', [Next]_vars
    PROVE  [Pool!Next]_<<reserved, config>>
  <1>1. TypeOK /\ \A o \in Op : v[o] \in Locals BY Typed DEF AddressInv
  <1>2. ASSUME NEW o \in Op, Reserve(o) PROVE [Pool!Next]_<<reserved, config>>
    <2>1. v[o].pick \in Addr BY <1>1 DEF Locals
    <2>2. Pool!Take(v[o].pick) \/ UNCHANGED <<reserved, config>>
      BY <1>2 DEF Reserve, Pool!Take
    <2>3. QED BY <2>1, <2>2 DEF Pool!Next
  <1>3. ASSUME NEW o \in Op, Configure(o) PROVE [Pool!Next]_<<reserved, config>>
    <2>1. v[o].nic \in Nic /\ v[o].new \in SUBSET Addr BY <1>1 DEF Locals
    <2>2. /\ v[o].new \subseteq reserved
          /\ \A j \in Nic : v[o].new \cap config[j] = {}
      BY <1>3, <2>1 DEF Configure, AddressInv, FreshIsOwn, FreshOf, Fresh, Owns
    <2>3. Pool!Assign(v[o].nic, v[o].new) \/ UNCHANGED <<reserved, config>>
      BY <1>3, <2>2 DEF Configure, Pool!Assign
    <2>4. QED BY <2>1, <2>3 DEF Pool!Next
  <1>4. ASSUME NEW o \in Op, ReleaseMachine(o) PROVE [Pool!Next]_<<reserved, config>>
    <2> DEFINE nics == {i \in Nic : HostOf[i] = v[o].host}
    <2>1. Pool!Erase(nics)
      BY <1>4 DEF ReleaseMachine, Pool!Erase
    <2>2. QED BY <2>1 DEF Pool!Next
  <1>5. ASSUME NEW a, NEW o \in Op, NEW l, NEW w, UNCHANGED config, Release(o, a, l, w)
        PROVE  [Pool!Next]_<<reserved, config>>
    <2>1. CASE a \in reserved /\ reserved' = reserved \ {a}
      <3>1. a \in Addr BY <1>1, <2>1 DEF TypeOK
      <3>2. \A i \in Nic : a \notin config[i] BY <2>1, ReleaseStep
      <3>3. Pool!Give(a) BY <1>5, <2>1, <3>2 DEF Pool!Give
      <3>4. QED BY <3>1, <3>3 DEF Pool!Next
    <2>2. QED BY <1>5, <2>1 DEF Release
  <1>6. ASSUME NEW o \in Op, ReleaseOld(o) \/ ReleaseTagged(o)
        PROVE  [Pool!Next]_<<reserved, config>>
    BY <1>5, <1>6 DEF ReleaseOld, ReleaseTagged
  <1>7. ASSUME NEW o \in Op,
               \/ Group(o) \/ Query(o) \/ RemoveTags(o) \/ AddTags(o) \/ GetInterfaces(o)
               \/ RemoveTag(o) \/ CallFails(o) \/ Begin(o)
        PROVE  UNCHANGED <<reserved, config>>
    BY <1>7 DEF Group, Query, RemoveTags, AddTags, GetInterfaces, RemoveTag, CallFails,
         Error, Begin, BeginUpdate, BeginRelease
  <1>8. QED BY <1>2, <1>3, <1>4, <1>6, <1>7 DEF Next, Continue, OsDeploy, vars

\* A handler's reservations and the hosts' addresses behave as the pool that
\* AddressPool describes.
THEOREM PoolImplemented == ASSUME Benign PROVE Spec => ImplementsPool
  <1>1. Init => Pool!Init
    BY DEF Init, Pool!Init
  <1>2. AddressInv /\ AddressInv' /\ [Next]_vars => [Pool!Next]_<<reserved, config>>
    BY PoolStep
  <1>3. QED BY <1>1, <1>2, AddressInvHolds, PTL DEF Spec, ImplementsPool, Pool!PoolSpec
-----------------------------------------------------------------------------
\* A handler that is not updating an interface has no new addresses.
NoneHeld == \A o \in Op : pc[o] \notin Update => v[o].new = {}

\* A handler takes new addresses only while it updates an interface.
LEMMA NoneHeldStep == AddressInv /\ NoneHeld /\ [Next]_vars => NoneHeld'
  <1> SUFFICES ASSUME AddressInv, NoneHeld, [Next]_vars PROVE NoneHeld'
    OBVIOUS
  <1>1. TypeOK /\ \A o \in Op : v[o] \in Locals BY Typed DEF AddressInv
  <1>2. ASSUME NEW o \in Op, NEW l, NEW w, Goto(o, l, w),
               l \notin Update \cup {"idle"} => w.new = {}
        PROVE  NoneHeld'
    BY <1>1, <1>2 DEF NoneHeld, Goto, TypeOK, NoLocals
  <1>3. ASSUME NEW o \in Op, NEW h \in Host, BeginRelease(o, h) PROVE NoneHeld'
    BY <1>2, <1>3 DEF BeginRelease, NoLocals
  <1>4. ASSUME NEW o \in Op, NEW h \in Host, BeginUpdate(o, h) PROVE NoneHeld'
    <2>1. PICK ask \in [Nic -> SUBSET Subnet] :
            Goto(o, "group", [NoLocals(h) EXCEPT !.ask = ask,
                 !.snap = [i \in Nic |-> IF ask[i] = {} THEN {} ELSE tags[i]]])
      BY <1>4 DEF BeginUpdate
    <2>2. [NoLocals(h) EXCEPT !.ask = ask,
             !.snap = [i \in Nic |-> IF ask[i] = {} THEN {} ELSE tags[i]]].new = {}
      BY DEF NoLocals
    <2>3. QED BY <1>2, <2>1, <2>2
  <1>5. ASSUME NEW o \in Op, Error(o) PROVE NoneHeld'
    BY <1>2, <1>5 DEF Error
  <1>6. ASSUME NEW o \in Op, Group(o) \/ Query(o) \/ Reserve(o) PROVE NoneHeld'
    BY <1>2, <1>6 DEF Group, Query, Reserve, Done, Update, Fresh
  <1>7. ASSUME NEW o \in Op, NEW w \in Locals, GoOn(o, w) PROVE NoneHeld'
    BY <1>2, <1>7, NextCallType DEF GoOn, Done, Update
  <1>8. ASSUME NEW o \in Op, Configure(o) \/ RemoveTags(o) PROVE NoneHeld'
    <2>1. \A a : /\ [v[o] EXCEPT !.rel = v[o].old \ v[o].new] \in Locals
                 /\ [v[o] EXCEPT !.old = @ \ {a}] \in Locals
      BY <1>1 DEF Locals
    <2>2. QED BY <1>2, <1>7, <1>8, <2>1 DEF Configure, RemoveTags
  <1>9. ASSUME NEW o \in Op, ReleaseOld(o) PROVE NoneHeld'
    <2>1. \A a : NextCall([v[o] EXCEPT !.rel = @ \ {a}]) \in Update
      <3>1. \A a : [v[o] EXCEPT !.rel = @ \ {a}] \in Locals BY <1>1 DEF Locals
      <3>2. QED BY <3>1, NextCallType DEF Update
    <2>2. QED BY <1>2, <1>9, <2>1 DEF ReleaseOld, Release, Done
  <1>10. ASSUME NEW o \in Op, AddTags(o) PROVE NoneHeld'
    <2>1. [v[o] EXCEPT !.new = {}, !.nic = AnyNic].new = {} BY <1>1 DEF Locals
    <2>2. QED BY <1>2, <1>10, <2>1 DEF AddTags, Done, Update
  <1>11. ASSUME NEW o \in Op,
                ReleaseMachine(o) \/ GetInterfaces(o) \/ ReleaseTagged(o) \/ RemoveTag(o)
         PROVE  NoneHeld'
    <2>1. pc[o] \notin Update
      BY <1>11 DEF ReleaseMachine, GetInterfaces, ReleaseTagged, RemoveTag, Update, Fresh
    <2>2. v[o].new = {} BY <2>1 DEF NoneHeld
    <2>3. \A t, q : /\ [v[o] EXCEPT !.todo = t].new = {}
                    /\ [v[o] EXCEPT !.todo = @ \ {q}, !.nic = q[1], !.pick = q[2]].new = {}
                    /\ [v[o] EXCEPT !.nic = AnyNic, !.pick = AnyAddr].new = {}
      BY <1>1, <2>2 DEF Locals
    <2>4. QED
      BY <1>2, <1>11, <2>2, <2>3
         DEF ReleaseMachine, GetInterfaces, ReleaseTagged, RemoveTag, Done, Release
  <1>12. CASE UNCHANGED <<pc, v>>
    BY <1>12 DEF NoneHeld
  <1>13. QED
    BY <1>3, <1>4, <1>5, <1>6, <1>8, <1>9, <1>10, <1>11, <1>12
       DEF Next, Begin, Continue, CallFails, OsDeploy, vars

\* What a step of handler o must do for an address to be forgotten by it.
LEMMA StaysKnown ==
    ASSUME NEW o \in Op, NEW a \in Addr,
           \A p \in Op \ {o} : pc'[p] = pc[p] /\ v'[p] = v[p],
           \A i \in Nic : Stale(o, i, a)' => Stale(o, i, a) \/ a \in v'[o].new \/ a \notin reserved',
           \A i \in Nic : a \in tags[i] => a \in tags'[i] \/ Stale(o, i, a),
           a \in reserved' => a \in reserved \/ a \in v'[o].new,
           a \in v[o].new => a \in v'[o].new,
           Forgotten(a)'
    PROVE  Forgotten(a)
  <1>1. a \in reserved /\ \A p \in Op : a \notin v[p].new
    BY DEF Forgotten
  <1>2. ASSUME NEW i \in Nic, a \in tags[i] PROVE \E p \in Op : Stale(p, i, a)
    <2>1. CASE a \in tags'[i]
      <3>1. PICK p \in Op : Stale(p, i, a)' BY <2>1 DEF Forgotten
      <3>2. CASE p = o BY <3>1, <3>2 DEF Forgotten
      <3>3. CASE p # o BY <3>1, <3>3 DEF Stale
      <3>4. QED BY <3>2, <3>3
    <2>2. QED BY <1>2, <2>1
  <1>3. QED BY <1>1, <1>2 DEF Forgotten
\* By its steps: only the end of a handler leaves an address behind, one in its hands.
LEMMA OnlyEndsLeak ==
    ASSUME AddressInv, NoneHeld, NEW o \in Op, Begin(o) \/ Continue(o),
           NEW a \in Addr, Forgotten(a)', ~Forgotten(a)
    PROVE  Holds(o, a) /\ pc'[o] = "idle"
  <1>1. TypeOK /\ v[o] \in Locals BY Typed DEF AddressInv
  <1>2. ASSUME NEW l, NEW w, Goto(o, l, w),
               \A i \in Nic : a \in tags[i] => a \in tags'[i] \/ Stale(o, i, a),
               a \in reserved' => a \in reserved \/ Holds(o, a),
               l # "idle" =>
                 /\ Holds(o, a) => a \in w.new
                 /\ \A i \in Nic : Stale(o, i, a)' =>
                        Stale(o, i, a) \/ a \in w.new \/ a \notin reserved'
        PROVE  Holds(o, a) /\ pc'[o] = "idle"
    <2>1. /\ \A p \in Op \ {o} : pc'[p] = pc[p] /\ v'[p] = v[p]
          /\ pc'[o] = l /\ (l # "idle" => v'[o] = w)
      BY <1>1, <1>2, Goes
    <2>2. a \notin v'[o].new BY DEF Forgotten
    <2>3. Holds(o, a) => l = "idle" BY <1>2, <2>1, <2>2
    <2>4. ASSUME ~Holds(o, a) PROVE FALSE
      <3>1. a \notin v[o].new /\ (a \in reserved' => a \in reserved)
        BY <1>2, <2>4 DEF Holds
      <3>2. \A i \in Nic : Stale(o, i, a)' => Stale(o, i, a) \/ a \in v'[o].new \/ a \notin reserved'
        <4>1. CASE l = "idle" BY <2>1, <4>1 DEF Stale
        <4>2. CASE l # "idle" BY <1>2, <2>1, <4>2
        <4>3. QED BY <4>1, <4>2
      <3>3. QED BY <1>2, <2>1, <3>1, <3>2, StaysKnown
    <2>5. QED BY <2>1, <2>3, <2>4
  <1>3. ASSUME NEW l, NEW w, Goto(o, l, w), UNCHANGED tags, reserved' \subseteq reserved,
               pc[o] # "reserve", l \notin {"release", "untag", "ipUntag"},
               l # "idle" => w.new = v[o].new
        PROVE  Holds(o, a) /\ pc'[o] = "idle"
    <2>1. pc'[o] = l BY <1>1, <1>3, Goes
    <2>2. l # "idle" => \A i \in Nic : ~Stale(o, i, a)' BY <1>3, <2>1 DEF Stale
    <2>3. Holds(o, a) => a \in v[o].new BY <1>3 DEF Holds
    <2>4. QED BY <1>2, <1>3, <2>2, <2>3
  <1>4. ASSUME NEW h \in Host, BeginUpdate(o, h) PROVE Holds(o, a) /\ pc'[o] = "idle"
    <2>1. PICK w : Goto(o, "group", w) /\ w.new = {}
      <3>1. PICK ask \in [Nic -> SUBSET Subnet] :
              Goto(o, "group", [NoLocals(h) EXCEPT !.ask = ask,
                   !.snap = [i \in Nic |-> IF ask[i] = {} THEN {} ELSE tags[i]]])
        BY <1>4 DEF BeginUpdate
      <3>2. [NoLocals(h) EXCEPT !.ask = ask,
               !.snap = [i \in Nic |-> IF ask[i] = {} THEN {} ELSE tags[i]]].new = {}
        BY DEF NoLocals
      <3>3. QED BY <3>1, <3>2
    <2>2. pc[o] = "idle" /\ UNCHANGED <<reserved, tags>>
      BY <1>4 DEF BeginUpdate, Admitted
    <2>3. v[o].new = {} BY <2>2 DEF NoneHeld, Update, Fresh
    <2>4. QED BY <1>3, <2>1, <2>2, <2>3
  <1>5. ASSUME NEW h \in Host, BeginRelease(o, h) PROVE Holds(o, a) /\ pc'[o] = "idle"
    <2>1. pc[o] = "idle" /\ v[o].new = {}
      BY <1>5 DEF BeginRelease, Admitted, NoneHeld, Update, Fresh
    <2>2. QED BY <1>3, <1>5, <2>1 DEF BeginRelease, NoLocals
  <1>6. CASE Group(o)
    <2>1. v[o].new = {} BY <1>6 DEF Group, NoneHeld, Update, Fresh
    <2>2. CASE Goto(o, "idle", v[o])
      BY <1>3, <1>6, <2>2 DEF Group
    <2>3. ASSUME NEW i \in Nic,
                 Goto(o, "query", [v[o] EXCEPT !.ask[i] = {}, !.snap[i] = {}, !.nic = i,
                                             !.subs = v[o].ask[i], !.old = v[o].snap[i]])
          PROVE  Holds(o, a) /\ pc'[o] = "idle"
      <3> DEFINE w == [v[o] EXCEPT !.ask[i] = {}, !.snap[i] = {}, !.nic = i,
                                   !.subs = v[o].ask[i], !.old = v[o].snap[i]]
      <3>1. w.new = v[o].new BY <1>1 DEF Locals
      <3>2. Goto(o, "query", w) BY <2>3
      <3> HIDE DEF w
      <3>3. QED BY <1>3, <1>6, <3>1, <3>2 DEF Group
    <2>4. QED BY <1>6, <2>2, <2>3 DEF Group
  <1>7. CASE Query(o)
    <2>1. CASE Goto(o, "idle", v[o])
      BY <1>3, <1>7, <2>1 DEF Query
    <2>2. ASSUME NEW s, NEW b, Goto(o, "reserve", [v[o] EXCEPT !.subs = @ \ {s}, !.pick = b])
          PROVE  Holds(o, a) /\ pc'[o] = "idle"
      <3> DEFINE w == [v[o] EXCEPT !.subs = @ \ {s}, !.pick = b]
      <3>1. w.new = v[o].new BY <1>1 DEF Locals
      <3>2. Goto(o, "reserve", w) BY <2>2
      <3> HIDE DEF w
      <3>3. QED BY <1>3, <1>7, <3>1, <3>2 DEF Query
    <2>3. QED BY <1>7, <2>1, <2>2 DEF Query
  <1>8. CASE Reserve(o)
    <2> DEFINE w == [v[o] EXCEPT !.new = @ \cup {v[o].pick}, !.pick = AnyAddr]
    <2>1. w.new = v[o].new \cup {v[o].pick} BY <1>1 DEF Locals
    <2> HIDE DEF w
    <2>2. PICK l \in {"configure", "query", "idle"}, u \in {v[o], w} :
            /\ Goto(o, l, u) /\ (l # "idle" => u = w)
            /\ reserved' \in {reserved, reserved \cup {v[o].pick}}
      BY <1>8 DEF Reserve, Done, w
    <2>3. pc[o] = "reserve" /\ UNCHANGED tags BY <1>8 DEF Reserve
    <2>4. pc'[o] = l BY <1>1, <2>2, Goes
    <2>5. a \in reserved' => a \in reserved \/ Holds(o, a)
      BY <2>2, <2>3 DEF Holds
    <2>6. l # "idle" => /\ Holds(o, a) => a \in u.new
                        /\ \A i \in Nic : ~Stale(o, i, a)'
      BY <2>1, <2>2, <2>4 DEF Holds, Stale
    <2>7. QED BY <1>2, <2>2, <2>3, <2>5, <2>6
  <1>9. CASE Configure(o)
    <2> DEFINE w == [v[o] EXCEPT !.rel = v[o].old \ v[o].new]
    <2>1. w.new = v[o].new /\ w.old = v[o].old /\ w.rel = v[o].old \ v[o].new
      BY <1>1 DEF Locals
    <2>2. NextCall(w) \in {"release", "untag", "tag"}
      BY DEF NextCall
    <2> HIDE DEF w
    <2>3. PICK l \in {"release", "untag", "tag", "idle"}, u \in {v[o], w} :
            Goto(o, l, u) /\ (l # "idle" => u = w)
      BY <1>9, <2>2 DEF Configure, GoOn, Done, w
    <2>4. pc[o] = "configure" /\ UNCHANGED <<reserved, tags>> BY <1>9 DEF Configure
    <2>5. pc'[o] = l /\ (l # "idle" => v'[o] = u) BY <1>1, <2>3, Goes
    <2>6. l # "idle" => \A i \in Nic : Stale(o, i, a)' => a \in u.new
      BY <2>1, <2>3, <2>5 DEF Stale
    <2>7. l # "idle" => (Holds(o, a) => a \in u.new)
      BY <2>1, <2>3, <2>4 DEF Holds
    <2>8. QED BY <1>2, <2>3, <2>4, <2>6, <2>7
  <1>10. CASE ReleaseOld(o)
    <2>1. PICK b \in v[o].rel :
            LET w == [v[o] EXCEPT !.rel = @ \ {b}] IN Release(o, b, NextCall(w), w)
      BY <1>10 DEF ReleaseOld
    <2> DEFINE w == [v[o] EXCEPT !.rel = @ \ {b}]
    <2>2. w.new = v[o].new /\ w.old = v[o].old /\ w.rel = v[o].rel \ {b} /\ w.nic = v[o].nic
      BY <1>1 DEF Locals
    <2>3. NextCall(w) \in {"release", "untag", "tag"}
      BY DEF NextCall
    <2> HIDE DEF w
    <2>4. PICK l \in {"release", "untag", "tag", "idle"} :
            /\ Goto(o, l, w) /\ reserved' \subseteq reserved
            /\ l # "idle" => b \notin reserved'
      BY <2>1, <2>3 DEF Release, Done, w
    <2>5. pc[o] = "release" /\ UNCHANGED tags BY <1>10 DEF ReleaseOld
    <2>6. pc'[o] = l /\ (l # "idle" => v'[o] = w) BY <1>1, <2>4, Goes
    <2>7. l # "idle" => \A i \in Nic : Stale(o, i, a)' => Stale(o, i, a) \/ a \notin reserved'
      BY <2>2, <2>4, <2>5, <2>6 DEF Stale
    <2>8. Holds(o, a) => a \in w.new BY <2>2, <2>5 DEF Holds
    <2>9. QED BY <1>2, <2>4, <2>5, <2>7, <2>8
  <1>11. CASE RemoveTags(o)
    <2>1. PICK b \in v[o].old :
            /\ tags' = [tags EXCEPT ![v[o].nic] = @ \ {b}]
            /\ GoOn(o, [v[o] EXCEPT !.old = @ \ {b}])
      BY <1>11 DEF RemoveTags
    <2> DEFINE w == [v[o] EXCEPT !.old = @ \ {b}]
    <2>2. /\ w.new = v[o].new /\ w.old = v[o].old \ {b} /\ w.rel = v[o].rel
          /\ w.nic = v[o].nic /\ v[o].nic \in Nic
      BY <1>1 DEF Locals
    <2>3. NextCall(w) \in {"release", "untag", "tag"}
      BY DEF NextCall
    <2> HIDE DEF w
    <2>4. PICK l \in {"release", "untag", "tag", "idle"} : Goto(o, l, w)
      BY <2>1, <2>3 DEF GoOn, Done, w
    <2>5. pc[o] = "untag" /\ UNCHANGED reserved BY <1>11 DEF RemoveTags
    <2>6. pc'[o] = l /\ (l # "idle" => v'[o] = w) BY <1>1, <2>4, Goes
    <2>7. v[o].rel = {} BY <2>5 DEF AddressInv, Progress, ProgressOf
    <2>8. \A i \in Nic : a \in tags[i] => a \in tags'[i] \/ Stale(o, i, a)
      BY <1>1, <2>1, <2>2, <2>5, <2>7, Typed DEF Stale
    <2>9. l # "idle" => \A i \in Nic : Stale(o, i, a)' => Stale(o, i, a)
      BY <2>2, <2>5, <2>6, <2>7 DEF Stale
    <2>10. Holds(o, a) => a \in w.new BY <2>2, <2>5 DEF Holds
    <2>11. QED BY <1>2, <2>4, <2>5, <2>8, <2>9, <2>10
  <1>12. CASE AddTags(o)
    <2>1. PICK b \in v[o].new :
            /\ tags' = [tags EXCEPT ![v[o].nic] = @ \cup {b}]
            /\ IF v[o].new = {b} THEN Done(o, "group", [v[o] EXCEPT !.new = {}, !.nic = AnyNic])
                                 ELSE Done(o, "tag", [v[o] EXCEPT !.new = @ \ {b}])
      BY <1>12 DEF AddTags
    <2>2. pc[o] = "tag" /\ UNCHANGED reserved BY <1>12 DEF AddTags
    <2>3. PICK n \in Nic : n = v[o].nic BY <1>1 DEF Locals
    <2>4. /\ b \in tags'[n]
          /\ \A i \in Nic : a \in tags[i] => a \in tags'[i]
      BY <1>1, <2>1, <2>3, Typed
    <2>5. PICK l, u :
            /\ l \in {"group", "tag", "idle"} /\ Goto(o, l, u)
            /\ l # "idle" => v[o].new \ {b} \subseteq u.new
      <3>1. /\ [v[o] EXCEPT !.new = {}, !.nic = AnyNic].new = {}
            /\ [v[o] EXCEPT !.new = @ \ {b}].new = v[o].new \ {b}
        BY <1>1 DEF Locals
      <3>2. CASE v[o].new = {b}
        <4>1. Done(o, "group", [v[o] EXCEPT !.new = {}, !.nic = AnyNic]) BY <2>1, <3>2
        <4>2. QED BY <3>2, <4>1 DEF Done
      <3>3. CASE v[o].new # {b}
        <4>1. Done(o, "tag", [v[o] EXCEPT !.new = @ \ {b}]) BY <2>1, <3>3
        <4>2. QED BY <3>1, <4>1 DEF Done
      <3>4. QED BY <3>2, <3>3
    <2>6. /\ \A p \in Op \ {o} : pc'[p] = pc[p] /\ v'[p] = v[p]
          /\ pc'[o] = l
      BY <1>1, <2>5, Goes
    <2>7. \A i \in Nic : ~Stale(o, i, a)' BY <2>5, <2>6 DEF Stale
    <2>8. a # b
      <3>1. SUFFICES ASSUME a = b PROVE FALSE
        OBVIOUS
      <3>2. HostOf[n] = v[o].host
        BY <2>2, <2>3 DEF AddressInv, OwnNics, OwnNicsOf, Update
      <3>3. \A p \in Op \ {o} : ~Stale(p, n, a) BY <2>2, <3>2, WorksAlone
      <3>4. \A p \in Op : ~Stale(p, n, a)' BY <2>6, <2>7, <3>3 DEF Stale
      <3>5. a \notin tags'[n] BY <3>4 DEF Forgotten
      <3>6. QED BY <2>4, <3>1, <3>5
    <2>9. l # "idle" => (Holds(o, a) => a \in u.new)
      BY <2>2, <2>5, <2>8 DEF Holds
    <2>10. QED BY <1>2, <2>2, <2>4, <2>5, <2>7, <2>9
  <1>13. CASE ReleaseMachine(o)
    BY <1>3, <1>13 DEF ReleaseMachine, Done
  <1>14. CASE GetInterfaces(o)
    <2>1. PICK t : Goto(o, IF t = {} THEN "idle" ELSE "ipRelease", [v[o] EXCEPT !.todo = t])
      BY <1>14 DEF GetInterfaces
    <2> DEFINE w == [v[o] EXCEPT !.todo = t]
    <2>2. w.new = v[o].new BY <1>1 DEF Locals
    <2>3. PICK l \in {"idle", "ipRelease"} : Goto(o, l, w) BY <2>1
    <2> HIDE DEF w
    <2>4. QED BY <1>3, <1>14, <2>2, <2>3 DEF GetInterfaces
  <1>15. CASE ReleaseTagged(o)
    <2>1. PICK q \in v[o].todo :
            Release(o, q[2], "ipUntag", [v[o] EXCEPT !.todo = @ \ {q}, !.nic = q[1], !.pick = q[2]])
      BY <1>15 DEF ReleaseTagged
    <2> DEFINE w == [v[o] EXCEPT !.todo = @ \ {q}, !.nic = q[1], !.pick = q[2]]
    <2>2. w.new = v[o].new /\ w.pick = q[2] BY <1>1 DEF Locals
    <2> HIDE DEF w
    <2>3. PICK l \in {"ipUntag", "idle"} :
            /\ Goto(o, l, w) /\ reserved' \subseteq reserved
            /\ l # "idle" => q[2] \notin reserved'
      BY <2>1 DEF Release, Done, w
    <2>4. pc[o] = "ipRelease" /\ UNCHANGED tags BY <1>15 DEF ReleaseTagged
    <2>5. pc'[o] = l /\ (l # "idle" => v'[o] = w) BY <1>1, <2>3, Goes
    <2>6. l # "idle" => \A i \in Nic : Stale(o, i, a)' => a \notin reserved'
      BY <2>2, <2>3, <2>5 DEF Stale
    <2>7. Holds(o, a) => a \in w.new BY <2>2, <2>4 DEF Holds
    <2>8. QED BY <1>2, <2>3, <2>4, <2>6, <2>7
  <1>16. CASE RemoveTag(o)
    <2> DEFINE w == [v[o] EXCEPT !.nic = AnyNic, !.pick = AnyAddr]
    <2>1. w.new = v[o].new BY <1>1 DEF Locals
    <2> HIDE DEF w
    <2>2. PICK l \in {"ipRelease", "idle"} : Goto(o, l, w)
      BY <1>16 DEF RemoveTag, Done, w
    <2>3. /\ pc[o] = "ipUntag" /\ UNCHANGED reserved
          /\ tags' = [tags EXCEPT ![v[o].nic] = @ \ {v[o].pick}]
      BY <1>16 DEF RemoveTag
    <2>4. pc'[o] = l BY <1>1, <2>2, Goes
    <2>5. \A i \in Nic : a \in tags[i] => a \in tags'[i] \/ Stale(o, i, a)
      BY <1>1, <2>3, Typed DEF Stale
    <2>6. \A i \in Nic : ~Stale(o, i, a)' BY <2>2, <2>4 DEF Stale
    <2>7. Holds(o, a) => a \in w.new BY <2>1, <2>3 DEF Holds
    <2>8. QED BY <1>2, <2>2, <2>3, <2>5, <2>6, <2>7
  <1>17. CASE CallFails(o)
    BY <1>2, <1>17 DEF CallFails, Error
  <1>18. QED
    BY <1>4, <1>5, <1>6, <1>7, <1>8, <1>9, <1>10, <1>11, <1>12, <1>13, <1>14, <1>15,
       <1>16, <1>17 DEF Begin, Continue

\* No operation that gets through loses a reservation: an address that MAAS keeps for
\* nobody is left behind by a handler that has ended with it in its hands.
THEOREM NothingElseLeaks == ASSUME Benign PROVE Spec => OnlyFailuresLeak
  <1> DEFINE Leaks == \A a \in Addr : Forgotten(a)' /\ ~Forgotten(a)
                          => \E o \in Op : Holds(o, a) /\ pc'[o] = "idle"
  <1>1. AddressInv /\ NoneHeld /\ [Next]_vars => [Leaks]_vars
    <2> SUFFICES ASSUME AddressInv, NoneHeld, Next, NEW a \in Addr,
                        Forgotten(a)', ~Forgotten(a)
                 PROVE  \E o \in Op : Holds(o, a) /\ pc'[o] = "idle"
      BY DEF vars
    <2>1. ASSUME NEW h \in Host, OsDeploy(h) PROVE FALSE
      BY <2>1 DEF OsDeploy, Forgotten, Stale
    <2>2. PICK o \in Op : Begin(o) \/ Continue(o) BY <2>1 DEF Next
    <2>3. QED BY <2>2, OnlyEndsLeak
  <1>2. Init => NoneHeld BY DEF Init, NoneHeld, NoLocals
  <1>3. AddressInv /\ NoneHeld /\ [Next]_vars => NoneHeld' BY NoneHeldStep
  <1>4. QED BY <1>1, <1>2, <1>3, AddressInvHolds, PTL DEF Spec, OnlyFailuresLeak
=============================================================================
