--------------------------- MODULE VMHosts_proofs ---------------------------
(***************************************************************************)
(* Theorems about VMHosts, for any number of handlers, systems and         *)
(* networks and whatever calls fail: its type invariant, that a release    *)
(* which could see the VM host has deleted it, that what is half done is   *)
(* being finished or was left by a failed call, and that a VM shown Ready  *)
(* after its job has succeeded is linked.                                  *)
(***************************************************************************)
EXTENDS VMHosts, TLAPS

Labels  == {"idle", "register"} \cup ComposePC \cup FlowPC \cup ReleasePC
Results == {"none", "waiting", "running", "succeeded", "failed"}

USE VMAssumption
USE DEF maasVars

-----------------------------------------------------------------------------
\* The parts of the type invariant: MAAS and the machine, the processes, the jobs
\* and the history variables.
MaasOK ==
    /\ deployed \in BOOLEAN
    /\ host \in {"none", "untrusted", "trusted"}
    /\ subnet \in [Cidr -> {"none", "bare", "ranged"}]
    /\ vm \in [System -> VmStatus]
    /\ links \in [System -> SUBSET Cidr]

Knowing(l, w) ==
    /\ l \in {"register"} \cup FlowPC => w.system # NoSystem
    /\ l \in {"subnet", "range", "link"} => w.at # NoCidr

ProcsOK ==
    /\ pc \in [Proc -> Labels]
    /\ v \in [Proc -> Locals]
    /\ \A p \in Proc : Knowing(pc[p], v[p])

JobsOK    == job \in [System -> Results]
HistoryOK == abandoned \subseteq {"host"} \cup Cidr /\ excused \subseteq Call

\* VTypeOK is these parts.
LEMMA TypeParts == VTypeOK <=> MaasOK /\ ProcsOK /\ JobsOK /\ HistoryOK
  BY DEF VTypeOK, MaasOK, ProcsOK, JobsOK, HistoryOK, Labels, Results, Knowing

\* The records that locals are reset to.
LEMMA LocalsTypes ==
    /\ NoLocals \in Locals /\ Holding \in Locals
    /\ \A s \in System : Knows(s) \in Locals /\ Knows(s).system = s
    /\ NoLocals.system = NoSystem /\ Holding.system = NoSystem
  BY DEF NoLocals, Holding, Knows, Locals

\* The updates of the loops stay locals.
LEMMA UpdateTypes ==
    ASSUME NEW w \in Locals, NEW k \in SUBSET Cidr, NEW l \in SUBSET Cidr,
           NEW n \in Cidr \cup {NoCidr}
    PROVE  /\ [w EXCEPT !.known = k] \in Locals
           /\ [w EXCEPT !.known = k, !.left = l] \in Locals
           /\ [w EXCEPT !.known = k, !.at = n] \in Locals
           /\ [w EXCEPT !.holds = FALSE] \in Locals
           /\ [w EXCEPT !.holds = FALSE].system = w.system
           /\ [w EXCEPT !.holds = FALSE].at = w.at
  BY DEF Locals

\* A process goes on at a label with locals of its own.
LEMMA StepTypes ==
    ASSUME ProcsOK, NEW p \in Proc, NEW l \in Labels, NEW w \in Locals,
           Knowing(l, w),
           Goto(p, l), v' = [v EXCEPT ![p] = w]
    PROVE  ProcsOK'
  BY DEF ProcsOK, Goto

\* It goes on at a label and keeps its locals.
LEMMA GotoTypes ==
    ASSUME ProcsOK, NEW p \in Proc, NEW l \in Labels, Goto(p, l), v' = v,
           Knowing(l, v[p])
    PROVE  ProcsOK'
  BY DEF ProcsOK, Goto

LEMMA ExitsTypes ==
    ASSUME ProcsOK, JobsOK, NEW p \in Proc, NEW r \in Results, Exits(p, r)
    PROVE  ProcsOK' /\ JobsOK'
  <1>1. ProcsOK'
    <2>1. "idle" \in Labels /\ Knowing("idle", NoLocals) BY DEF Labels, FlowPC, Knowing
    <2>2. QED BY <2>1, StepTypes, LocalsTypes DEF Exits
  <1>2. JobsOK' BY DEF Exits, JobsOK
  <1>3. QED BY <1>1, <1>2

LEMMA ErrorTypes ==
    ASSUME ProcsOK, JobsOK, excused \subseteq Call, NEW p \in Proc, Error(p)
    PROVE  ProcsOK' /\ JobsOK' /\ excused' \subseteq Call
  <1>1. CASE pc[p] \in FlowPC /\ Goto(p, "broken") /\ v' = [v EXCEPT ![p] = Knows(v[p].system)]
             /\ UNCHANGED <<job, excused>>
    <2>1. v[p].system \in System BY <1>1 DEF ProcsOK, Locals, Knowing
    <2>2. ProcsOK'
      <3>1. Knowing("broken", Knows(v[p].system)) BY <2>1, LocalsTypes DEF Knowing
      <3>2. QED BY <1>1, <2>1, <3>1, StepTypes, LocalsTypes DEF Labels, FlowPC
    <2>3. QED BY <1>1, <2>2 DEF JobsOK
  <1>2. CASE Exits(p, "failed") /\ excused' = excused \ {p}
    BY <1>2, ExitsTypes DEF Results
  <1>3. QED BY <1>1, <1>2 DEF Error

LEMMA ThenTypes ==
    ASSUME ProcsOK, JobsOK, HistoryOK, NEW p \in Proc, NEW l \in Labels, NEW w \in Locals,
           NEW made \in SUBSET ({"host"} \cup Cidr),
           Knowing(l, w),
           Then(p, l, w, made)
    PROVE  ProcsOK' /\ JobsOK' /\ HistoryOK'
  <1>1. CASE Goto(p, l) /\ v' = [v EXCEPT ![p] = w] /\ UNCHANGED <<job, abandoned, excused>>
    BY <1>1, StepTypes DEF JobsOK, HistoryOK
  <1>2. CASE Error(p) /\ abandoned' = abandoned \cup made
    BY <1>2, ErrorTypes DEF HistoryOK
  <1>3. QED BY <1>1, <1>2 DEF Then

\* The actions that leave MAAS and the machine alone, and the rest one by one.
LEMMA MaasStep ==
    ASSUME VTypeOK, [VMNext]_vmVars
    PROVE  MaasOK'
  <1> USE TypeParts DEF MaasOK
  <1>1. ASSUME NEW c \in Call, Handler(c) PROVE MaasOK'
    <2>1. CASE BeginCompose(c) \/ RegisterJob(c) \/ BeginRelease(c) \/ Unsubscribe(c)
      BY <2>1 DEF BeginCompose, Compose, RegisterJob, BeginRelease, Unsubscribe
    <2>2. CASE VMDelete(c) BY <2>2 DEF VMDelete, VmStatus
    <2>3. CASE OsDeploy(c) BY <2>3 DEF OsDeploy
    <2>4. CASE DeleteHost(c) BY <2>4 DEF DeleteHost, VmStatus
    <2>5. CASE ReleaseMachine(c) BY <2>5 DEF ReleaseMachine
    <2>6. QED BY <1>1, <2>1, <2>2, <2>3, <2>4, <2>5 DEF Handler
  <1>2. ASSUME NEW p \in Proc, Flow(p) PROVE MaasOK'
    <2>1. CASE SetupLxd(p) \/ Refresh(p) \/ ListSubnets(p) \/ Network(p) \/ LooksForVM(p)
               \/ CallFails(p)
      BY <2>1 DEF SetupLxd, Refresh, ListSubnets, Network, LooksForVM, CallFails
    <2>2. CASE AddHost(p) BY <2>2 DEF AddHost
    <2>3. CASE Certificate(p) BY <2>3 DEF Certificate
    <2>4. CASE CreateSubnet(p) BY <2>4 DEF CreateSubnet
    <2>5. CASE CreateRanges(p) BY <2>5 DEF CreateRanges
    <2>6. CASE ComposeVM(p) BY <2>6 DEF ComposeVM, VmStatus
    <2>7. QED BY <1>2, <2>1, <2>2, <2>3, <2>4, <2>5, <2>6 DEF Flow, OtherCall
  <1>3. ASSUME NEW s \in System, Worker(s) \/ Expire(s) \/ Commissioned(s) PROVE MaasOK'
    <2>1. CASE WorkerStarts(s) \/ Poll(s) \/ GetInterfaces(s) \/ Linked(s) \/ Expire(s)
      BY <2>1 DEF WorkerStarts, Compose, Poll, GetInterfaces, Linked, Expire
    <2>2. CASE Disconnect(s) BY <2>2 DEF Disconnect
    <2>3. CASE Link(s)
      <3>1. v[s].at \in Cidr BY <2>3 DEF Link, Calls, ProcsOK, Locals, Proc, Knowing
      <3>2. QED BY <2>3, <3>1 DEF Link
    <2>4. CASE MarkBroken(s) BY <2>4 DEF MarkBroken, VmStatus
    <2>5. CASE Commissioned(s) BY <2>5 DEF Commissioned, VmStatus
    <2>6. QED BY <1>3, <2>1, <2>2, <2>3, <2>4, <2>5 DEF Worker
  <1>4. CASE UNCHANGED vmVars BY <1>4 DEF vmVars
  <1>5. QED BY <1>1, <1>2, <1>3, <1>4 DEF VMNext

\* What the processes do, action by action.
LEMMA ProcsStep ==
    ASSUME VTypeOK, [VMNext]_vmVars
    PROVE  ProcsOK' /\ JobsOK' /\ HistoryOK'
  <1> DEFINE OK == ProcsOK /\ JobsOK /\ HistoryOK
  <1> USE TypeParts, LocalsTypes
  <1>a. /\ ComposePC \cup FlowPC \cup ReleasePC \cup {"idle", "register"} \subseteq Labels
        /\ Call \subseteq Proc /\ System \subseteq Proc
    BY DEF Labels, Proc
  <1>b. \A p \in Proc : v[p] \in Locals /\ Knowing(pc[p], v[p]) BY DEF ProcsOK
  <1>c. \A l \in Labels \ ({"register", "subnet", "range"} \cup FlowPC), w \in Locals : Knowing(l, w)
    BY DEF Knowing, FlowPC
  <1>d. ASSUME NEW p \in Proc, Compose(p) PROVE ProcsOK' /\ HistoryOK'
    <2>1. \E l \in {"refresh", "setup"} : Goto(p, l) /\ (v' = [v EXCEPT ![p] = Holding] \/ v' = v)
      BY <1>d DEF Compose
    <2>2. ProcsOK'
      BY <2>1, <1>a, <1>b, <1>c, StepTypes, GotoTypes DEF ComposePC, FlowPC
    <2>3. QED BY <1>d, <2>2 DEF Compose, HistoryOK
  <1>1. ASSUME NEW c \in Call, Handler(c) PROVE OK'
    <2>1. CASE BeginCompose(c) BY <1>a, <1>d, <2>1 DEF BeginCompose, JobsOK
    <2>2. CASE RegisterJob(c)
      <3>1. v' = [v EXCEPT ![c] = NoLocals] /\ Goto(c, "idle") BY <2>2 DEF RegisterJob
      <3>2. ProcsOK' BY <3>1, <1>a, <1>c, StepTypes DEF FlowPC
      <3>3. job' \in [System -> Results] BY <2>2 DEF RegisterJob, JobsOK, Results
      <3>4. QED BY <2>2, <3>2, <3>3 DEF RegisterJob, JobsOK, HistoryOK
    <2>3. CASE VMDelete(c) \/ OsDeploy(c)
      BY <2>3 DEF VMDelete, OsDeploy, ProcsOK, JobsOK, HistoryOK
    <2>4. CASE BeginRelease(c)
      <3>1. \E l \in {"deleteHost", "unsubscribe"} :
              Goto(c, l) /\ (v' = [v EXCEPT ![c] = Holding] \/ v' = v)
        BY <2>4 DEF BeginRelease
      <3>2. ProcsOK'
        BY <3>1, <1>a, <1>b, <1>c, StepTypes, GotoTypes DEF ReleasePC, FlowPC
      <3>3. QED BY <2>4, <3>2 DEF BeginRelease, JobsOK, HistoryOK
    <2>5. CASE DeleteHost(c)
      <3>1. \E l \in {"unsubscribe", "idle"} : pc' = [pc EXCEPT ![c] = l]
        BY <2>5 DEF DeleteHost, Goto
      <3>2. /\ v' \in [Proc -> Locals]
            /\ \A p \in Proc : v'[p].system = v[p].system /\ v'[p].at = v[p].at
        <4>1. \A p \in Proc : v[p] \in Locals /\ v'[p] = [v[p] EXCEPT !.holds = FALSE]
          BY <2>5, <1>b DEF DeleteHost
        <4>2. \A p \in Proc : LET w == [v[p] EXCEPT !.holds = FALSE] IN
                w \in Locals /\ w.system = v[p].system /\ w.at = v[p].at
          BY <1>b, UpdateTypes
        <4>3. v' = [p \in Proc |-> v'[p]] BY <2>5 DEF DeleteHost
        <4>4. QED BY <4>1, <4>2, <4>3
      <3>3. ProcsOK' BY <3>1, <3>2 DEF ProcsOK, Labels, ReleasePC, FlowPC, Knowing, Proc
      <3>4. QED BY <2>5, <3>3 DEF DeleteHost, JobsOK, HistoryOK
    <2>6. CASE Unsubscribe(c)
      <3>1. Then(c, "release", v[c], {}) /\ Knowing("release", v[c]) /\ v[c] \in Locals
        BY <2>6, <1>a, <1>b, <1>c DEF Unsubscribe, ReleasePC, FlowPC
      <3>2. QED BY <3>1, <1>a, ThenTypes DEF ReleasePC
    <2>7. CASE ReleaseMachine(c)
      <3>1. Exits(c, "succeeded") BY <2>7 DEF ReleaseMachine
      <3>2. ProcsOK' /\ JobsOK' BY <3>1, <1>a, ExitsTypes DEF Results
      <3>3. QED BY <2>7, <3>2 DEF ReleaseMachine, HistoryOK
    <2>8. QED BY <1>1, <2>1, <2>2, <2>3, <2>4, <2>5, <2>6, <2>7 DEF Handler
  <1>2. ASSUME NEW p \in Proc, Flow(p) PROVE OK'
    <2>1. CASE SetupLxd(p) \/ Certificate(p) \/ Refresh(p)
      <3>1. \E l \in {"addHost", "refresh", "list"} : Then(p, l, v[p], {})
        BY <2>1 DEF SetupLxd, Certificate, Refresh
      <3>2. QED BY <3>1, <1>a, <1>b, <1>c, ThenTypes DEF ComposePC, FlowPC
    <2>2. CASE AddHost(p)
      <3>1. CASE /\ Goto(p, "certificate") /\ v' = [v EXCEPT ![p] = Holding]
                 /\ UNCHANGED <<job, abandoned>>
        <4>1. ProcsOK' BY <3>1, <1>a, <1>c, StepTypes DEF ComposePC, FlowPC
        <4>2. QED BY <2>2, <3>1, <4>1 DEF AddHost, JobsOK, HistoryOK
      <3>2. CASE Exits(p, "failed") /\ abandoned' = abandoned \cup {"host"}
        <4>1. ProcsOK' /\ JobsOK' BY <3>2, ExitsTypes DEF Results
        <4>2. QED BY <2>2, <3>2, <4>1 DEF AddHost, HistoryOK
      <3>3. QED BY <2>2, <3>1, <3>2 DEF AddHost
    <2>3. CASE ListSubnets(p)
      <3> DEFINE w == [v[p] EXCEPT !.known = {n \in Cidr : subnet[n] # "none"}, !.left = Cidr]
      <3>1. w \in Locals BY <1>b, UpdateTypes
      <3>2. v' = [v EXCEPT ![p] = w] BY <2>3 DEF ListSubnets, ProcsOK, Locals
      <3> HIDE DEF w
      <3>3. ProcsOK' BY <2>3, <3>1, <3>2, <1>a, <1>c, StepTypes DEF ListSubnets, ComposePC, FlowPC
      <3>4. QED BY <2>3, <3>3 DEF ListSubnets, JobsOK, HistoryOK
    <2>4. CASE Network(p)
      <3> DEFINE Goes == \E l \in {"network", "subnet", "exists"}, w \in Locals :
                           /\ Goto(p, l) /\ v' = [v EXCEPT ![p] = w]
                           /\ l = "subnet" => w.at # NoCidr
      <3>a. ASSUME NEW n \in v[p].left,
                   Goto(p, IF n \in v[p].known THEN "network" ELSE "subnet"),
                   v' = [v EXCEPT ![p].left = @ \ {n},
                                  ![p].at = IF n \in v[p].known THEN NoCidr ELSE n]
            PROVE  Goes
        <4>1. v[p] \in Locals /\ n \in Cidr /\ v[p].left \ {n} \subseteq Cidr
          BY <3>a, <1>b DEF Locals
        <4>2. PICK m \in Cidr \cup {NoCidr} : m = IF n \in v[p].known THEN NoCidr ELSE n
          BY <4>1
        <4>r. PICK rest \in SUBSET Cidr : rest = v[p].left \ {n} BY <4>1
        <4>w. PICK old \in Locals : old = v[p] BY <4>1
        <4> DEFINE w == [old EXCEPT !.left = rest, !.at = m]
        <4>3. w \in Locals /\ w.at = m BY DEF Locals
        <4>4. v' = [v EXCEPT ![p] = w]
          <5>1. v' = [v EXCEPT ![p].left = rest, ![p].at = m] BY <3>a, <4>2, <4>r
          <5>2. v \in [Proc -> Locals] BY DEF ProcsOK
          <5>3. v' = [v EXCEPT ![p] = [v[p] EXCEPT !.left = rest, !.at = m]]
            <6>1. \A q \in Proc \ {p} : v'[q] = v[q] BY <5>1, <5>2
            <6>2. v' = [q \in Proc |-> v'[q]] BY <5>1, <5>2
            <6>3. v'[p] = [v[p] EXCEPT !.left = rest, !.at = m] BY <5>1, <5>2 DEF Locals
            <6>4. QED BY <6>1, <6>2, <6>3, <5>2
          <5>4. QED BY <5>3, <4>w
        <4> HIDE DEF w
        <4>5. CASE n \in v[p].known BY <3>a, <4>3, <4>4, <4>5
        <4>6. CASE n \notin v[p].known
          <5>1. Goto(p, "subnet") /\ w.at # NoCidr BY <3>a, <4>1, <4>2, <4>3, <4>6
          <5>2. QED BY <5>1, <4>3, <4>4
        <4>7. QED BY <4>5, <4>6
      <3>b. ASSUME Goto(p, "exists"), v' = [v EXCEPT ![p].known = {}] PROVE Goes
        <4> DEFINE w == [v[p] EXCEPT !.known = {}]
        <4>1. w \in Locals BY <1>b, UpdateTypes
        <4>2. v' = [v EXCEPT ![p] = w] BY <3>b DEF ProcsOK, Locals
        <4> HIDE DEF w
        <4>3. QED BY <3>b, <4>1, <4>2
      <3>c. Goes
        <4> HIDE DEF Goes
        <4>1. QED BY <2>4, <3>a, <3>b DEF Network
      <3>1. PICK l \in {"network", "subnet", "exists"}, w \in Locals :
              /\ Goto(p, l) /\ v' = [v EXCEPT ![p] = w]
              /\ l = "subnet" => w.at # NoCidr
        BY <3>c
      <3>2. Knowing(l, w) BY <3>1 DEF Knowing, FlowPC
      <3>3. ProcsOK' BY <3>1, <3>2, <1>a, StepTypes DEF ComposePC
      <3>4. QED BY <2>4, <3>3 DEF Network, JobsOK, HistoryOK
    <2>5. CASE CreateSubnet(p)
      <3>1. v[p].at \in Cidr
        BY <2>5, <1>b DEF CreateSubnet, Calls, Knowing, Locals
      <3>2. Knowing("range", v[p]) BY <3>1 DEF Knowing, FlowPC
      <3>3. QED BY <2>5, <3>1, <3>2, <1>a, <1>b, ThenTypes DEF CreateSubnet, ComposePC
    <2>6. CASE CreateRanges(p)
      <3> DEFINE w == [v[p] EXCEPT !.known = @ \cup {v[p].at}, !.at = NoCidr]
      <3>1. v[p].at \in Cidr
        BY <2>6, <1>b DEF CreateRanges, Calls, Knowing, Locals
      <3>2. w \in Locals
        <4>1. v[p].known \cup {v[p].at} \subseteq Cidr BY <3>1, <1>b DEF Locals
        <4>2. QED BY <4>1, <1>b, UpdateTypes
      <3>3. Then(p, "network", w, {}) BY <2>6 DEF CreateRanges
      <3> HIDE DEF w
      <3>4. QED BY <3>2, <3>3, <1>a, <1>c, ThenTypes DEF ComposePC, FlowPC
    <2>7. CASE LooksForVM(p)
      <3>1. CASE \E s \in System : Goto(p, Composed(p)) /\ v' = [v EXCEPT ![p] = Knows(s)]
        <4>1. PICK s \in System : Goto(p, Composed(p)) /\ v' = [v EXCEPT ![p] = Knows(s)]
          BY <3>1
        <4>2. Composed(p) \in Labels /\ Knowing(Composed(p), Knows(s))
          BY <1>a DEF Composed, FlowPC, Knowing
        <4>3. ProcsOK' BY <4>1, <4>2, StepTypes
        <4>4. QED BY <2>7, <4>3 DEF LooksForVM, JobsOK, HistoryOK
      <3>2. CASE Goto(p, "compose") /\ v' = v
        <4>1. ProcsOK' BY <3>2, <1>a, <1>b, <1>c, GotoTypes DEF ComposePC, FlowPC
        <4>2. QED BY <2>7, <4>1 DEF LooksForVM, JobsOK, HistoryOK
      <3>3. QED BY <2>7, <3>1, <3>2 DEF LooksForVM
    <2>8. CASE ComposeVM(p)
      <3>1. PICK s \in Unborn : Then(p, Composed(p), Knows(s), {})
        BY <2>8 DEF ComposeVM
      <3>2. Composed(p) \in Labels /\ Knowing(Composed(p), Knows(s)) /\ s \in System
        BY <1>a DEF Composed, FlowPC, Knowing, Unborn
      <3>3. QED BY <3>1, <3>2, ThenTypes
    <2>9. CASE CallFails(p)
      <3>1. HalfDone(p) \subseteq {"host"} \cup Cidr
        BY <1>b DEF HalfDone, Knowing, Locals
      <3>2. Error(p) /\ excused \subseteq Call BY <2>9 DEF CallFails, HistoryOK
      <3>3. ProcsOK' /\ JobsOK' /\ excused' \subseteq Call BY <3>2, ErrorTypes
      <3>4. QED BY <2>9, <3>1, <3>3 DEF CallFails, HistoryOK
    <2>10. QED BY <1>2, <2>1, <2>2, <2>3, <2>4, <2>5, <2>6, <2>7, <2>8, <2>9 DEF Flow, OtherCall
  <1>3. ASSUME NEW s \in System, Worker(s) \/ Expire(s) \/ Commissioned(s) PROVE OK'
    <2>1. CASE WorkerStarts(s) BY <2>1, <1>a, <1>d DEF WorkerStarts, JobsOK, Results
    <2>2. CASE Poll(s)
      <3>1. /\ \E l \in {"interfaces", "broken"} : Goto(s, l) /\ l \in Labels /\ Knowing(l, v[s])
            /\ v' = v
        BY <2>2, <1>a, <1>b DEF Poll, Knowing, FlowPC
      <3>2. ProcsOK' BY <3>1, <1>a, GotoTypes
      <3>3. QED BY <2>2, <3>2 DEF Poll, JobsOK, HistoryOK
    <2>3. CASE GetInterfaces(s)
      <3> DEFINE w == [v[s] EXCEPT !.left = Cidr \ links[v[s].system]]
      <3>1. w \in Locals /\ Knowing("disconnect", w)
        BY <2>3, <1>a, <1>b DEF GetInterfaces, Calls, Locals, Knowing, FlowPC
      <3>2. v' = [v EXCEPT ![s] = w] BY <2>3 DEF GetInterfaces, ProcsOK, Locals
      <3> HIDE DEF w
      <3>3. ProcsOK' BY <2>3, <3>1, <3>2, <1>a, StepTypes DEF GetInterfaces, FlowPC
      <3>4. QED BY <2>3, <3>3 DEF GetInterfaces, JobsOK, HistoryOK
    <2>4. CASE Disconnect(s)
      <3>1. PICK n \in v[s].left : Then(s, "link", [v[s] EXCEPT !.left = @ \ {n}, !.at = n], {})
        BY <2>4 DEF Disconnect
      <3> DEFINE w == [v[s] EXCEPT !.left = @ \ {n}, !.at = n]
      <3>2. w \in Locals /\ Knowing("link", w)
        <4>1. v[s] \in Locals /\ n \in Cidr /\ v[s].left \ {n} \subseteq Cidr
          BY <3>1, <1>a, <1>b DEF Locals
        <4>2. w \in Locals /\ w.at = n
          <5>1. PICK rest \in SUBSET Cidr : rest = v[s].left \ {n} BY <4>1
          <5>2. PICK old \in Locals : old = v[s] BY <4>1
          <5>3. [old EXCEPT !.left = rest, !.at = n] \in Locals
                /\ [old EXCEPT !.left = rest, !.at = n].at = n
            BY <4>1 DEF Locals
          <5>4. QED BY <5>1, <5>2, <5>3
        <4>3. w.system = v[s].system /\ v[s].system # NoSystem
          BY <2>4, <4>1, <1>a, <1>b DEF Disconnect, Calls, Knowing, FlowPC, Locals
        <4> HIDE DEF w
        <4>4. QED BY <4>1, <4>2, <4>3 DEF Knowing
      <3> HIDE DEF w
      <3>3. Then(s, "link", w, {}) BY <3>1 DEF w
      <3>4. QED BY <3>2, <3>3, <1>a, ThenTypes DEF FlowPC
    <2>5. CASE Link(s)
      <3> DEFINE w == [v[s] EXCEPT !.at = NoCidr]
      <3>1. w \in Locals /\ Knowing("disconnect", w)
        BY <2>5, <1>a, <1>b DEF Link, Calls, Locals, Knowing, FlowPC
      <3>2. Then(s, "disconnect", w, {}) BY <2>5 DEF Link
      <3> HIDE DEF w
      <3>3. QED BY <3>1, <3>2, <1>a, ThenTypes DEF FlowPC
    <2>6. CASE Linked(s) \/ MarkBroken(s)
      <3>1. Exits(s, "succeeded") /\ UNCHANGED <<abandoned, excused>>
        BY <2>6 DEF Linked, MarkBroken
      <3>2. QED BY <3>1, <1>a, ExitsTypes DEF Results, HistoryOK
    <2>7. CASE Expire(s) \/ Commissioned(s)
      BY <2>7 DEF Expire, Commissioned, ProcsOK, JobsOK, HistoryOK, Results
    <2>8. QED BY <1>3, <2>1, <2>2, <2>3, <2>4, <2>5, <2>6, <2>7 DEF Worker
  <1>4. CASE UNCHANGED vmVars BY <1>4 DEF vmVars, ProcsOK, JobsOK, HistoryOK
  <1>5. QED BY <1>1, <1>2, <1>3, <1>4 DEF VMNext

\* The variables keep their types, and a process that has composed a VM or is at a
\* network knows it: VMCompose uses no ID of a response that it has not got.
THEOREM VMTypeCorrect == VMSpec => []VTypeOK
  <1>1. VMInit => VTypeOK
    BY LocalsTypes DEF VMInit, VTypeOK, VmStatus, FlowPC
  <1>2. VTypeOK /\ [VMNext]_vmVars => VTypeOK'
    <2> SUFFICES ASSUME VTypeOK, [VMNext]_vmVars PROVE VTypeOK'
      OBVIOUS
    <2>1. MaasOK' BY MaasStep
    <2>2. ProcsOK' /\ JobsOK' /\ HistoryOK' BY ProcsStep
    <2>3. QED
      BY <2>1, <2>2 DEF VTypeOK, MaasOK, ProcsOK, JobsOK, HistoryOK, Labels, Results, Knowing
  <1>3. QED BY <1>1, <1>2, PTL DEF VMSpec

-----------------------------------------------------------------------------
\* A process that holds the ID of the registered host knows of one.
HoldsAHost == \A p \in Proc : v[p].holds => host # "none"

HostInv == HoldsAHost /\ ReleasesUnhosted

\* MAAS has one VM of the name.
OneVM == \A s, t \in System : Exists(s) /\ Exists(t) => s = t

\* The handlers never run the flow; a worker runs while its job does, and nothing but
\* the flow; only who has composed a VM has a system ID.
Placed ==
    /\ \A c \in Call : pc[c] \notin FlowPC
    /\ \A s \in System : /\ pc[s] \in {"idle"} \cup ComposePC \cup FlowPC
                         /\ pc[s] # "idle" <=> job[s] = "running"
    /\ \A p \in Proc : v[p].system # NoSystem => pc[p] \in {"register"} \cup FlowPC

\* Jobs and processes are about VMs that MAAS knows or has known; a worker is at its
\* own VM as long as that exists.
Born ==
    /\ \A s \in System : job[s] # "none" => vm[s] # "unborn"
    /\ \A p \in Proc : v[p].system # NoSystem => vm[v[p].system] # "unborn"
    /\ \A s \in System : Exists(s) /\ v[s].system # NoSystem => v[s].system = s

\* Interfaces are linked, and jobs succeed, only after the commissioning.
Commissioning(s) == vm[s] = "Commissioning"
AfterCommissioning ==
    /\ \A s, t \in System :
           pc[s] \in {"interfaces", "disconnect", "link"} /\ v[s].system = t
           => ~Commissioning(t)
    /\ \A s \in System : job[s] = "succeeded" => ~Commissioning(s)

\* An interface without its link is still ahead of every worker that has read the
\* list, unless one is just linking it or will mark the VM broken.
Lacks(t, n)   == vm[t] = "Ready" /\ n \notin links[t]
Covers(q, t, n) == v[q].system = t /\ (pc[q] = "broken" \/ (pc[q] = "link" /\ v[q].at = n))
Covered(t, n) == \E q \in System : Covers(q, t, n)
AtLinks(s, t) == pc[s] \in {"disconnect", "link"} /\ v[s].system = t
Ahead ==
    \A s, t \in System, n \in Cidr :
        AtLinks(s, t) /\ Lacks(t, n) => n \in v[s].left \/ Covered(t, n)
LeftBehind ==
    \A s \in System, n \in Cidr : job[s] = "succeeded" /\ Lacks(s, n) => Covered(s, n)

LinkInv == OneVM /\ Born /\ AfterCommissioning /\ Ahead /\ LeftBehind

-----------------------------------------------------------------------------
\* Only process p moves.
Moves(p) == \A q \in Proc \ {p} : pc'[q] = pc[q] /\ v'[q] = v[q]

\* How a call leaves process p: where it went, or at an error.
Went(p, l, w) == pc'[p] = l /\ v'[p] = w
Erred(p) ==
    \/ pc[p] \in FlowPC /\ Went(p, "broken", Knows(v[p].system)) /\ job' = job
    \/ pc[p] \notin FlowPC /\ Went(p, "idle", NoLocals)
       /\ job' = IF p \in System THEN [job EXCEPT ![p] = "failed"] ELSE job

LEMMA ErrorMoves ==
    ASSUME VTypeOK, NEW p \in Proc, Error(p)
    PROVE  /\ Moves(p) /\ Erred(p)
           /\ excused' \in {excused, excused \ {p}}
           /\ pc'[p] \notin {"unsubscribe", "release", "certificate", "range"}
  <1>1. CASE pc[p] \in FlowPC /\ Goto(p, "broken") /\ v' = [v EXCEPT ![p] = Knows(v[p].system)]
             /\ UNCHANGED <<job, excused>>
    BY <1>1 DEF VTypeOK, Goto, Moves, Erred, Went
  <1>2. CASE pc[p] \notin FlowPC /\ Exits(p, "failed") /\ excused' = excused \ {p}
    BY <1>2 DEF VTypeOK, Exits, Goto, Moves, Erred, Went
  <1>3. QED BY <1>1, <1>2 DEF Error

Leaves(p, l, w, made) ==
    /\ Moves(p)
    /\ \/ Went(p, l, w) /\ UNCHANGED <<job, abandoned, excused>>
       \/ /\ Erred(p) /\ excused' \in {excused, excused \ {p}}
          /\ pc'[p] \notin {"unsubscribe", "release", "certificate", "range"}
          /\ abandoned' = abandoned \cup made

LEMMA ThenMoves ==
    ASSUME VTypeOK, NEW p \in Proc, NEW l, NEW w, NEW made, Then(p, l, w, made)
    PROVE  Leaves(p, l, w, made)
  <1> USE DEF Leaves
  <1>1. CASE Goto(p, l) /\ v' = [v EXCEPT ![p] = w] /\ UNCHANGED <<job, abandoned, excused>>
    BY <1>1 DEF VTypeOK, Goto, Moves, Went
  <1>2. CASE Error(p) /\ abandoned' = abandoned \cup made
    BY <1>2, ErrorMoves
  <1>3. QED BY <1>1, <1>2 DEF Then

\* A process that moves keeps HostInv if no host appears unnoticed.
LEMMA HostKept ==
    ASSUME VTypeOK, HostInv, NEW p \in Proc, Moves(p),
           host = "none" <=> host' = "none",
           v'[p].holds => host # "none",
           excused \ {p} \subseteq excused',
           pc'[p] \in {"unsubscribe", "release"} /\ p \in Call =>
               host' = "none" \/ p \in excused'
    PROVE  HostInv'
  <1>1. HoldsAHost' BY DEF HostInv, HoldsAHost, Moves
  <1>2. ReleasesUnhosted' BY DEF HostInv, ReleasesUnhosted, Moves, Proc
  <1>3. QED BY <1>1, <1>2 DEF HostInv

LEMMA HostStep ==
    ASSUME VTypeOK, HostInv, [VMNext]_vmVars
    PROVE  HostInv'
  <1>a. Call \subseteq Proc /\ System \subseteq Proc BY DEF Proc
  <1>b. ~NoLocals.holds /\ Holding.holds /\ \A s : ~Knows(s).holds
    BY DEF NoLocals, Holding, Knows
  <1>c. \A p \in Proc : v[p].holds => host # "none" BY DEF HostInv, HoldsAHost
  <1>d. ASSUME NEW p \in Proc, Compose(p) PROVE HostInv'
    <2>1. \E l \in {"refresh", "setup"} :
            Goto(p, l) /\ ((host # "none" /\ v' = [v EXCEPT ![p] = Holding]) \/ v' = v)
      BY <1>d DEF Compose
    <2>2. /\ Moves(p) /\ pc'[p] \notin {"unsubscribe", "release"}
          /\ v'[p].holds => host # "none"
      BY <2>1, <1>b, <1>c DEF VTypeOK, Goto, Moves
    <2>3. QED BY <1>d, <2>2, HostKept DEF Compose
  <1>e. ASSUME NEW p \in Proc, Moves(p), Erred(p), excused' \in {excused, excused \ {p}},
               pc'[p] \notin {"unsubscribe", "release"}, host = "none" <=> host' = "none"
        PROVE  HostInv'
    BY <1>e, <1>b, HostKept DEF Erred, Went
  <1>1. ASSUME NEW c \in Call, Handler(c) PROVE HostInv'
    <2>1. CASE BeginCompose(c) BY <2>1, <1>a, <1>d DEF BeginCompose
    <2>2. CASE RegisterJob(c)
      <3>1. Moves(c) /\ Went(c, "idle", NoLocals)
        BY <2>2, <1>a DEF RegisterJob, Goto, Moves, Went, VTypeOK
      <3>2. QED BY <2>2, <3>1, <1>a, <1>b, HostKept DEF RegisterJob, Went
    <2>3. CASE VMDelete(c) \/ OsDeploy(c)
      BY <2>3 DEF VMDelete, OsDeploy, HostInv, HoldsAHost, ReleasesUnhosted
    <2>4. CASE BeginRelease(c)
      <3>1. CASE host # "none" /\ Goto(c, "deleteHost") /\ v' = [v EXCEPT ![c] = Holding]
                 /\ UNCHANGED excused
        <4>1. Moves(c) /\ Went(c, "deleteHost", Holding)
          BY <3>1, <1>a DEF Goto, Moves, Went, VTypeOK
        <4>2. QED BY <2>4, <3>1, <4>1, <1>a, HostKept DEF BeginRelease, Went
      <3>2. CASE /\ Goto(c, "unsubscribe") /\ UNCHANGED v
                 /\ excused' = IF host = "none" THEN excused ELSE excused \cup {c}
        <4>1. Moves(c) /\ Went(c, "unsubscribe", v[c])
          BY <3>2, <1>a DEF Goto, Moves, Went, VTypeOK
        <4>2. QED BY <2>4, <3>2, <4>1, <1>a, <1>c, HostKept DEF BeginRelease, Went
      <3>3. QED BY <2>4, <3>1, <3>2 DEF BeginRelease
    <2>5. CASE DeleteHost(c)
      <3>1. \A p \in Proc : ~v'[p].holds
        <4>1. \A p \in Proc : v'[p] = [v[p] EXCEPT !.holds = FALSE] /\ v[p] \in Locals
          BY <2>5 DEF DeleteHost, VTypeOK
        <4>2. \A p \in Proc : ~[v[p] EXCEPT !.holds = FALSE].holds
          BY <4>1 DEF Locals
        <4>3. QED BY <4>1, <4>2
      <3>2. QED BY <2>5, <3>1 DEF DeleteHost, HostInv, HoldsAHost, ReleasesUnhosted
    <2>6. CASE Unsubscribe(c)
      <3>1. pc[c] = "unsubscribe" => host = "none" \/ c \in excused
        BY DEF HostInv, ReleasesUnhosted
      <3>2. Leaves(c, "release", v[c], {}) BY <2>6, <1>a, ThenMoves DEF Unsubscribe
      <3>3. CASE Erred(c) /\ excused' \in {excused, excused \ {c}}
                 /\ pc'[c] \notin {"unsubscribe", "release"}
        BY <2>6, <3>2, <3>3, <1>a, <1>e DEF Unsubscribe, Leaves
      <3>4. CASE Went(c, "release", v[c]) /\ excused' = excused
        BY <2>6, <3>1, <3>2, <3>4, <1>a, <1>c, HostKept DEF Unsubscribe, Went, Leaves
      <3>5. QED BY <3>2, <3>3, <3>4 DEF Leaves
    <2>7. CASE ReleaseMachine(c)
      <3>1. Moves(c) /\ Went(c, "idle", NoLocals)
        BY <2>7, <1>a DEF ReleaseMachine, Exits, Goto, Moves, Went, VTypeOK
      <3>2. QED BY <2>7, <3>1, <1>a, <1>b, HostKept DEF ReleaseMachine, Went
    <2>8. QED BY <1>1, <2>1, <2>2, <2>3, <2>4, <2>5, <2>6, <2>7 DEF Handler
  <1>2. ASSUME NEW p \in Proc, Flow(p) PROVE HostInv'
    <2>1. ASSUME NEW l \in {"addHost", "refresh", "list", "range", "network", "poll", "register"},
                 NEW w, NEW made, Then(p, l, w, made), w.holds => host # "none",
                 host = "none" <=> host' = "none"
          PROVE  HostInv'
      <3>1. Leaves(p, l, w, made) BY <2>1, ThenMoves
      <3>2. QED BY <2>1, <3>1, <1>e, HostKept DEF Went, Leaves
    <2>2. CASE SetupLxd(p) \/ Refresh(p)
      BY <2>1, <2>2, <1>c DEF SetupLxd, Refresh
    <2>3. CASE Certificate(p)
      <3>1. v[p].holds BY <2>3 DEF Certificate, Calls, Refused
      <3>2. QED BY <2>1, <2>3, <3>1, <1>c DEF Certificate
    <2>4. CASE AddHost(p)
      <3>1. Moves(p) /\ pc'[p] \in {"certificate", "idle"}
        BY <2>4 DEF AddHost, Exits, Goto, Moves, VTypeOK
      <3>2. HoldsAHost' BY <2>4 DEF AddHost, HoldsAHost
      <3>3. ReleasesUnhosted'
        BY <2>4, <3>1, <1>a DEF AddHost, ReleasesUnhosted, Moves
      <3>4. QED BY <3>2, <3>3 DEF HostInv
    <2>5. CASE ListSubnets(p) \/ Network(p)
      <3>1. Moves(p) /\ pc'[p] \in {"network", "subnet", "exists"}
        BY <2>5 DEF ListSubnets, Network, Goto, Moves, VTypeOK
      <3>2. v'[p].holds = v[p].holds
        <4>1. v[p] \in Locals BY DEF VTypeOK
        <4>2. CASE ListSubnets(p) BY <4>1, <4>2 DEF ListSubnets, VTypeOK, Locals
        <4>3. ASSUME NEW n, NEW m,
                     v' = [v EXCEPT ![p].left = @ \ {n}, ![p].at = m]
              PROVE  v'[p].holds = v[p].holds
          BY <4>1, <4>3 DEF VTypeOK, Locals
        <4>4. CASE Network(p)
          <5>1. CASE v' = [v EXCEPT ![p].known = {}] BY <4>1, <5>1 DEF VTypeOK, Locals
          <5>2. QED BY <4>3, <4>4, <5>1 DEF Network
        <4>5. QED BY <2>5, <4>2, <4>4
      <3>3. QED BY <2>5, <3>1, <3>2, <1>c, HostKept DEF ListSubnets, Network
    <2>6. CASE CreateSubnet(p) BY <2>1, <2>6, <1>c DEF CreateSubnet
    <2>7. CASE CreateRanges(p)
      <3>1. PICK w \in Locals : w = [v[p] EXCEPT !.known = @ \cup {v[p].at}, !.at = NoCidr]
        <4>1. v[p] \in Locals /\ v[p].at \in Cidr
          BY <2>7 DEF CreateRanges, Calls, VTypeOK, Locals
        <4>2. QED BY <4>1 DEF Locals
      <3>2. w.holds = v[p].holds BY <3>1 DEF VTypeOK, Locals
      <3>3. Then(p, "network", w, {}) BY <2>7, <3>1 DEF CreateRanges
      <3>4. QED BY <2>1, <2>7, <3>2, <3>3, <1>c DEF CreateRanges
    <2>8. CASE LooksForVM(p)
      <3>1. /\ Moves(p) /\ pc'[p] \notin {"unsubscribe", "release"}
            /\ v'[p] = v[p] \/ \E s : v'[p] = Knows(s)
        BY <2>8 DEF LooksForVM, Composed, Goto, Moves, VTypeOK
      <3>2. QED BY <2>8, <3>1, <1>b, <1>c, HostKept DEF LooksForVM
    <2>9. CASE ComposeVM(p)
      <3>1. PICK s \in Unborn : Then(p, Composed(p), Knows(s), {}) BY <2>9 DEF ComposeVM
      <3>2. Composed(p) \in {"poll", "register"} BY DEF Composed
      <3>3. QED BY <2>1, <2>9, <3>1, <3>2, <1>b DEF ComposeVM
    <2>10. CASE CallFails(p)
      BY <2>10, <1>e, ErrorMoves DEF CallFails
    <2>11. QED BY <1>2, <2>2, <2>3, <2>4, <2>5, <2>6, <2>7, <2>8, <2>9, <2>10 DEF Flow, OtherCall
  <1>3. ASSUME NEW s \in System, Worker(s) \/ Expire(s) \/ Commissioned(s) PROVE HostInv'
    <2>1. CASE WorkerStarts(s) BY <2>1, <1>a, <1>d DEF WorkerStarts
    <2>2. CASE Expire(s) \/ Commissioned(s)
      BY <2>2 DEF Expire, Commissioned, HostInv, HoldsAHost, ReleasesUnhosted
    <2>3. CASE Poll(s) \/ GetInterfaces(s) \/ Disconnect(s) \/ Link(s) \/ Linked(s) \/ MarkBroken(s)
      <3>1. s \in Proc /\ s \notin Call BY <1>a
      <3>2. /\ Moves(s) /\ excused \ {s} \subseteq excused' /\ host' = host
            /\ v'[s].holds => v[s].holds
        <4>1. v[s] \in Locals BY <3>1 DEF VTypeOK
        <4>2. CASE Poll(s) BY <4>2, <3>1 DEF Poll, Goto, Moves, VTypeOK
        <4>3. CASE GetInterfaces(s)
          <5>1. v'[s].holds = v[s].holds BY <4>1, <4>3, <3>1 DEF GetInterfaces, VTypeOK, Locals
          <5>2. QED BY <4>3, <5>1, <3>1 DEF GetInterfaces, Goto, Moves, VTypeOK
        <4>4. ASSUME NEW l, NEW w, w.holds = v[s].holds, Then(s, l, w, {})
              PROVE  Moves(s) /\ excused \ {s} \subseteq excused' /\ (v'[s].holds => v[s].holds)
          <5>1. Leaves(s, l, w, {}) BY <4>4, <3>1, ThenMoves
          <5>2. QED BY <4>4, <5>1, <1>b DEF Went, Erred, Leaves
        <4>5. CASE Disconnect(s)
          <5>1. PICK n \in v[s].left : Then(s, "link", [v[s] EXCEPT !.left = @ \ {n}, !.at = n], {})
            BY <4>5 DEF Disconnect
          <5>2. PICK w : w = [v[s] EXCEPT !.left = @ \ {n}, !.at = n] OBVIOUS
          <5>3. w.holds = v[s].holds BY <4>1, <5>2 DEF Locals
          <5>4. QED BY <4>4, <4>5, <5>1, <5>2, <5>3 DEF Disconnect
        <4>6. CASE Link(s)
          <5>1. PICK w : w = [v[s] EXCEPT !.at = NoCidr] OBVIOUS
          <5>2. w.holds = v[s].holds BY <4>1, <5>1 DEF Locals
          <5>3. QED BY <4>4, <4>6, <5>1, <5>2 DEF Link
        <4>7. CASE Linked(s) \/ MarkBroken(s)
          BY <4>7, <3>1, <1>b DEF Linked, MarkBroken, Exits, Goto, Moves, VTypeOK
        <4>8. QED BY <2>3, <4>2, <4>3, <4>5, <4>6, <4>7
      <3>3. QED BY <3>1, <3>2, <1>c, HostKept
    <2>4. QED BY <1>3, <2>1, <2>2, <2>3 DEF Worker
  <1>4. CASE UNCHANGED vmVars
    BY <1>4 DEF vmVars, HostInv, HoldsAHost, ReleasesUnhosted
  <1>5. QED BY <1>1, <1>2, <1>3, <1>4 DEF VMNext

\* OsRelease deletes the VM host before it releases the machine: a release that is past
\* the deletion finds no VM host registered, however many handlers and workers compose
\* and release, unless it could not read the list or one came after it.
THEOREM ReleasedUnhosted == VMSpec => []ReleasesUnhosted
  <1>1. VMInit => HostInv
    BY DEF VMInit, HostInv, HoldsAHost, ReleasesUnhosted, NoLocals, Proc
  <1>2. VTypeOK /\ HostInv /\ [VMNext]_vmVars => HostInv' BY HostStep
  <1>3. HostInv => ReleasesUnhosted BY DEF HostInv
  <1>4. QED BY <1>1, <1>2, <1>3, VMTypeCorrect, PTL DEF VMSpec

-----------------------------------------------------------------------------
\* A process that moves stays where it belongs.
LEMMA PlacedKept ==
    ASSUME Placed, NEW p \in Proc, Moves(p),
           \A s \in System \ {p} : job'[s] = "running" <=> job[s] = "running",
           p \in Call => pc'[p] \notin FlowPC,
           p \in System => /\ pc'[p] \in {"idle"} \cup ComposePC \cup FlowPC
                           /\ pc'[p] # "idle" <=> job'[p] = "running",
           v'[p].system # NoSystem => pc'[p] \in {"register"} \cup FlowPC
    PROVE  Placed'
  <1>1. \A c \in Call : pc'[c] \notin FlowPC BY DEF Placed, Moves, Proc
  <1>2. \A s \in System : /\ pc'[s] \in {"idle"} \cup ComposePC \cup FlowPC
                          /\ pc'[s] # "idle" <=> job'[s] = "running"
    BY DEF Placed, Moves, Proc
  <1>3. \A q \in Proc : v'[q].system # NoSystem => pc'[q] \in {"register"} \cup FlowPC
    BY DEF Placed, Moves
  <1>4. QED BY <1>1, <1>2, <1>3 DEF Placed

\* A process goes on in its flow, with a system ID only where it may have one.
LEMMA PlacedWent ==
    ASSUME Placed, NEW p \in Proc, NEW l, NEW w, Moves(p), Went(p, l, w), job' = job,
           pc[p] # "idle", l # "idle",
           p \in Call => l \notin FlowPC,
           p \in System => l \in ComposePC \cup FlowPC,
           w.system # NoSystem => l \in {"register"} \cup FlowPC
    PROVE  Placed'
  BY PlacedKept DEF Placed, Went

LEMMA PlacedErred ==
    ASSUME VTypeOK, Placed, NEW p \in Proc, Moves(p), Erred(p)
    PROVE  Placed'
  <1>1. CASE pc[p] \in FlowPC /\ Went(p, "broken", Knows(v[p].system)) /\ job' = job
    <2>1. p \in System BY <1>1 DEF Placed, Proc
    <2>2. QED BY <1>1, <2>1, VMAssumption, PlacedWent DEF FlowPC
  <1>2. CASE Went(p, "idle", NoLocals)
             /\ job' = IF p \in System THEN [job EXCEPT ![p] = "failed"] ELSE job
    <2>1. \A s \in System \ {p} : job'[s] = job[s] BY <1>2 DEF VTypeOK
    <2>2. p \in System => job'[p] = "failed" BY <1>2 DEF VTypeOK
    <2>3. "idle" \notin FlowPC /\ NoLocals.system = NoSystem BY LocalsTypes DEF FlowPC
    <2>4. QED BY <1>2, <2>1, <2>2, <2>3, PlacedKept DEF Went
  <1>3. QED BY <1>1, <1>2 DEF Erred

LEMMA PlacedStep ==
    ASSUME VTypeOK, Placed, [VMNext]_vmVars
    PROVE  Placed'
  <1>a. /\ Call \subseteq Proc /\ System \subseteq Proc /\ Call \cap System = {}
        /\ \A p \in Proc : p \in System <=> p \notin Call
    BY DEF Proc
  <1>b. /\ NoLocals.system = NoSystem /\ Holding.system = NoSystem
        /\ NoLocals \in Locals /\ Holding \in Locals /\ \A p \in Proc : v[p] \in Locals
    BY LocalsTypes DEF VTypeOK
  <1>c. ComposePC \cap ({"idle", "register"} \cup FlowPC \cup ReleasePC) = {}
    BY DEF ComposePC, FlowPC, ReleasePC
  <1>d. ReleasePC \cap ({"idle", "register"} \cup FlowPC) = {} /\ "register" \notin FlowPC
        /\ "idle" \notin FlowPC
    BY DEF FlowPC, ReleasePC
  <1>e. ASSUME NEW p \in Proc, NEW l, NEW w, NEW made, Then(p, l, w, made),
               pc[p] # "idle", l # "idle",
               p \in Call => l \notin FlowPC,
               p \in System => l \in ComposePC \cup FlowPC,
               w.system # NoSystem => l \in {"register"} \cup FlowPC
        PROVE  Placed'
    <2>1. Leaves(p, l, w, made) BY <1>e, ThenMoves
    <2>2. Moves(p) BY <2>1 DEF Leaves
    <2>3. CASE Erred(p) BY <2>2, <2>3, PlacedErred
    <2>4. CASE Went(p, l, w) /\ job' = job BY <1>e, <2>2, <2>4, PlacedWent
    <2>5. QED BY <2>1, <2>3, <2>4 DEF Leaves
  <1>f. \A p \in Proc : pc[p] \in ComposePC \cup ReleasePC \cup {"idle"} => v[p].system = NoSystem
    BY <1>c, <1>d DEF Placed
  <1>g. ASSUME NEW p \in Proc, Compose(p), pc[p] = "idle"
        PROVE  \E l \in ComposePC, w \in Locals : w.system = NoSystem /\ Moves(p) /\ Went(p, l, w)
    <2>1. CASE Goto(p, "refresh") /\ v' = [v EXCEPT ![p] = Holding]
      <3>1. Moves(p) /\ Went(p, "refresh", Holding) BY <2>1 DEF Goto, Moves, Went, VTypeOK
      <3>2. QED BY <3>1, <1>b DEF ComposePC
    <2>2. CASE Goto(p, "setup") /\ v' = v
      <3>1. Moves(p) /\ Went(p, "setup", v[p]) BY <2>2 DEF Goto, Moves, Went, VTypeOK
      <3>2. v[p].system = NoSystem BY <1>f, <1>g
      <3>3. QED BY <3>1, <3>2, <1>b DEF ComposePC
    <2>3. QED BY <1>g, <2>1, <2>2 DEF Compose
  <1>1. ASSUME NEW c \in Call, Handler(c) PROVE Placed'
    <2> c \in Proc /\ c \notin System BY <1>a
    <2>1. CASE BeginCompose(c)
      <3>1. PICK l \in ComposePC, w \in Locals : w.system = NoSystem /\ Moves(c) /\ Went(c, l, w)
        BY <2>1, <1>g DEF BeginCompose
      <3>2. QED BY <2>1, <3>1, <1>c, PlacedKept DEF BeginCompose, Went
    <2>2. CASE RegisterJob(c)
      <3>1. Moves(c) /\ Went(c, "idle", NoLocals)
        BY <2>2 DEF RegisterJob, Goto, Moves, Went, VTypeOK
      <3>2. \A s \in System : job'[s] = "running" <=> job[s] = "running"
        BY <2>2 DEF RegisterJob, VTypeOK
      <3>3. QED BY <3>1, <3>2, <1>b, <1>d, PlacedKept DEF Went
    <2>3. CASE VMDelete(c) \/ OsDeploy(c) BY <2>3 DEF VMDelete, OsDeploy, Placed
    <2>4. CASE BeginRelease(c)
      <3>1. \E l \in ReleasePC, w \in Locals : w.system = NoSystem /\ Moves(c) /\ Went(c, l, w)
        <4>1. CASE Goto(c, "deleteHost") /\ v' = [v EXCEPT ![c] = Holding]
          <5>1. Moves(c) /\ Went(c, "deleteHost", Holding) BY <4>1 DEF Goto, Moves, Went, VTypeOK
          <5>2. QED BY <5>1, <1>b DEF ReleasePC
        <4>2. CASE Goto(c, "unsubscribe") /\ v' = v
          <5>1. Moves(c) /\ Went(c, "unsubscribe", v[c]) BY <4>2 DEF Goto, Moves, Went, VTypeOK
          <5>2. v[c].system = NoSystem BY <2>4, <1>f DEF BeginRelease
          <5>3. QED BY <5>1, <5>2, <1>b DEF ReleasePC
        <4>3. QED BY <2>4, <4>1, <4>2 DEF BeginRelease
      <3>2. PICK l \in ReleasePC, w \in Locals : w.system = NoSystem /\ Moves(c) /\ Went(c, l, w) BY <3>1
      <3>3. QED BY <2>4, <3>2, <1>d, PlacedKept DEF BeginRelease, Went
    <2>5. CASE DeleteHost(c)
      <3>1. \A p \in Proc : v'[p].system = v[p].system
        <4>1. \A p \in Proc : v'[p] = [v[p] EXCEPT !.holds = FALSE] /\ v[p] \in Locals
          BY <2>5 DEF DeleteHost, VTypeOK
        <4>2. QED BY <4>1, UpdateTypes
      <3>2. /\ pc[c] = "deleteHost" /\ pc'[c] \in {"unsubscribe", "idle"} /\ job' = job
            /\ \A p \in Proc \ {c} : pc'[p] = pc[p]
        BY <2>5 DEF DeleteHost, Calls, Goto, VTypeOK
      <3>3. v[c].system = NoSystem BY <3>2, <1>f DEF ReleasePC
      <3>4. pc'[c] \notin FlowPC BY <3>2 DEF FlowPC
      <3>5. QED BY <3>1, <3>2, <3>3, <3>4 DEF Placed, Proc
    <2>6. CASE Unsubscribe(c)
      <3>1. pc[c] = "unsubscribe" /\ Then(c, "release", v[c], {}) BY <2>6 DEF Unsubscribe
      <3>2. v[c].system = NoSystem BY <3>1, <1>f DEF ReleasePC
      <3>3. QED BY <3>1, <3>2, <1>e DEF FlowPC
    <2>7. CASE ReleaseMachine(c)
      <3>1. Moves(c) /\ Went(c, "idle", NoLocals) /\ job' = job
        BY <2>7 DEF ReleaseMachine, Exits, Goto, Moves, Went, VTypeOK
      <3>2. QED BY <3>1, <1>b, <1>d, PlacedKept DEF Went
    <2>8. QED BY <1>1, <2>1, <2>2, <2>3, <2>4, <2>5, <2>6, <2>7 DEF Handler
  <1>2. ASSUME NEW p \in Proc, Flow(p) PROVE Placed'
    <2>1. CASE SetupLxd(p) \/ Certificate(p) \/ Refresh(p)
      <3>1. PICK l \in {"addHost", "refresh", "list"} : Then(p, l, v[p], {})
        BY <2>1 DEF SetupLxd, Certificate, Refresh
      <3>2. pc[p] \in ComposePC /\ l \in ComposePC
        BY <2>1, <3>1 DEF SetupLxd, Certificate, Refresh, Calls, ComposePC
      <3>3. v[p].system = NoSystem BY <3>2, <1>f
      <3>4. QED BY <3>1, <3>2, <3>3, <1>c, <1>e
    <2>2. CASE AddHost(p)
      <3>1. pc[p] \in ComposePC BY <2>2 DEF AddHost, Calls, ComposePC
      <3>2. CASE Goto(p, "certificate") /\ v' = [v EXCEPT ![p] = Holding] /\ job' = job
        <4>1. Moves(p) /\ Went(p, "certificate", Holding)
          BY <3>2 DEF Goto, Moves, Went, VTypeOK
        <4>2. "certificate" \in ComposePC BY DEF ComposePC
        <4>3. QED BY <3>1, <3>2, <4>1, <4>2, <1>b, <1>c, PlacedWent
      <3>3. CASE Exits(p, "failed")
        <4>1. Moves(p) /\ Erred(p)
          BY <3>1, <3>3, <1>c DEF Exits, Goto, Moves, Erred, Went, VTypeOK
        <4>2. QED BY <4>1, PlacedErred
      <3>4. QED BY <2>2, <3>2, <3>3 DEF AddHost
    <2>3. CASE ListSubnets(p) \/ Network(p)
      <3>1. pc[p] \in ComposePC /\ job' = job BY <2>3 DEF ListSubnets, Network, ComposePC
      <3>2. Moves(p) /\ pc'[p] \in {"network", "subnet", "exists"}
        BY <2>3 DEF ListSubnets, Network, Goto, Moves, VTypeOK
      <3>3. v'[p].system = v[p].system
        <4>1. CASE ListSubnets(p) BY <1>b, <4>1 DEF ListSubnets, VTypeOK, Locals
        <4>2. ASSUME NEW n, NEW m, v' = [v EXCEPT ![p].left = @ \ {n}, ![p].at = m]
              PROVE  v'[p].system = v[p].system
          BY <1>b, <4>2 DEF VTypeOK, Locals
        <4>3. CASE v' = [v EXCEPT ![p].known = {}] BY <1>b, <4>3 DEF VTypeOK, Locals
        <4>4. QED BY <2>3, <4>1, <4>2, <4>3 DEF Network
      <3>4. v[p].system = NoSystem BY <3>1, <1>f
      <3>5. pc'[p] \in ComposePC BY <3>2 DEF ComposePC
      <3>6. QED BY <3>1, <3>2, <3>3, <3>4, <3>5, <1>c, PlacedWent DEF Went
    <2>4. CASE CreateSubnet(p)
      <3>1. Then(p, "range", v[p], {v[p].at}) /\ pc[p] \in ComposePC
        BY <2>4 DEF CreateSubnet, Calls, ComposePC
      <3>2. v[p].system = NoSystem /\ "range" \in ComposePC BY <3>1, <1>f DEF ComposePC
      <3>3. QED BY <3>1, <3>2, <1>c, <1>e
    <2>5. CASE CreateRanges(p)
      <3>1. PICK w : w = [v[p] EXCEPT !.known = @ \cup {v[p].at}, !.at = NoCidr] OBVIOUS
      <3>2. Then(p, "network", w, {}) /\ pc[p] \in ComposePC
        BY <2>5, <3>1 DEF CreateRanges, Calls, ComposePC
      <3>3. w.system = v[p].system BY <1>b, <3>1 DEF Locals
      <3>4. w.system = NoSystem /\ "network" \in ComposePC BY <3>2, <3>3, <1>f DEF ComposePC
      <3>5. QED BY <3>2, <3>4, <1>c, <1>e
    <2>6. CASE LooksForVM(p)
      <3>1. pc[p] \in ComposePC /\ job' = job BY <2>6 DEF LooksForVM, ComposePC
      <3>2. CASE \E s \in System : Goto(p, Composed(p)) /\ v' = [v EXCEPT ![p] = Knows(s)]
        <4>1. PICK s \in System : Goto(p, Composed(p)) /\ v' = [v EXCEPT ![p] = Knows(s)]
          BY <3>2
        <4>2. Moves(p) /\ Went(p, Composed(p), Knows(s))
          BY <4>1 DEF Goto, Moves, Went, VTypeOK
        <4>3. /\ Composed(p) \in {"register"} \cup FlowPC /\ Composed(p) # "idle"
              /\ p \in Call => Composed(p) \notin FlowPC
              /\ p \in System => Composed(p) \in ComposePC \cup FlowPC
          BY <1>a DEF Composed, FlowPC
        <4>4. QED BY <3>1, <4>2, <4>3, <1>c, PlacedWent
      <3>3. CASE Goto(p, "compose") /\ v' = v
        <4>1. Moves(p) /\ Went(p, "compose", v[p]) BY <3>3 DEF Goto, Moves, Went, VTypeOK
        <4>2. v[p].system = NoSystem /\ "compose" \in ComposePC BY <3>1, <1>f DEF ComposePC
        <4>3. QED BY <3>1, <4>1, <4>2, <1>c, PlacedWent
      <3>4. QED BY <2>6, <3>2, <3>3 DEF LooksForVM
    <2>7. CASE ComposeVM(p)
      <3>1. PICK s \in Unborn : Then(p, Composed(p), Knows(s), {}) BY <2>7 DEF ComposeVM
      <3>2. pc[p] \in ComposePC BY <2>7 DEF ComposeVM, Calls, ComposePC
      <3>3. /\ Composed(p) \in {"register"} \cup FlowPC /\ Composed(p) # "idle"
            /\ p \in Call => Composed(p) \notin FlowPC
            /\ p \in System => Composed(p) \in ComposePC \cup FlowPC
        BY <1>a DEF Composed, FlowPC
      <3>4. QED BY <3>1, <3>2, <3>3, <1>c, <1>e
    <2>8. CASE CallFails(p) BY <2>8, ErrorMoves, PlacedErred DEF CallFails
    <2>9. QED BY <1>2, <2>1, <2>2, <2>3, <2>4, <2>5, <2>6, <2>7, <2>8 DEF Flow, OtherCall
  <1>3. ASSUME NEW s \in System, Worker(s) \/ Expire(s) \/ Commissioned(s) PROVE Placed'
    <2> s \in Proc /\ s \notin Call BY <1>a
    <2>1. CASE WorkerStarts(s)
      <3>1. pc[s] = "idle" BY <2>1 DEF WorkerStarts, Placed
      <3>2. PICK l \in ComposePC, w \in Locals : w.system = NoSystem /\ Moves(s) /\ Went(s, l, w)
        BY <2>1, <3>1, <1>g DEF WorkerStarts
      <3>3. job'[s] = "running" /\ \A t \in System \ {s} : job'[t] = job[t]
        BY <2>1 DEF WorkerStarts, VTypeOK
      <3>4. QED BY <3>2, <3>3, <1>c, PlacedKept DEF Went
    <2>2. CASE Expire(s)
      <3>1. \A t \in System : job'[t] = "running" <=> job[t] = "running"
        BY <2>2 DEF Expire, VTypeOK
      <3>2. QED BY <2>2, <3>1 DEF Expire, Placed
    <2>3. CASE Commissioned(s) BY <2>3 DEF Commissioned, Placed
    <2>4. CASE Poll(s)
      <3>1. Moves(s) /\ (Went(s, "interfaces", v[s]) \/ Went(s, "broken", v[s]))
            /\ pc[s] # "idle" /\ job' = job
        BY <2>4 DEF Poll, Goto, Moves, Went, VTypeOK
      <3>2. QED BY <3>1, PlacedWent DEF FlowPC
    <2>5. CASE GetInterfaces(s)
      <3>1. PICK w : w = [v[s] EXCEPT !.left = Cidr \ links[v[s].system]] OBVIOUS
      <3>2. v' = [v EXCEPT ![s] = w] BY <2>5, <3>1, <1>b DEF GetInterfaces, VTypeOK, Locals
      <3>3. Moves(s) /\ Went(s, "disconnect", w) /\ pc[s] # "idle" /\ job' = job
        BY <2>5, <3>2 DEF GetInterfaces, Calls, Goto, Moves, Went, VTypeOK
      <3>4. QED BY <3>3, PlacedWent DEF FlowPC
    <2>6. CASE Disconnect(s) \/ Link(s)
      <3>1. PICK l \in {"link", "disconnect"} : \E w : Then(s, l, w, {})
        BY <2>6 DEF Disconnect, Link
      <3>2. PICK w : Then(s, l, w, {}) BY <3>1
      <3>3. pc[s] # "idle" BY <2>6 DEF Disconnect, Link, Calls
      <3>4. QED BY <3>2, <3>3, <1>e DEF FlowPC
    <2>7. CASE Linked(s) \/ MarkBroken(s)
      <3>1. Moves(s) /\ Went(s, "idle", NoLocals) /\ job' = [job EXCEPT ![s] = "succeeded"]
        BY <2>7 DEF Linked, MarkBroken, Exits, Goto, Moves, Went, VTypeOK
      <3>2. job'[s] = "succeeded" /\ \A t \in System \ {s} : job'[t] = job[t]
        BY <3>1 DEF VTypeOK
      <3>3. QED BY <3>1, <3>2, <1>b, PlacedKept DEF Went
    <2>8. QED BY <1>3, <2>1, <2>2, <2>3, <2>4, <2>5, <2>6, <2>7 DEF Worker
  <1>4. CASE UNCHANGED vmVars BY <1>4 DEF vmVars, Placed
  <1>5. QED BY <1>1, <1>2, <1>3, <1>4 DEF VMNext

LEMMA PlacedAlways == VMSpec => []Placed
  <1>1. VMInit => Placed BY LocalsTypes DEF VMInit, Placed, FlowPC, Proc
  <1>2. VTypeOK /\ Placed /\ [VMNext]_vmVars => Placed' BY PlacedStep
  <1>3. QED BY <1>1, <1>2, VMTypeCorrect, PTL DEF VMSpec

-----------------------------------------------------------------------------
\* HalfDoneIsOwned in parts: who finishes the VM host, and who a subnet.
FinishesHost(p)   == pc[p] = "certificate" /\ v[p].holds
FinishesNet(p, n) == pc[p] = "range" /\ v[p].at = n

HostOwned ==
    host = "untrusted" => "host" \in abandoned \/ \E p \in Proc : FinishesHost(p)
NetsOwned ==
    \A n \in Cidr : subnet[n] = "bare" => n \in abandoned \/ \E p \in Proc : FinishesNet(p, n)
OwnedInv == HostOwned /\ NetsOwned

LEMMA OwnedParts ==
    ASSUME VTypeOK, OwnedInv
    PROVE  HalfDoneIsOwned
  <1>1. \A p \in Proc : FinishesHost(p) => "host" \in HalfDone(p)
    BY DEF HalfDone, FinishesHost
  <1>2. \A p \in Proc, n \in Cidr : FinishesNet(p, n) => n \in HalfDone(p)
    BY DEF HalfDone, FinishesNet
  <1>3. \A x : (x \in abandoned \/ \E p \in Proc : x \in HalfDone(p))
                 => x \in abandoned \cup UNION {HalfDone(p) : p \in Proc}
    OBVIOUS
  <1>4. host = "untrusted" => "host" \in abandoned \cup UNION {HalfDone(p) : p \in Proc}
    BY <1>1, <1>3 DEF OwnedInv, HostOwned
  <1>5. \A n \in Cidr : subnet[n] = "bare"
          => n \in abandoned \cup UNION {HalfDone(p) : p \in Proc}
    BY <1>2, <1>3 DEF OwnedInv, NetsOwned
  <1>6. QED BY <1>4, <1>5 DEF HalfDoneIsOwned

\* A process that moves owns what it has left half done, if anybody did, or has abandoned it.
LEMMA OwnedKept ==
    ASSUME OwnedInv, NEW p \in Proc, Moves(p),
           /\ host' = "untrusted"
           /\ host # "untrusted" \/ FinishesHost(p) \/ "host" \in abandoned
           => "host" \in abandoned' \/ FinishesHost(p)',
           \A n \in Cidr :
               /\ subnet'[n] = "bare"
               /\ subnet[n] # "bare" \/ FinishesNet(p, n) \/ n \in abandoned
               => n \in abandoned' \/ FinishesNet(p, n)'
    PROVE  OwnedInv'
  <1>1. \A q \in Proc \ {p} : /\ FinishesHost(q) => FinishesHost(q)'
                              /\ \A n \in Cidr : FinishesNet(q, n) => FinishesNet(q, n)'
    BY DEF Moves, FinishesHost, FinishesNet
  <1>2. HostOwned' BY <1>1 DEF OwnedInv, HostOwned
  <1>3. NetsOwned'
    <2>1. ASSUME NEW n \in Cidr, subnet'[n] = "bare", n \notin abandoned'
          PROVE  \E q \in Proc : FinishesNet(q, n)'
      BY <1>1, <2>1 DEF OwnedInv, NetsOwned
    <2>2. QED BY <2>1 DEF NetsOwned
  <1>4. QED BY <1>2, <1>3 DEF OwnedInv

\* A process that finishes nothing and makes nothing.
LEMMA OwnedAside ==
    ASSUME OwnedInv, NEW p \in Proc, Moves(p), pc[p] \notin {"certificate", "range"},
           abandoned \subseteq abandoned',
           host' = host \/ host' # "untrusted",
           subnet' = subnet
    PROVE  OwnedInv'
  <1>1. ~FinishesHost(p) /\ \A n \in Cidr : ~FinishesNet(p, n)
    BY DEF FinishesHost, FinishesNet
  <1>2. QED BY <1>1, OwnedKept

LEMMA OwnedStep ==
    ASSUME VTypeOK, Placed, OwnedInv, [VMNext]_vmVars
    PROVE  OwnedInv'
  <1>a. Call \subseteq Proc /\ System \subseteq Proc BY DEF Proc
  <1>b. ASSUME NEW p \in Proc, pc[p] \notin {"certificate", "range"},
               NEW l, NEW w, NEW made, Then(p, l, w, made), host' = host, subnet' = subnet
        PROVE  OwnedInv'
    <2>1. Leaves(p, l, w, made) BY <1>b, ThenMoves
    <2>2. Moves(p) /\ abandoned \subseteq abandoned' BY <2>1 DEF Leaves
    <2>3. QED BY <1>b, <2>2, OwnedAside
  <1>1. ASSUME NEW c \in Call, Handler(c) PROVE OwnedInv'
    <2>1. CASE BeginCompose(c) \/ RegisterJob(c) \/ BeginRelease(c)
      <3>1. /\ Moves(c) /\ pc[c] \notin {"certificate", "range"}
            /\ UNCHANGED <<host, subnet, abandoned>>
        BY <2>1, <1>a DEF BeginCompose, Compose, RegisterJob, BeginRelease, Goto, Moves, VTypeOK
      <3>2. QED BY <3>1, <1>a, OwnedAside
    <2>2. CASE VMDelete(c) \/ OsDeploy(c)
      BY <2>2 DEF VMDelete, OsDeploy, OwnedInv, HostOwned, NetsOwned, FinishesHost, FinishesNet
    <2>3. CASE DeleteHost(c)
      <3>1. \A p \in Proc : v'[p].at = v[p].at
        <4>1. \A p \in Proc : v'[p] = [v[p] EXCEPT !.holds = FALSE] /\ v[p] \in Locals
          BY <2>3 DEF DeleteHost, VTypeOK
        <4>2. QED BY <4>1, UpdateTypes
      <3>2. \A p \in Proc : pc[p] = "range" => pc'[p] = "range"
        BY <2>3, <1>a DEF DeleteHost, Calls, Goto, VTypeOK
      <3>3. \A n \in Cidr, p \in Proc : FinishesNet(p, n) => FinishesNet(p, n)'
        BY <3>1, <3>2 DEF FinishesNet
      <3>4. \A n \in Cidr : n \in abandoned => n \in abandoned' BY <2>3 DEF DeleteHost
      <3>5. host' = "none" /\ subnet' = subnet BY <2>3 DEF DeleteHost
      <3>6. HostOwned' BY <3>5 DEF HostOwned
      <3>7. NetsOwned' BY <3>3, <3>4, <3>5 DEF OwnedInv, NetsOwned
      <3>8. QED BY <3>6, <3>7 DEF OwnedInv
    <2>4. CASE Unsubscribe(c) BY <2>4, <1>a, <1>b DEF Unsubscribe
    <2>5. CASE ReleaseMachine(c)
      <3>1. Moves(c) BY <2>5, <1>a DEF ReleaseMachine, Exits, Goto, Moves, VTypeOK
      <3>2. /\ host' = "untrusted" => "host" \in abandoned'
            /\ abandoned \subseteq abandoned' /\ subnet' = subnet /\ pc[c] = "release"
        BY <2>5 DEF ReleaseMachine
      <3>3. \A n \in Cidr : ~FinishesNet(c, n) BY <3>2 DEF FinishesNet
      <3>4. QED BY <3>1, <3>2, <3>3, <1>a, OwnedKept
    <2>6. QED BY <1>1, <2>1, <2>2, <2>3, <2>4, <2>5 DEF Handler
  <1>2. ASSUME NEW p \in Proc, Flow(p) PROVE OwnedInv'
    <2>1. CASE SetupLxd(p) \/ Refresh(p) BY <2>1, <1>b DEF SetupLxd, Refresh, Calls
    <2>2. CASE AddHost(p)
      <3>1. Moves(p) /\ pc[p] = "addHost" /\ subnet' = subnet /\ abandoned \subseteq abandoned'
        BY <2>2 DEF AddHost, Calls, Exits, Goto, Moves, VTypeOK
      <3>2. "host" \in abandoned' \/ FinishesHost(p)'
        BY <2>2 DEF AddHost, FinishesHost, Goto, Holding, NoLocals, VTypeOK
      <3>3. \A n \in Cidr : ~FinishesNet(p, n) BY <3>1 DEF FinishesNet
      <3>4. QED BY <3>1, <3>2, <3>3, OwnedKept
    <2>3. CASE Certificate(p)
      <3>1. Leaves(p, "refresh", v[p], {}) BY <2>3, ThenMoves DEF Certificate
      <3>2. /\ Moves(p) /\ abandoned \subseteq abandoned' /\ host' = "trusted"
            /\ subnet' = subnet /\ pc[p] = "certificate"
        BY <2>3, <3>1 DEF Certificate, Calls, Leaves
      <3>3. \A n \in Cidr : ~FinishesNet(p, n) BY <3>2 DEF FinishesNet
      <3>4. QED BY <3>2, <3>3, OwnedKept
    <2>4. CASE ListSubnets(p) \/ Network(p) \/ LooksForVM(p)
      <3>1. /\ Moves(p) /\ pc[p] \notin {"certificate", "range"}
            /\ UNCHANGED <<host, subnet, abandoned>>
        BY <2>4 DEF ListSubnets, Network, LooksForVM, Goto, Moves, VTypeOK
      <3>2. QED BY <3>1, OwnedAside
    <2>5. CASE CreateSubnet(p)
      <3>1. Leaves(p, "range", v[p], {v[p].at}) BY <2>5, ThenMoves DEF CreateSubnet
      <3>2. /\ Moves(p) /\ abandoned \subseteq abandoned' /\ host' = host /\ pc[p] = "subnet"
        BY <2>5, <3>1 DEF CreateSubnet, Calls, Leaves
      <3>3. v[p].at \in abandoned' \/ FinishesNet(p, v[p].at)'
        BY <3>1 DEF Leaves, Went, FinishesNet
      <3>4. \A n \in Cidr : n # v[p].at => subnet'[n] = subnet[n]
        BY <2>5 DEF CreateSubnet, VTypeOK
      <3>5. ~FinishesHost(p) /\ \A n \in Cidr : ~FinishesNet(p, n)
        BY <3>2 DEF FinishesHost, FinishesNet
      <3>6. \A n \in Cidr :
              /\ subnet'[n] = "bare"
              /\ subnet[n] # "bare" \/ FinishesNet(p, n) \/ n \in abandoned
              => n \in abandoned' \/ FinishesNet(p, n)'
        <4>1. PICK a : a = v[p].at OBVIOUS
        <4>2. a \in abandoned' \/ FinishesNet(p, a)' BY <3>3, <3>1, <4>1 DEF Leaves, Went, FinishesNet
        <4>3. QED BY <3>2, <3>4, <3>5, <4>1, <4>2
      <3>7. QED BY <3>2, <3>5, <3>6, OwnedKept
    <2>6. CASE CreateRanges(p)
      <3>1. PICK w, made : Then(p, "network", w, made) BY <2>6 DEF CreateRanges
      <3>2. Leaves(p, "network", w, made) BY <3>1, ThenMoves
      <3>3. /\ Moves(p) /\ abandoned \subseteq abandoned' /\ host' = host /\ pc[p] = "range"
        BY <2>6, <3>2 DEF CreateRanges, Calls, Leaves
      <3>4. \A n \in Cidr : IF n = v[p].at THEN subnet'[n] = "ranged" ELSE subnet'[n] = subnet[n]
        BY <2>6 DEF CreateRanges, VTypeOK
      <3>5. ~FinishesHost(p) /\ \A n \in Cidr : FinishesNet(p, n) => n = v[p].at
        BY <3>3 DEF FinishesHost, FinishesNet
      <3>6. QED BY <3>3, <3>4, <3>5, OwnedKept
    <2>7. CASE ComposeVM(p)
      <3>1. PICK l, w, made : Then(p, l, w, made) BY <2>7 DEF ComposeVM
      <3>2. pc[p] = "compose" /\ host' = host /\ subnet' = subnet BY <2>7 DEF ComposeVM, Calls
      <3>3. QED BY <3>1, <3>2, <1>b
    <2>8. CASE CallFails(p)
      <3>1. Moves(p) BY <2>8, ErrorMoves DEF CallFails
      <3>2. abandoned' = abandoned \cup HalfDone(p) /\ host' = host /\ subnet' = subnet
        BY <2>8 DEF CallFails
      <3>3. /\ FinishesHost(p) => "host" \in abandoned'
            /\ \A n \in Cidr : FinishesNet(p, n) => n \in abandoned'
        BY <3>2 DEF HalfDone, FinishesHost, FinishesNet
      <3>4. QED BY <3>1, <3>2, <3>3, OwnedKept
    <2>9. QED BY <1>2, <2>1, <2>2, <2>3, <2>4, <2>5, <2>6, <2>7, <2>8 DEF Flow, OtherCall
  <1>3. ASSUME NEW s \in System, Worker(s) \/ Expire(s) \/ Commissioned(s) PROVE OwnedInv'
    <2>1. CASE Expire(s) \/ Commissioned(s)
      <3>1. UNCHANGED <<host, subnet, abandoned, pc, v>> BY <2>1 DEF Expire, Commissioned
      <3>2. QED BY <3>1 DEF OwnedInv, HostOwned, NetsOwned, FinishesHost, FinishesNet
    <2>2. CASE WorkerStarts(s) \/ Poll(s) \/ GetInterfaces(s) \/ Linked(s) \/ MarkBroken(s)
      <3>1. Moves(s) /\ UNCHANGED <<host, subnet, abandoned>>
        BY <2>2, <1>a DEF WorkerStarts, Compose, Poll, GetInterfaces, Linked, MarkBroken, Exits,
                          Goto, Moves, VTypeOK
      <3>2. pc[s] \notin {"certificate", "range"}
        BY <2>2 DEF WorkerStarts, Poll, GetInterfaces, Calls, Linked, MarkBroken, Placed
      <3>3. QED BY <3>1, <3>2, <1>a, OwnedAside
    <2>3. CASE Disconnect(s)
      <3>1. PICK w : Then(s, "link", w, {}) BY <2>3 DEF Disconnect
      <3>2. pc[s] = "disconnect" /\ host' = host /\ subnet' = subnet
        BY <2>3 DEF Disconnect, Calls
      <3>3. QED BY <3>1, <3>2, <1>a, <1>b
    <2>4. CASE Link(s)
      <3>1. Then(s, "disconnect", [v[s] EXCEPT !.at = NoCidr], {}) BY <2>4 DEF Link
      <3>2. pc[s] = "link" /\ host' = host /\ subnet' = subnet BY <2>4 DEF Link, Calls
      <3>3. QED BY <3>1, <3>2, <1>a, <1>b
    <2>5. QED BY <1>3, <2>1, <2>2, <2>3, <2>4 DEF Worker
  <1>4. CASE UNCHANGED vmVars
    BY <1>4 DEF vmVars, OwnedInv, HostOwned, NetsOwned, FinishesHost, FinishesNet
  <1>5. QED BY <1>1, <1>2, <1>3, <1>4 DEF VMNext

\* A VM host without its certificate and a subnet without its ranges are being finished,
\* or were left by a failed call, for any processes and networks: VMCompose never goes
\* past a step that it has not done.
THEOREM HalfDoneOwned == VMSpec => []HalfDoneIsOwned
  <1>1. VMInit => OwnedInv BY DEF VMInit, OwnedInv, HostOwned, NetsOwned
  <1>2. VTypeOK /\ Placed /\ OwnedInv /\ [VMNext]_vmVars => OwnedInv' BY OwnedStep
  <1>3. VTypeOK /\ OwnedInv => HalfDoneIsOwned BY OwnedParts
  <1>4. QED BY <1>1, <1>2, <1>3, VMTypeCorrect, PlacedAlways, PTL DEF VMSpec

-----------------------------------------------------------------------------
\* What keeps each part of LinkInv when process p moves.
LEMMA BornKept ==
    ASSUME OneVM, Born, NEW p \in Proc, Moves(p),
           \A s \in System : Exists(s)' => Exists(s),
           \A s \in System : vm[s] # "unborn" => vm'[s] # "unborn",
           \A s \in System : job'[s] # "none" => vm[s] # "unborn",
           v'[p].system \in {NoSystem, v[p].system},
           VTypeOK
    PROVE  OneVM' /\ Born'
  <1>1. OneVM' BY DEF OneVM
  <1>2. \A q \in Proc : v'[q].system \in {NoSystem, v[q].system} BY DEF Moves
  <1>3. \A q \in Proc : v[q].system \in System \cup {NoSystem} BY DEF VTypeOK, Locals
  <1>4. \A s \in System : job'[s] # "none" => vm'[s] # "unborn" OBVIOUS
  <1>5. \A q \in Proc : v'[q].system # NoSystem => vm'[v'[q].system] # "unborn"
    BY <1>2, <1>3 DEF Born
  <1>6. \A s \in System : Exists(s)' /\ v'[s].system # NoSystem => v'[s].system = s
    BY <1>2 DEF Born, Proc
  <1>7. QED BY <1>1, <1>4, <1>5, <1>6 DEF Born

LEMMA CommissioningKept ==
    ASSUME AfterCommissioning, NEW p \in Proc, Moves(p),
           \A s \in System : Commissioning(s)' => Commissioning(s),
           \A t \in System : /\ p \in System /\ v'[p].system = t
                             /\ pc'[p] \in {"interfaces", "disconnect", "link"}
                             => \/ ~Commissioning(t)
                                \/ /\ v[p].system = t
                                   /\ pc[p] \in {"interfaces", "disconnect", "link"},
           \A s \in System : job'[s] = "succeeded" => job[s] = "succeeded" \/ ~Commissioning(s)'
    PROVE  AfterCommissioning'
  <1>1. \A s, t \in System :
          pc'[s] \in {"interfaces", "disconnect", "link"} /\ v'[s].system = t
          => ~Commissioning(t)'
    BY DEF AfterCommissioning, Moves, Proc
  <1>2. \A s \in System : job'[s] = "succeeded" => ~Commissioning(s)'
    BY DEF AfterCommissioning
  <1>3. QED BY <1>1, <1>2 DEF AfterCommissioning

LEMMA AheadKept ==
    ASSUME Ahead, LeftBehind, NEW p \in Proc, Moves(p),
           \A t \in System, n \in Cidr : Lacks(t, n)' => Lacks(t, n) \/ Covered(t, n)',
           \A t \in System, n \in Cidr : Covered(t, n) /\ Lacks(t, n)' => Covered(t, n)',
           \A t \in System, n \in Cidr :
               p \in System /\ AtLinks(p, t)' /\ Lacks(t, n)'
               => n \in v'[p].left \/ Covered(t, n)',
           \A s \in System, n \in Cidr :
               job'[s] = "succeeded" /\ Lacks(s, n)' => job[s] = "succeeded" \/ Covered(s, n)'
    PROVE  Ahead' /\ LeftBehind'
  <1>1. ASSUME NEW s \in System, NEW t \in System, NEW n \in Cidr, AtLinks(s, t)', Lacks(t, n)'
        PROVE  n \in v'[s].left \/ Covered(t, n)'
    <2>1. CASE s = p BY <1>1, <2>1
    <2>2. CASE s # p
      <3>1. v'[s] = v[s] /\ AtLinks(s, t) BY <1>1, <2>2 DEF Moves, Proc, AtLinks
      <3>2. CASE Covered(t, n)' BY <3>2
      <3>3. CASE Lacks(t, n)
        <4>1. n \in v[s].left \/ Covered(t, n) BY <3>1, <3>3 DEF Ahead
        <4>2. QED BY <1>1, <3>1, <4>1
      <3>4. QED BY <1>1, <3>2, <3>3
    <2>3. QED BY <2>1, <2>2
  <1>2. ASSUME NEW s \in System, NEW n \in Cidr, job'[s] = "succeeded", Lacks(s, n)'
        PROVE  Covered(s, n)'
    BY <1>2 DEF LeftBehind
  <1>3. Ahead' BY <1>1 DEF Ahead
  <1>4. LeftBehind' BY <1>2 DEF LeftBehind
  <1>5. QED BY <1>3, <1>4

\* A process moves that has no VM afterwards and marked or linked none, MAAS' systems
\* stay, and no job succeeds.
LEMMA QuietStep ==
    ASSUME VTypeOK, LinkInv, NEW p \in Proc, Moves(p), vm' = vm, links' = links,
           v'[p].system = NoSystem,
           pc[p] \notin {"broken", "link"},
           \A s \in System : \/ job'[s] = job[s]
                             \/ job'[s] # "succeeded" /\ (job'[s] = "none" \/ vm[s] # "unborn")
    PROVE  LinkInv'
  <1> USE DEF LinkInv
  <1>1. OneVM' /\ Born'
    <2>1. \A s \in System : job'[s] # "none" => vm[s] # "unborn" BY DEF Born
    <2>2. QED BY <2>1, BornKept DEF Exists
  <1>2. AfterCommissioning'
    BY CommissioningKept DEF Commissioning, AfterCommissioning
  <1>3. Ahead' /\ LeftBehind'
    <2>1. \A t \in System, n \in Cidr : Lacks(t, n)' <=> Lacks(t, n) BY DEF Lacks
    <2>2. \A t \in System, n \in Cidr : Covered(t, n) => Covered(t, n)'
      BY DEF Covered, Covers, Moves, Proc
    <2>3. \A t \in System : ~AtLinks(p, t)' BY DEF AtLinks
    <2>4. QED BY <2>1, <2>2, <2>3, AheadKept
  <1>4. QED BY <1>1, <1>2, <1>3

\* A worker will mark its VM broken: the links of another VM stay as they are.
LEMMA BrokenStep ==
    ASSUME VTypeOK, LinkInv, NEW p \in System, NEW t \in System, Moves(p), vm' = vm,
           v[p].system = t, v'[p].system = t, pc'[p] = "broken", job' = job,
           \A u \in System \ {t} : links'[u] = links[u]
    PROVE  LinkInv'
  <1> USE DEF LinkInv, Proc
  <1>1. OneVM' /\ Born' BY BornKept DEF Exists, Born
  <1>2. AfterCommissioning'
    BY CommissioningKept DEF Commissioning, AfterCommissioning
  <1>3. Ahead' /\ LeftBehind'
    <2>1. \A n \in Cidr : Covered(t, n)' BY DEF Covered, Covers
    <2>2. \A u \in System \ {t}, n \in Cidr : Lacks(u, n)' <=> Lacks(u, n) BY DEF Lacks
    <2>3. \A u \in System \ {t}, n \in Cidr : Covered(u, n) => Covered(u, n)'
      BY DEF Covered, Covers, Moves
    <2>4. \A u \in System : ~AtLinks(p, u)' BY DEF AtLinks
    <2>5. QED BY <2>1, <2>2, <2>3, <2>4, AheadKept
  <1>4. QED BY <1>1, <1>2, <1>3

\* A process in VMCompose goes on without a VM, or gives up.
LEMMA QuietThen ==
    ASSUME VTypeOK, Placed, LinkInv, NEW p \in Proc, NEW l, NEW w, NEW made,
           Leaves(p, l, w, made), w.system = NoSystem, vm' = vm, links' = links,
           pc[p] \notin FlowPC \cup {"idle"}
    PROVE  LinkInv'
  <1>1. Moves(p) BY DEF Leaves
  <1>2. pc[p] \notin {"broken", "link"} BY DEF FlowPC
  <1>3. v'[p].system = NoSystem BY LocalsTypes DEF Leaves, Erred, Went
  <1>4. \A s \in System : job'[s] = job[s] \/ (job'[s] = "failed" /\ job[s] = "running")
    BY DEF Leaves, Erred, VTypeOK, Placed
  <1>5. \A s \in System : job[s] = "running" => vm[s] # "unborn" BY DEF LinkInv, Born
  <1>6. QED BY <1>1, <1>2, <1>3, <1>4, <1>5, QuietStep

\* A call of the flow fails.
LEMMA FlowErred ==
    ASSUME VTypeOK, Placed, LinkInv, NEW p \in System, NEW t \in System, v[p].system = t,
           pc[p] \in FlowPC, Moves(p), Erred(p), vm' = vm,
           \A u \in System \ {t} : links'[u] = links[u]
    PROVE  LinkInv'
  <1>1. Knows(t).system = t BY LocalsTypes
  <1>2. v'[p].system = t /\ pc'[p] = "broken" /\ job' = job BY <1>1 DEF Erred, Went
  <1>3. QED BY <1>2, BrokenStep

\* Compose leaves a process without a VM.
LEMMA ComposeMoves ==
    ASSUME VTypeOK, NEW p \in Proc, Compose(p), v[p].system = NoSystem
    PROVE  Moves(p) /\ v'[p].system = NoSystem
  BY LocalsTypes DEF Compose, Goto, Moves, VTypeOK

\* The handlers, action by action.
LEMMA LinkHandler ==
    ASSUME VTypeOK, Placed, LinkInv, NEW c \in Call, Handler(c)
    PROVE  LinkInv'
  <1>a. c \in Proc /\ c \notin System BY DEF Proc
  <1>b. pc[c] \in ReleasePC \cup {"idle"} => v[c].system = NoSystem /\ pc[c] \notin {"broken", "link"}
    BY <1>a DEF Placed, ReleasePC, FlowPC
  <1>c. NoLocals.system = NoSystem /\ Holding.system = NoSystem BY LocalsTypes
  <1>1. CASE BeginCompose(c)
    <2>1. Moves(c) /\ v'[c].system = NoSystem BY <1>1, <1>a, <1>b, ComposeMoves DEF BeginCompose
    <2>2. QED BY <1>1, <2>1, <1>a, <1>b, QuietStep DEF BeginCompose, Compose
  <1>2. CASE RegisterJob(c)
    <2>1. Moves(c) /\ v'[c].system = NoSystem
      BY <1>2, <1>a, <1>c DEF RegisterJob, Goto, Moves, VTypeOK
    <2>2. PICK t \in System : t = v[c].system
      BY <1>2, <1>a DEF RegisterJob, VTypeOK, Locals
    <2>3. vm[t] # "unborn" BY <2>2, <1>a DEF LinkInv, Born
    <2>4. \A s \in System : job'[s] = job[s] \/ (job'[s] = "waiting" /\ s = t)
      BY <1>2, <2>2 DEF RegisterJob, VTypeOK
    <2>5. vm' = vm /\ links' = links /\ pc[c] = "register" BY <1>2 DEF RegisterJob
    <2>6. QED BY <2>1, <2>3, <2>4, <2>5, <1>a, QuietStep
  <1>3. CASE VMDelete(c)
    <2>1. PICK d \in System : Exists(d) /\ vm' = [vm EXCEPT ![d] = "deleted"]
      BY <1>3 DEF VMDelete
    <2>2. pc' = pc /\ v' = v /\ job' = job BY <1>3 DEF VMDelete
    <2>3. Moves(c) BY <2>2 DEF Moves
    <2>4. \A s \in System : ~Exists(s)'
      BY <2>1 DEF LinkInv, OneVM, Exists, VTypeOK
    <2>5. \A s \in System : vm[s] # "unborn" => vm'[s] # "unborn"
      BY <2>1 DEF VTypeOK
    <2>6. OneVM' /\ Born'
      <3>1. \A s \in System : job'[s] # "none" => vm[s] # "unborn" BY <2>2 DEF LinkInv, Born
      <3>2. QED BY <2>2, <2>3, <2>4, <2>5, <3>1, <1>a, BornKept DEF LinkInv
    <2>7. \A s \in System : ~Commissioning(s)' /\ \A n \in Cidr : ~Lacks(s, n)'
      BY <2>4 DEF Exists, Commissioning, Lacks
    <2>8. QED BY <2>6, <2>7 DEF LinkInv, AfterCommissioning, Ahead, LeftBehind
  <1>4. CASE OsDeploy(c)
    <2>1. UNCHANGED <<vm, links, job, pc, v>> /\ pc[c] = "idle" BY <1>4 DEF OsDeploy
    <2>2. Moves(c) BY <2>1 DEF Moves
    <2>3. QED BY <2>1, <2>2, <1>a, <1>b, QuietStep
  <1>5. CASE BeginRelease(c)
    <2>1. pc[c] = "idle" /\ vm' = vm /\ links' = links /\ job' = job BY <1>5 DEF BeginRelease
    <2>2. Moves(c) /\ v'[c].system = NoSystem
      BY <1>5, <2>1, <1>a, <1>b, <1>c DEF BeginRelease, Goto, Moves, VTypeOK
    <2>3. QED BY <2>1, <2>2, <1>a, <1>b, QuietStep
  <1>6. CASE DeleteHost(c)
    <2>1. \A p \in Proc : v'[p].system = v[p].system
      <3>1. \A p \in Proc : v'[p] = [v[p] EXCEPT !.holds = FALSE] /\ v[p] \in Locals
        BY <1>6 DEF DeleteHost, VTypeOK
      <3>2. QED BY <3>1, UpdateTypes
    <2>2. job' = job BY <1>6 DEF DeleteHost
    <2>3. \A s \in System : ~Exists(s)' /\ (vm[s] # "unborn" => vm'[s] # "unborn")
      BY <1>6 DEF DeleteHost, Exists
    <2>4. OneVM' BY <2>3 DEF OneVM
    <2>5. Born'
      <3>1. \A p \in Proc : v[p].system \in System \cup {NoSystem} BY DEF VTypeOK, Locals
      <3>2. \A p \in Proc : v'[p].system # NoSystem => vm'[v'[p].system] # "unborn"
        BY <2>1, <2>3, <3>1 DEF LinkInv, Born
      <3>3. \A s \in System : job'[s] # "none" => vm'[s] # "unborn"
        BY <2>2, <2>3 DEF LinkInv, Born
      <3>4. QED BY <2>3, <3>2, <3>3 DEF Born
    <2>6. \A s \in System : ~Commissioning(s)' /\ \A n \in Cidr : ~Lacks(s, n)'
      BY <2>3 DEF Exists, Commissioning, Lacks
    <2>7. QED BY <2>4, <2>5, <2>6 DEF LinkInv, AfterCommissioning, Ahead, LeftBehind
  <1>7. CASE Unsubscribe(c)
    <2>1. Leaves(c, "release", v[c], {}) BY <1>7, <1>a, ThenMoves DEF Unsubscribe
    <2>2. pc[c] \in ReleasePC /\ pc[c] \notin FlowPC \cup {"idle"}
      BY <1>7 DEF Unsubscribe, ReleasePC, FlowPC
    <2>3. QED BY <1>7, <2>1, <2>2, <1>a, <1>b, QuietThen DEF Unsubscribe
  <1>8. CASE ReleaseMachine(c)
    <2>1. Moves(c) /\ v'[c].system = NoSystem /\ job' = job /\ vm' = vm /\ links' = links
          /\ pc[c] = "release"
      BY <1>8, <1>a, <1>c DEF ReleaseMachine, Exits, Goto, Moves, VTypeOK
    <2>2. QED BY <2>1, <1>a, QuietStep
  <1>9. QED BY <1>1, <1>2, <1>3, <1>4, <1>5, <1>6, <1>7, <1>8 DEF Handler

\* What a process does in VMCompose before it has a VM.
LEMMA LinkFlow ==
    ASSUME VTypeOK, Placed, LinkInv, NEW p \in Proc, Flow(p)
    PROVE  LinkInv'
  <1>a. pc[p] \in ComposePC => v[p].system = NoSystem /\ pc[p] \notin FlowPC \cup {"idle"}
    BY DEF Placed, ComposePC, FlowPC
  <1>b. "broken" \in FlowPC /\ "link" \in FlowPC BY DEF FlowPC
  <1>c. v[p] \in Locals /\ NoLocals.system = NoSystem /\ Holding.system = NoSystem
    BY LocalsTypes DEF VTypeOK
  <1>1. CASE SetupLxd(p) \/ Certificate(p) \/ Refresh(p) \/ CreateSubnet(p)
    <2>1. PICK l, made : Then(p, l, v[p], made)
      BY <1>1 DEF SetupLxd, Certificate, Refresh, CreateSubnet
    <2>2. pc[p] \in ComposePC /\ vm' = vm /\ links' = links
      BY <1>1 DEF SetupLxd, Certificate, Refresh, CreateSubnet, Calls, ComposePC
    <2>3. Leaves(p, l, v[p], made) BY <2>1, ThenMoves
    <2>4. QED BY <2>2, <2>3, <1>a, QuietThen
  <1>2. CASE AddHost(p)
    <2>1. pc[p] \in ComposePC /\ vm' = vm /\ links' = links
      BY <1>2 DEF AddHost, Calls, ComposePC
    <2>2. Moves(p) /\ v'[p].system = NoSystem
      BY <1>2, <1>c DEF AddHost, Exits, Goto, Moves, VTypeOK
    <2>3. \A s \in System : job'[s] = job[s] \/ (job'[s] = "failed" /\ job[s] = "running")
      BY <1>2, <2>1, <1>a DEF AddHost, Exits, VTypeOK, Placed
    <2>4. \A s \in System : job[s] = "running" => vm[s] # "unborn" BY DEF LinkInv, Born
    <2>5. QED BY <2>1, <2>2, <2>3, <2>4, <1>a, <1>b, QuietStep
  <1>3. CASE ListSubnets(p) \/ Network(p)
    <2>1. pc[p] \in ComposePC /\ job' = job /\ vm' = vm /\ links' = links
      BY <1>3 DEF ListSubnets, Network, ComposePC
    <2>2. Moves(p) BY <1>3 DEF ListSubnets, Network, Goto, Moves, VTypeOK
    <2>3. v'[p].system = v[p].system
      <3>1. CASE ListSubnets(p) BY <1>c, <3>1 DEF ListSubnets, VTypeOK, Locals
      <3>2. ASSUME NEW n, NEW m, v' = [v EXCEPT ![p].left = @ \ {n}, ![p].at = m]
            PROVE  v'[p].system = v[p].system
        BY <1>c, <3>2 DEF VTypeOK, Locals
      <3>3. CASE v' = [v EXCEPT ![p].known = {}] BY <1>c, <3>3 DEF VTypeOK, Locals
      <3>4. QED BY <1>3, <3>1, <3>2, <3>3 DEF Network
    <2>4. QED BY <2>1, <2>2, <2>3, <1>a, <1>b, QuietStep
  <1>4. CASE CreateRanges(p)
    <2>1. PICK w : w = [v[p] EXCEPT !.known = @ \cup {v[p].at}, !.at = NoCidr] OBVIOUS
    <2>2. Then(p, "network", w, {}) /\ pc[p] \in ComposePC /\ vm' = vm /\ links' = links
      BY <1>4, <2>1 DEF CreateRanges, Calls, ComposePC
    <2>3. w.system = v[p].system BY <1>c, <2>1 DEF Locals
    <2>4. Leaves(p, "network", w, {}) BY <2>2, ThenMoves
    <2>5. QED BY <2>2, <2>3, <2>4, <1>a, QuietThen
  <1>5. CASE LooksForVM(p)
    <2>1. pc[p] = "exists" /\ pc[p] \in ComposePC /\ job' = job /\ vm' = vm /\ links' = links
      BY <1>5 DEF LooksForVM, ComposePC
    <2>2. Moves(p) BY <1>5 DEF LooksForVM, Goto, Moves, VTypeOK
    <2>3. CASE v' = v BY <2>1, <2>2, <2>3, <1>a, QuietStep
    <2>4. ASSUME NEW s \in System, Exists(s), Goto(p, Composed(p)), v' = [v EXCEPT ![p] = Knows(s)]
          PROVE  LinkInv'
      <3>1. /\ v'[p].system = s
            /\ pc'[p] \notin {"interfaces", "disconnect", "link", "broken"}
        BY <2>4, LocalsTypes DEF Goto, Composed, VTypeOK
      <3>2. OneVM' BY <2>1 DEF LinkInv, OneVM, Exists
      <3>3. Born'
        <4>1. \A t \in System : job'[t] # "none" => vm'[t] # "unborn"
          BY <2>1 DEF LinkInv, Born
        <4>2. \A q \in Proc : v'[q].system # NoSystem => vm'[v'[q].system] # "unborn"
          BY <2>1, <2>2, <2>4, <3>1 DEF LinkInv, Born, Moves, Exists
        <4>3. \A t \in System : Exists(t)' /\ v'[t].system # NoSystem => v'[t].system = t
          BY <2>1, <2>2, <2>4, <3>1 DEF LinkInv, Born, OneVM, Moves, Exists, Proc
        <4>4. QED BY <4>1, <4>2, <4>3 DEF Born
      <3>4. AfterCommissioning'
        BY <2>1, <2>2, <3>1, CommissioningKept DEF LinkInv, Commissioning
      <3>5. Ahead' /\ LeftBehind'
        <4>1. \A t \in System, n \in Cidr : Lacks(t, n)' <=> Lacks(t, n) BY <2>1 DEF Lacks
        <4>2. \A t \in System, n \in Cidr : Covered(t, n) => Covered(t, n)'
          BY <2>1, <2>2 DEF Covered, Covers, Moves, Proc
        <4>3. \A t \in System : ~AtLinks(p, t)' BY <3>1 DEF AtLinks
        <4>4. QED BY <2>1, <2>2, <4>1, <4>2, <4>3, AheadKept DEF LinkInv
      <3>6. QED BY <3>2, <3>3, <3>4, <3>5 DEF LinkInv
    <2>5. QED BY <1>5, <2>3, <2>4 DEF LooksForVM
  <1>6. CASE ComposeVM(p)
    <2>1. PICK s \in System : /\ vm[s] = "unborn" /\ vm' = [vm EXCEPT ![s] = "Commissioning"]
                              /\ Then(p, Composed(p), Knows(s), {})
      BY <1>6 DEF ComposeVM, Unborn
    <2>2. pc[p] \in ComposePC /\ links' = links /\ \A t \in System : ~Exists(t)
      BY <1>6 DEF ComposeVM, Calls, Refused, ComposePC
    <2>3. Leaves(p, Composed(p), Knows(s), {}) BY <2>1, ThenMoves
    <2>4. Moves(p) BY <2>3 DEF Leaves
    <2>5. /\ v'[p].system \in {s, NoSystem}
          /\ pc'[p] \notin {"interfaces", "disconnect", "link"}
      BY <2>2, <2>3, <1>a, LocalsTypes DEF Leaves, Erred, Went, Composed
    <2>6. \A t \in System : job'[t] = job[t] \/ (job'[t] = "failed" /\ job[t] = "running")
      BY <2>2, <2>3, <1>a DEF Leaves, Erred, VTypeOK, Placed
    <2>7. \A t \in System : /\ Exists(t)' <=> t = s
                            /\ Commissioning(t)' <=> t = s
                            /\ vm'[t] # "unborn" <=> t = s \/ vm[t] # "unborn"
      BY <2>1, <2>2 DEF Exists, Commissioning, VTypeOK
    <2>8. job[s] = "none" /\ \A q \in Proc : v[q].system # s
      BY <2>1 DEF LinkInv, Born
    <2>9. pc[s] = "idle" /\ v[s].system = NoSystem /\ s # p
      BY <2>2, <2>8, <1>a DEF Placed, ComposePC, FlowPC, Proc
    <2>10. OneVM' BY <2>7 DEF OneVM
    <2>11. Born'
      <3>1. \A t \in System : job'[t] # "none" => vm'[t] # "unborn"
        BY <2>6, <2>7 DEF LinkInv, Born
      <3>2. \A q \in Proc : v[q].system \in System \cup {NoSystem} BY DEF VTypeOK, Locals
      <3>3. \A q \in Proc : v'[q].system # NoSystem => vm'[v'[q].system] # "unborn"
        BY <2>4, <2>5, <2>7, <3>2 DEF LinkInv, Born, Moves
      <3>4. \A t \in System : Exists(t)' /\ v'[t].system # NoSystem => v'[t].system = t
        BY <2>4, <2>7, <2>9 DEF Moves, Proc
      <3>5. QED BY <3>1, <3>3, <3>4 DEF Born
    <2>12. AfterCommissioning'
      <3>1. \A q, t \in System :
              pc'[q] \in {"interfaces", "disconnect", "link"} /\ v'[q].system = t
              => ~Commissioning(t)'
        BY <2>4, <2>5, <2>7, <2>8 DEF Moves, Proc
      <3>2. \A t \in System : job'[t] = "succeeded" => ~Commissioning(t)'
        BY <2>6, <2>7, <2>8
      <3>3. QED BY <3>1, <3>2 DEF AfterCommissioning
    <2>13. \A t \in System, n \in Cidr : ~Lacks(t, n)'
      BY <2>7 DEF Lacks, Exists, Commissioning
    <2>14. QED BY <2>10, <2>11, <2>12, <2>13 DEF LinkInv, Ahead, LeftBehind
  <1>7. CASE CallFails(p)
    <2>1. Moves(p) /\ Erred(p) BY <1>7, ErrorMoves DEF CallFails
    <2>2. vm' = vm /\ links' = links BY <1>7 DEF CallFails
    <2>3. CASE pc[p] \in FlowPC
      <3>1. p \in System BY <2>3 DEF Placed, Proc
      <3>2. PICK t \in System : v[p].system = t BY <2>3 DEF VTypeOK, Locals
      <3>3. QED BY <2>1, <2>2, <2>3, <3>1, <3>2, FlowErred
    <2>4. CASE pc[p] \notin FlowPC
      <3>1. v'[p].system = NoSystem BY <2>1, <2>4, <1>c DEF Erred, Went
      <3>2. pc[p] # "idle"
        BY <1>7 DEF CallFails, ComposePC, FlowPC, ReleasePC
      <3>3. \A s \in System : job'[s] = job[s] \/ (job'[s] = "failed" /\ job[s] = "running")
        BY <2>1, <2>4, <3>2 DEF Erred, VTypeOK, Placed
      <3>4. \A s \in System : job[s] = "running" => vm[s] # "unborn" BY DEF LinkInv, Born
      <3>5. QED BY <2>1, <2>2, <2>4, <3>1, <3>3, <3>4, <1>b, QuietStep
    <2>5. QED BY <2>3, <2>4
  <1>8. QED BY <1>1, <1>2, <1>3, <1>4, <1>5, <1>6, <1>7 DEF Flow, OtherCall

\* The workers, the TTL of their jobs and MAAS.
LEMMA LinkWorker ==
    ASSUME VTypeOK, Placed, LinkInv, NEW s \in System, Worker(s) \/ Expire(s) \/ Commissioned(s)
    PROVE  LinkInv'
  <1>a. s \in Proc /\ v[s] \in Locals BY DEF Proc, VTypeOK
  <1>b. NoLocals.system = NoSystem BY LocalsTypes
  <1>c. pc[s] = "idle" => v[s].system = NoSystem BY <1>a DEF Placed, FlowPC
  <1>d. ASSUME NEW t \in System, v[s].system = t, pc[s] \notin {"broken", "link"},
               Moves(s), v'[s].system = t, job' = job, vm' = vm, links' = links,
               pc'[s] \in {"interfaces", "disconnect"},
               ~Commissioning(t),
               pc'[s] = "disconnect" => \A n \in Cidr : Lacks(t, n) => n \in v'[s].left
        PROVE  LinkInv'
    <2>1. OneVM' /\ Born' BY <1>d, <1>a, BornKept DEF LinkInv, Exists, Born
    <2>2. AfterCommissioning' BY <1>d, <1>a, CommissioningKept DEF LinkInv, Commissioning
    <2>3. Ahead' /\ LeftBehind'
      <3>1. \A u \in System, n \in Cidr : Lacks(u, n)' <=> Lacks(u, n) BY <1>d DEF Lacks
      <3>2. \A u \in System, n \in Cidr : Covered(u, n) => Covered(u, n)'
        BY <1>d, <1>a DEF Covered, Covers, Moves, Proc
      <3>3. \A u \in System, n \in Cidr : AtLinks(s, u)' /\ Lacks(u, n)' => n \in v'[s].left
        BY <1>d, <3>1 DEF AtLinks
      <3>4. QED BY <1>d, <1>a, <3>1, <3>2, <3>3, AheadKept DEF LinkInv
    <2>4. QED BY <2>1, <2>2, <2>3 DEF LinkInv
  <1>1. CASE WorkerStarts(s)
    <2>1. pc[s] = "idle" BY <1>1 DEF WorkerStarts, Placed
    <2>2. Moves(s) /\ v'[s].system = NoSystem /\ vm' = vm /\ links' = links
      BY <1>1, <2>1, <1>a, <1>c, ComposeMoves DEF WorkerStarts, Compose
    <2>3. \A t \in System : job'[t] = job[t] \/ (job'[t] = "running" /\ job[t] = "waiting")
      BY <1>1 DEF WorkerStarts, VTypeOK
    <2>4. \A t \in System : job[t] = "waiting" => vm[t] # "unborn" BY DEF LinkInv, Born
    <2>5. QED BY <2>1, <2>2, <2>3, <2>4, <1>a, QuietStep
  <1>2. CASE Expire(s)
    <2>1. UNCHANGED <<vm, links, pc, v>> BY <1>2 DEF Expire
    <2>2. pc[s] = "idle" BY <1>2 DEF Expire, Placed
    <2>3. \A t \in System : job'[t] = job[t] \/ job'[t] = "none" BY <1>2 DEF Expire, VTypeOK
    <2>4. Moves(s) BY <2>1 DEF Moves
    <2>5. QED BY <2>1, <2>2, <2>3, <2>4, <1>a, <1>c, QuietStep
  <1>3. CASE Poll(s)
    <2>1. PICK t \in System : v[s].system = t
      BY <1>3, <1>a DEF Poll, VTypeOK, Locals, FlowPC
    <2>2. Moves(s) /\ v'[s] = v[s] /\ job' = job /\ vm' = vm /\ links' = links /\ pc[s] = "poll"
      BY <1>3, <1>a DEF Poll, Goto, Moves, VTypeOK
    <2>3. CASE vm[v[s].system] = "Ready" /\ Goto(s, "interfaces")
      <3>1. pc'[s] = "interfaces" /\ ~Commissioning(t)
        BY <2>1, <2>3, <1>a DEF Goto, Commissioning, VTypeOK
      <3>2. QED BY <2>1, <2>2, <3>1, <1>d
    <2>4. CASE Goto(s, "broken")
      <3>1. pc'[s] = "broken" BY <2>4, <1>a DEF Goto, VTypeOK
      <3>2. QED BY <2>1, <2>2, <3>1, BrokenStep
    <2>5. QED BY <1>3, <2>3, <2>4 DEF Poll
  <1>4. CASE GetInterfaces(s)
    <2>1. PICK t \in System : v[s].system = t
      BY <1>4, <1>a DEF GetInterfaces, Calls, VTypeOK, Locals, FlowPC
    <2>2. PICK w : w = [v[s] EXCEPT !.left = Cidr \ links[t]] OBVIOUS
    <2>3. w.left = Cidr \ links[t] /\ w.system = t BY <2>1, <2>2, <1>a DEF Locals
    <2>4. v' = [v EXCEPT ![s] = w] BY <1>4, <2>1, <2>2, <1>a DEF GetInterfaces, VTypeOK, Locals
    <2>5. /\ Moves(s) /\ Went(s, "disconnect", w) /\ pc[s] = "interfaces"
          /\ job' = job /\ vm' = vm /\ links' = links
      BY <1>4, <2>4, <1>a DEF GetInterfaces, Calls, Goto, Moves, Went, VTypeOK
    <2>6. ~Commissioning(t) BY <2>1, <2>5 DEF LinkInv, AfterCommissioning
    <2>7. \A n \in Cidr : Lacks(t, n) => n \in v'[s].left BY <2>3, <2>5 DEF Lacks, Went
    <2>8. QED BY <2>1, <2>3, <2>5, <2>6, <2>7, <1>d DEF Went
  <1>5. CASE Disconnect(s)
    <2>1. PICK t \in System : v[s].system = t
      BY <1>5, <1>a DEF Disconnect, Calls, VTypeOK, Locals, FlowPC
    <2>2. PICK n \in v[s].left : /\ links' = [links EXCEPT ![t] = @ \ {n}]
                                 /\ Then(s, "link", [v[s] EXCEPT !.left = @ \ {n}, !.at = n], {})
      BY <1>5, <2>1 DEF Disconnect
    <2>3. PICK w : w = [v[s] EXCEPT !.left = @ \ {n}, !.at = n] OBVIOUS
    <2>4. w.left = v[s].left \ {n} /\ w.at = n /\ w.system = t
      BY <2>1, <2>3, <1>a DEF Locals
    <2>5. pc[s] = "disconnect" /\ vm' = vm BY <1>5 DEF Disconnect, Calls
    <2>6. Leaves(s, "link", w, {}) BY <2>2, <2>3, <1>a, ThenMoves
    <2>7. Moves(s) BY <2>6 DEF Leaves
    <2>8. \A u \in System \ {t} : links'[u] = links[u] BY <2>2 DEF VTypeOK
    <2>9. CASE Erred(s)
      BY <2>1, <2>5, <2>7, <2>8, <2>9, FlowErred DEF FlowPC
    <2>10. CASE Went(s, "link", w) /\ job' = job
      <3>1. OneVM' /\ Born'
        <4>1. v'[s].system = v[s].system BY <2>1, <2>4, <2>10 DEF Went
        <4>2. QED BY <2>5, <2>7, <2>10, <4>1, <1>a, BornKept DEF LinkInv, Exists, Born
      <3>2. AfterCommissioning'
        BY <2>1, <2>4, <2>5, <2>7, <2>10, <1>a, CommissioningKept
           DEF LinkInv, Commissioning, Went
      <3>3. Covers(s, t, n)' BY <2>4, <2>10 DEF Covers, Went
      <3>4. \A u \in System, m \in Cidr :
              Lacks(u, m)' => Lacks(u, m) \/ (u = t /\ m = n)
        BY <2>2, <2>5, <2>8 DEF Lacks, VTypeOK
      <3>5. \A u \in System, m \in Cidr : Covered(u, m) => Covered(u, m)'
        BY <2>5, <2>7 DEF Covered, Covers, Moves, Proc
      <3>6. \A u \in System, m \in Cidr :
              AtLinks(s, u)' /\ Lacks(u, m)' => m \in v'[s].left \/ Covered(u, m)'
        <4>1. SUFFICES ASSUME NEW m \in Cidr, Lacks(t, m)'
                       PROVE  m \in v'[s].left \/ Covered(t, m)'
          BY <2>4, <2>10 DEF AtLinks, Went
        <4>2. CASE m = n BY <3>3, <4>2 DEF Covered
        <4>3. CASE m # n
          <5>1. Lacks(t, m) BY <3>4, <4>1, <4>3
          <5>2. m \in v[s].left \/ Covered(t, m)
            BY <2>1, <2>5, <5>1 DEF LinkInv, Ahead, AtLinks
          <5>3. QED BY <2>4, <2>10, <3>5, <4>3, <5>2 DEF Went
        <4>4. QED BY <4>2, <4>3
      <3>7. \A u \in System, m \in Cidr : Lacks(u, m)' => Lacks(u, m) \/ Covered(u, m)'
        BY <3>3, <3>4 DEF Covered
      <3>8. Ahead' /\ LeftBehind'
        BY <2>7, <2>10, <3>5, <3>6, <3>7, <1>a, AheadKept DEF LinkInv
      <3>9. QED BY <3>1, <3>2, <3>8 DEF LinkInv
    <2>11. QED BY <2>6, <2>9, <2>10 DEF Leaves
  <1>6. CASE Link(s)
    <2>1. PICK t \in System : v[s].system = t
      BY <1>6, <1>a DEF Link, Calls, VTypeOK, Locals, FlowPC
    <2>2. PICK n \in Cidr : v[s].at = n
      BY <1>6, <1>a DEF Link, Calls, VTypeOK, Locals
    <2>3. links' = [links EXCEPT ![t] = @ \cup {n}] BY <1>6, <2>1, <2>2 DEF Link
    <2>4. PICK w : w = [v[s] EXCEPT !.at = NoCidr] OBVIOUS
    <2>5. w.left = v[s].left /\ w.system = t BY <2>1, <2>4, <1>a DEF Locals
    <2>6. pc[s] = "link" /\ vm' = vm BY <1>6 DEF Link, Calls
    <2>7. Leaves(s, "disconnect", w, {}) BY <1>6, <2>4, <1>a, ThenMoves DEF Link
    <2>8. Moves(s) BY <2>7 DEF Leaves
    <2>9. \A u \in System \ {t} : links'[u] = links[u] BY <2>3 DEF VTypeOK
    <2>10. CASE Erred(s)
      BY <2>1, <2>6, <2>8, <2>9, <2>10, FlowErred DEF FlowPC
    <2>11. CASE Went(s, "disconnect", w) /\ job' = job
      <3>1. OneVM' /\ Born'
        <4>1. v'[s].system = v[s].system BY <2>1, <2>5, <2>11 DEF Went
        <4>2. QED BY <2>6, <2>8, <2>11, <4>1, <1>a, BornKept DEF LinkInv, Exists, Born
      <3>2. AfterCommissioning'
        BY <2>1, <2>5, <2>6, <2>8, <2>11, <1>a, CommissioningKept
           DEF LinkInv, Commissioning, Went
      <3>3. \A u \in System, m \in Cidr :
              Lacks(u, m)' => Lacks(u, m) /\ ~(u = t /\ m = n)
        BY <2>3, <2>6, <2>9 DEF Lacks, VTypeOK
      <3>4. \A u \in System, m \in Cidr : Covers(s, u, m) => u = t /\ m = n
        BY <2>1, <2>2, <2>6 DEF Covers
      <3>5. \A u \in System, m \in Cidr : Covered(u, m) /\ Lacks(u, m)' => Covered(u, m)'
        <4>1. SUFFICES ASSUME NEW u \in System, NEW m \in Cidr, Covered(u, m), Lacks(u, m)'
                       PROVE  Covered(u, m)'
          OBVIOUS
        <4>2. PICK q \in System : Covers(q, u, m) BY <4>1 DEF Covered
        <4>3. q # s BY <3>3, <3>4, <4>1, <4>2
        <4>4. Covers(q, u, m)' BY <2>8, <4>2, <4>3 DEF Covers, Moves, Proc
        <4>5. QED BY <4>4 DEF Covered
      <3>6. \A u \in System, m \in Cidr :
              AtLinks(s, u)' /\ Lacks(u, m)' => m \in v'[s].left \/ Covered(u, m)'
        <4>1. SUFFICES ASSUME NEW m \in Cidr, Lacks(t, m)'
                       PROVE  m \in v'[s].left \/ Covered(t, m)'
          BY <2>5, <2>11 DEF AtLinks, Went
        <4>2. m \in v[s].left \/ Covered(t, m)
          BY <2>1, <2>6, <3>3, <4>1 DEF LinkInv, Ahead, AtLinks
        <4>3. QED BY <2>5, <2>11, <3>5, <4>1, <4>2 DEF Went
      <3>7. Ahead' /\ LeftBehind'
        BY <2>8, <2>11, <3>3, <3>5, <3>6, <1>a, AheadKept DEF LinkInv
      <3>8. QED BY <3>1, <3>2, <3>7 DEF LinkInv
    <2>12. QED BY <2>7, <2>10, <2>11 DEF Leaves
  <1>7. CASE Linked(s)
    <2>1. /\ Moves(s) /\ Went(s, "idle", NoLocals) /\ vm' = vm /\ links' = links
          /\ pc[s] = "disconnect" /\ v[s].left = {}
          /\ \A u \in System : IF u = s THEN job'[u] = "succeeded" ELSE job'[u] = job[u]
      BY <1>7, <1>a DEF Linked, Exits, Goto, Moves, Went, VTypeOK
    <2>2. v'[s].system = NoSystem /\ pc'[s] = "idle" BY <2>1, <1>b DEF Went
    <2>3. job[s] = "running" BY <2>1 DEF Placed
    <2>4. Exists(s) => AtLinks(s, s)
      <3>1. v[s].system # NoSystem BY <2>1, <1>a DEF VTypeOK, FlowPC
      <3>2. QED BY <2>1, <3>1 DEF LinkInv, Born, AtLinks
    <2>5. \A u \in System, m \in Cidr : Lacks(u, m)' <=> Lacks(u, m) BY <2>1 DEF Lacks
    <2>6. \A u \in System, m \in Cidr : Covered(u, m) => Covered(u, m)'
      BY <2>1 DEF Covered, Covers, Moves, Proc
    <2>7. OneVM' /\ Born' BY <2>1, <2>2, <2>3, <1>a, BornKept DEF LinkInv, Exists, Born
    <2>8. AfterCommissioning'
      <3>1. ~Commissioning(s)
        BY <2>1, <2>4 DEF LinkInv, AfterCommissioning, Commissioning, Exists, AtLinks
      <3>2. \A u \in System : Commissioning(u)' <=> Commissioning(u) BY <2>1 DEF Commissioning
      <3>3. QED BY <2>1, <2>2, <3>1, <3>2, <1>a, CommissioningKept DEF LinkInv
    <2>9. Ahead' /\ LeftBehind'
      <3>1. \A u \in System : ~AtLinks(s, u)' BY <2>2 DEF AtLinks
      <3>2. \A m \in Cidr : Lacks(s, m) => Covered(s, m)
        BY <2>1, <2>4 DEF LinkInv, Ahead, Lacks, Exists
      <3>3. QED BY <2>1, <2>5, <2>6, <3>1, <3>2, <1>a, AheadKept DEF LinkInv
    <2>10. QED BY <2>7, <2>8, <2>9 DEF LinkInv
  <1>8. CASE MarkBroken(s)
    <2>1. /\ Moves(s) /\ Went(s, "idle", NoLocals) /\ links' = links
          /\ pc[s] = "broken"
          /\ \A u \in System : IF u = s THEN job'[u] = "succeeded" ELSE job'[u] = job[u]
      BY <1>8, <1>a DEF MarkBroken, Exits, Goto, Moves, Went, VTypeOK
    <2>2. v'[s].system = NoSystem /\ pc'[s] = "idle" BY <2>1, <1>b DEF Went
    <2>3. PICK t \in System : v[s].system = t BY <2>1, <1>a DEF VTypeOK, Locals, FlowPC
    <2>4. \A u \in System : vm'[u] = IF u = t /\ Exists(t) THEN "Broken" ELSE vm[u]
      BY <1>8, <2>3 DEF MarkBroken, VTypeOK
    <2>5. job[s] = "running" BY <2>1 DEF Placed
    <2>6. Exists(s) => s = t BY <2>3 DEF LinkInv, Born
    <2>7. \A u \in System : /\ Exists(u)' <=> Exists(u)
                            /\ vm[u] # "unborn" <=> vm'[u] # "unborn"
                            /\ Commissioning(u)' <=> Commissioning(u) /\ u # t
      BY <2>4 DEF Exists, Commissioning
    <2>8. \A u \in System, m \in Cidr : Lacks(u, m)' <=> Lacks(u, m) /\ u # t
      BY <2>1, <2>4 DEF Lacks, Exists
    <2>9. OneVM' /\ Born' BY <2>1, <2>2, <2>5, <2>7, <1>a, BornKept DEF LinkInv, Born
    <2>10. AfterCommissioning'
      <3>1. ~Commissioning(s)' BY <2>6, <2>7 DEF Commissioning, Exists
      <3>2. QED BY <2>1, <2>2, <2>7, <3>1, <1>a, CommissioningKept DEF LinkInv
    <2>11. Ahead' /\ LeftBehind'
      <3>1. \A u \in System : ~AtLinks(s, u)' BY <2>2 DEF AtLinks
      <3>2. \A u \in System, m \in Cidr : Covered(u, m) /\ u # t => Covered(u, m)'
        BY <2>1, <2>3 DEF Covered, Covers, Moves, Proc
      <3>3. \A m \in Cidr : ~Lacks(s, m)' BY <2>6, <2>8 DEF Lacks, Exists
      <3>4. QED BY <2>1, <2>8, <3>1, <3>2, <3>3, <1>a, AheadKept DEF LinkInv
    <2>12. QED BY <2>9, <2>10, <2>11 DEF LinkInv
  <1>9. CASE Commissioned(s)
    <2>1. PICK st \in {"Ready", "Failed commissioning"} : vm' = [vm EXCEPT ![s] = st]
      BY <1>9 DEF Commissioned
    <2>2. /\ UNCHANGED <<job, pc, v>> /\ Commissioning(s)
          /\ \A u \in System \ {s} : links'[u] = links[u]
      BY <1>9 DEF Commissioned, Commissioning, VTypeOK
    <2>3. Moves(s) BY <2>2 DEF Moves
    <2>4. \A u \in System : /\ Exists(u)' <=> Exists(u)
                            /\ vm[u] # "unborn" <=> vm'[u] # "unborn"
                            /\ Commissioning(u)' <=> Commissioning(u) /\ u # s
      BY <2>1, <2>2 DEF Exists, Commissioning, VTypeOK
    <2>5. \A u \in System, m \in Cidr : Lacks(u, m)' => Lacks(u, m) \/ u = s
      BY <2>1, <2>2 DEF Lacks, VTypeOK
    <2>6. OneVM' /\ Born' BY <2>2, <2>3, <2>4, <1>a, BornKept DEF LinkInv, Born
    <2>7. AfterCommissioning' BY <2>2, <2>4 DEF LinkInv, AfterCommissioning
    <2>8. \A u \in System, m \in Cidr : Covered(u, m) => Covered(u, m)'
      BY <2>2 DEF Covered, Covers
    <2>9. Ahead'
      <3>1. ASSUME NEW q \in System, NEW u \in System, NEW m \in Cidr,
                   AtLinks(q, u)', Lacks(u, m)'
            PROVE  m \in v'[q].left \/ Covered(u, m)'
        <4>1. AtLinks(q, u) /\ v'[q] = v[q] BY <2>2, <3>1 DEF AtLinks
        <4>2. u # s BY <2>2, <4>1 DEF LinkInv, AfterCommissioning, AtLinks
        <4>3. m \in v[q].left \/ Covered(u, m) BY <2>5, <3>1, <4>1, <4>2 DEF LinkInv, Ahead
        <4>4. QED BY <2>8, <4>1, <4>3
      <3>2. QED BY <3>1 DEF Ahead
    <2>10. LeftBehind'
      <3>1. job[s] # "succeeded" BY <2>2 DEF LinkInv, AfterCommissioning
      <3>2. QED BY <2>2, <2>5, <2>8, <3>1 DEF LinkInv, LeftBehind
    <2>11. QED BY <2>6, <2>7, <2>9, <2>10 DEF LinkInv
  <1>10. QED BY <1>1, <1>2, <1>3, <1>4, <1>5, <1>6, <1>7, <1>8, <1>9 DEF Worker

\* For any number of handlers, VMs and networks, whatever calls fail or lose their
\* answers, and although workers outlive their VM and take to the next one: a VM that
\* is shown Ready after its job has succeeded, and that nobody works on, is linked.
THEOREM ReadyIsLinked == VMSpec => []ReadyVmIsLinked
  <1>1. VMInit => LinkInv
    BY LocalsTypes DEF VMInit, LinkInv, OneVM, Born, AfterCommissioning, Ahead, LeftBehind,
                       Exists, Lacks, AtLinks, Proc
  <1>2. VTypeOK /\ Placed /\ LinkInv /\ [VMNext]_vmVars => LinkInv'
    <2> SUFFICES ASSUME VTypeOK, Placed, LinkInv, [VMNext]_vmVars PROVE LinkInv'
      OBVIOUS
    <2>1. CASE UNCHANGED vmVars
      BY <2>1 DEF vmVars, LinkInv, OneVM, Born, AfterCommissioning, Ahead, LeftBehind, Exists,
                  Commissioning, Lacks, Covered, Covers, AtLinks
    <2>2. QED BY <2>1, LinkHandler, LinkFlow, LinkWorker DEF VMNext
  <1>3. VTypeOK /\ LinkInv => ReadyVmIsLinked
    <2> SUFFICES ASSUME VTypeOK, LeftBehind, NEW s \in System, vm[s] = "Ready",
                        job[s] = "succeeded", \A p \in System : v[p].system # s
                 PROVE  links[s] = Cidr
      BY DEF LinkInv, ReadyVmIsLinked
    <2>1. links[s] \subseteq Cidr BY DEF VTypeOK
    <2>2. \A n \in Cidr : ~Covered(s, n) BY DEF Covered, Covers
    <2>3. \A n \in Cidr : ~Lacks(s, n) BY <2>2 DEF LeftBehind
    <2>4. \A n \in Cidr : n \in links[s] BY <2>3 DEF Lacks
    <2>5. QED BY <2>1, <2>4
  <1>4. QED BY <1>1, <1>2, <1>3, VMTypeCorrect, PlacedAlways, PTL DEF VMSpec
=============================================================================
