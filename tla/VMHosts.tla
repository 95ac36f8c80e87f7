------------------------------ MODULE VMHosts ------------------------------
(***************************************************************************)
(* A machine as a host of virtual machines: the handlers VMCompose,        *)
(* VMDelete, OsDeploy and OsRelease of canonical_maas_controller.go, and   *)
(* the worker that runs VMCompose again and links the VM's interfaces.     *)
(*                                                                         *)
(* One machine is deployed and released, made a VM host and deleted as     *)
(* one; one request asks for one VM on it, with an interface in each of    *)
(* some networks.  A system is one incarnation of that VM in MAAS.  Each   *)
(* remote call is an action; nothing undoes the calls before one that      *)
(* fails.  MAAS, LXD and the playbooks are external.                       *)
(***************************************************************************)
EXTENDS FiniteSets

CONSTANTS
    Call,     \* handlers of the server that run at the same time
    System,   \* system IDs that MAAS has for incarnations of the VM
    Cidr,     \* networks of the request; the VM has one interface in each
    NoSystem, \* no system ID
    NoCidr,   \* no network
    Faults    \* what may go wrong, see FaultKinds

\* Only the call that marks a VM broken always gets through.
FaultKinds ==
    { "call",   \* a remote call fails without its effect
      "lost",   \* a call has its effect, and its answer is lost
      "lookup", \* the list of VM hosts cannot be read
      "job" }   \* the job cannot be registered

ASSUME VMAssumption ==
    /\ Call \cap System = {}
    /\ NoSystem \notin System
    /\ NoCidr \notin Cidr /\ "host" \notin Cidr
    /\ Faults \subseteq FaultKinds

\* The worker of the job of system s is the process s.
Proc == Call \cup System

VARIABLES
    deployed,  \* whether the machine is deployed
    host,      \* the machine's VM host in MAAS, trusted with its certificate or not
    subnet,    \* subnet[n]: the subnet of network n, with its address ranges or not
    vm,        \* vm[s]: MAAS' status name of system s
    links,     \* links[s]: the interfaces of s that are linked to their subnets
    job,       \* job[s]: the job registered for s
    pc,        \* pc[p]: the remote call that process p issues next
    v,         \* v[p]: its local variables
    abandoned, \* history: what a failed call has left half done
    excused    \* history: releases that cannot know of the VM host

maasVars == <<deployed, host, subnet, vm, links>>
vmVars   == <<maasVars, job, pc, v, abandoned, excused>>

-----------------------------------------------------------------------------
VmStatus == {"unborn", "Commissioning", "Ready", "Failed commissioning", "Broken", "deleted"}

ComposePC == {"setup", "addHost", "certificate", "refresh", "list", "network",
              "subnet", "range", "exists", "compose"}
FlowPC    == {"poll", "interfaces", "disconnect", "link", "broken"}
ReleasePC == {"deleteHost", "unsubscribe", "release"}

Exists(s) == vm[s] \notin {"unborn", "deleted"}
Unborn    == {s \in System : vm[s] = "unborn"}

\* hostID is the ID of the host that is registered now (holds); the subnets in
\* the list that was read (known); networks or interfaces that the loop has
\* still before it (left) and the one it is at; the VM's system ID.  A local that
\* is not read any more goes back to its value in NoLocals.
Locals == [holds: BOOLEAN, known: SUBSET Cidr, left: SUBSET Cidr, at: Cidr \cup {NoCidr},
           system: System \cup {NoSystem}]
NoLocals == [holds |-> FALSE, known |-> {}, left |-> {}, at |-> NoCidr, system |-> NoSystem]
Holding  == [NoLocals EXCEPT !.holds = TRUE]
Knows(s) == [NoLocals EXCEPT !.system = s]

VMInit ==
    /\ deployed = TRUE
    /\ host = "none"
    /\ subnet = [n \in Cidr |-> "none"]
    /\ vm = [s \in System |-> "unborn"]
    /\ links = [s \in System |-> {}]
    /\ job = [s \in System |-> "none"]
    /\ pc = [p \in Proc |-> "idle"]
    /\ v = [p \in Proc |-> NoLocals]
    /\ abandoned = {}
    /\ excused = {}

Goto(p, l) == pc' = [pc EXCEPT ![p] = l]

\* The handler replies; the worker's process exits and its job ends as told.
Exits(p, result) ==
    /\ Goto(p, "idle")
    /\ v' = [v EXCEPT ![p] = NoLocals]
    /\ job' = IF p \in System THEN [job EXCEPT ![p] = result] ELSE job

\* Mutant of Error: the error of the flow is only logged.
Error_logged(p) ==
    /\ Exits(p, IF pc[p] \in FlowPC THEN "succeeded" ELSE "failed")
    /\ excused' = excused \ {p}

\* errorProcess, and markBroken once the VM is composed.
Error(p) ==
    \/ pc[p] \in FlowPC /\ Goto(p, "broken") /\ v' = [v EXCEPT ![p] = Knows(v[p].system)]
       /\ UNCHANGED <<job, excused>>
    \/ pc[p] \notin FlowPC /\ Exits(p, "failed") /\ excused' = excused \ {p}

\* Process p goes on to l after a call, if it is told that the call succeeded.
\* What the call has made is half done otherwise.
Then(p, l, w, made) ==
    \/ /\ Goto(p, l) /\ v' = [v EXCEPT ![p] = w]
       /\ UNCHANGED <<job, abandoned, excused>>
    \/ /\ "lost" \in Faults /\ Error(p)
       /\ abandoned' = abandoned \cup made

\* What MAAS, LXD or Ansible cannot do in this state.
Refused(p) ==
    \/ pc[p] \in {"setup", "certificate"} /\ ~deployed
    \/ pc[p] = "addHost" /\ host # "none"
    \/ pc[p] \in {"certificate", "deleteHost"} /\ ~v[p].holds
    \/ pc[p] \in {"refresh", "compose"} /\ ~(v[p].holds /\ host = "trusted")
    \/ pc[p] = "subnet" /\ subnet[v[p].at] # "none"
    \/ pc[p] = "compose" /\ \E s \in System : Exists(s)
    \/ pc[p] \in FlowPC /\ ~Exists(v[p].system)

\* What process p has begun and not finished.
HalfDone(p) ==
    (IF pc[p] = "certificate" /\ v[p].holds THEN {"host"} ELSE {})
    \cup (IF pc[p] = "range" THEN {v[p].at} ELSE {})

\* The call of process p fails, or one of the POSTs of the ranges is not answered.
CallFails(p) ==
    /\ pc[p] \in (ComposePC \cup FlowPC \cup ReleasePC) \ {"network", "broken"}
    /\ Refused(p) \/ "call" \in Faults \/ (pc[p] = "range" /\ "lost" \in Faults)
    /\ Error(p)
    /\ abandoned' = abandoned \cup HalfDone(p)
    /\ UNCHANGED maasVars

-----------------------------------------------------------------------------
\* VMCompose, in the server and in a worker: getHostID, of which any error counts
\* as "no VM host".
Compose(p) ==
    /\ \/ /\ host # "none"
          /\ Goto(p, "refresh")
          /\ v' = [v EXCEPT ![p] = Holding]
       \/ /\ host = "none" \/ "lookup" \in Faults
          /\ Goto(p, "setup")
          /\ UNCHANGED v
    /\ UNCHANGED <<maasVars, abandoned, excused>>

BeginCompose(c) == pc[c] = "idle" /\ Compose(c) /\ UNCHANGED job

WorkerStarts(s) ==
    /\ job[s] = "waiting"
    /\ job' = [job EXCEPT ![s] = "running"]
    /\ Compose(s)

\* Process p issues its next call, which is accepted.
Calls(p, l) == pc[p] = l /\ ~Refused(p)

\* setup_lxd.yaml, the POST that registers the VM host, and its certificate.
SetupLxd(p) ==
    /\ Calls(p, "setup")
    /\ Then(p, "addHost", v[p], {})
    /\ UNCHANGED maasVars

\* Releases that looked for a VM host before this one was there do not see it.
AddHost(p) ==
    /\ Calls(p, "addHost")
    /\ host' = "untrusted"
    /\ \/ /\ Goto(p, "certificate") /\ v' = [v EXCEPT ![p] = Holding]
          /\ UNCHANGED <<job, abandoned>>
       \/ /\ "lost" \in Faults /\ Exits(p, "failed")
          /\ abandoned' = abandoned \cup {"host"}
    /\ excused' = excused \cup {c \in Call : pc[c] \in {"unsubscribe", "release"}}
    /\ UNCHANGED <<deployed, subnet, vm, links>>

\* Mutant of Certificate: the playbook's error is ignored.
Certificate_ignored(p) ==
    /\ pc[p] = "certificate"
    /\ host' = IF Refused(p) THEN host ELSE "trusted"
    /\ Goto(p, "refresh")
    /\ UNCHANGED <<deployed, subnet, vm, links, job, v, abandoned, excused>>

Certificate(p) ==
    /\ Calls(p, "certificate")
    /\ host' = "trusted"
    /\ Then(p, "refresh", v[p], {})
    /\ UNCHANGED <<deployed, subnet, vm, links>>

Refresh(p) ==
    /\ Calls(p, "refresh")
    /\ Then(p, "list", v[p], {})
    /\ UNCHANGED maasVars

\* getSubnetList: the subnets are read once, before the loop over the networks.
ListSubnets(p) ==
    /\ pc[p] = "list"
    /\ Goto(p, "network")
    /\ v' = [v EXCEPT ![p].known = {n \in Cidr : subnet[n] # "none"}, ![p].left = Cidr]
    /\ UNCHANGED <<maasVars, job, abandoned, excused>>

\* findSubnet for the next network; then the VM is asked for.
Network(p) ==
    /\ pc[p] = "network"
    /\ \/ \E n \in v[p].left :
            /\ Goto(p, IF n \in v[p].known THEN "network" ELSE "subnet")
            /\ v' = [v EXCEPT ![p].left = @ \ {n},
                              ![p].at = IF n \in v[p].known THEN NoCidr ELSE n]
       \/ v[p].left = {} /\ Goto(p, "exists") /\ v' = [v EXCEPT ![p].known = {}]
    /\ UNCHANGED <<maasVars, job, abandoned, excused>>

\* createSubnetAndIPRange: a fabric of its own, the subnet, then its ranges.
CreateSubnet(p) ==
    /\ Calls(p, "subnet")
    /\ subnet' = [subnet EXCEPT ![v[p].at] = "bare"]
    /\ Then(p, "range", v[p], {v[p].at})
    /\ UNCHANGED <<deployed, host, vm, links>>

CreateRanges(p) ==
    /\ Calls(p, "range")
    /\ subnet' = [subnet EXCEPT ![v[p].at] = "ranged"]
    /\ Then(p, "network", [v[p] EXCEPT !.known = @ \cup {v[p].at}, !.at = NoCidr], {})
    /\ UNCHANGED <<deployed, host, vm, links>>

\* checkMachineExists: a VM of that name is the answer, whatever it looks like.
Composed(p) == IF p \in System THEN "poll" ELSE "register"

LooksForVM(p) ==
    /\ pc[p] = "exists"
    /\ \/ \E s \in System :
            /\ Exists(s)
            /\ Goto(p, Composed(p))
            /\ v' = [v EXCEPT ![p] = Knows(s)]
       \/ /\ \A s \in System : ~Exists(s)
          /\ Goto(p, "compose")
          /\ UNCHANGED v
    /\ UNCHANGED <<maasVars, job, abandoned, excused>>

\* Mutant of ComposeVM: the system ID of the answer is not kept.
ComposeVM_anonymous(p) ==
    /\ Calls(p, "compose")
    /\ \E s \in Unborn : vm' = [vm EXCEPT ![s] = "Commissioning"]
    /\ Then(p, Composed(p), v[p], {})
    /\ UNCHANGED <<deployed, host, subnet, links>>

\* op-compose.
ComposeVM(p) ==
    /\ Calls(p, "compose")
    /\ \E s \in Unborn :
         /\ vm' = [vm EXCEPT ![s] = "Commissioning"]
         /\ Then(p, Composed(p), Knows(s), {})
    /\ UNCHANGED <<deployed, host, subnet, links>>

\* RegisterWithInfo (JobStore): a job that runs or has succeeded is kept, and an
\* error is ignored; the reply is ACCEPT.
RegisterJob(c) ==
    LET s == v[c].system IN
    /\ pc[c] = "register"
    /\ \/ job' = [job EXCEPT ![s] = IF @ \in {"none", "failed"} THEN "waiting" ELSE @]
       \/ "job" \in Faults /\ UNCHANGED job
    /\ Goto(c, "idle")
    /\ v' = [v EXCEPT ![c] = NoLocals]
    /\ UNCHANGED <<maasVars, abandoned, excused>>

\* The TTL of a job that has ended.
Expire(s) ==
    /\ job[s] \in {"succeeded", "failed"}
    /\ job' = [job EXCEPT ![s] = "none"]
    /\ UNCHANGED <<maasVars, pc, v, abandoned, excused>>

-----------------------------------------------------------------------------
\* runVMComposeAsyncFlow: pollingMachineStatus, getInterfaceList and
\* linkSubnetInterface, keyed by the interface's name.
Poll(s) ==
    /\ pc[s] = "poll"
    /\ \/ vm[v[s].system] = "Ready" /\ Goto(s, "interfaces")
       \/ vm[v[s].system] = "Failed commissioning" /\ Goto(s, "broken")
    /\ UNCHANGED <<maasVars, job, v, abandoned, excused>>

\* The interfaces whose links differ from the wanted ones in the list read now.
GetInterfaces(s) ==
    /\ Calls(s, "interfaces")
    /\ v' = [v EXCEPT ![s].left = Cidr \ links[v[s].system]]
    /\ Goto(s, "disconnect")
    /\ UNCHANGED <<maasVars, job, abandoned, excused>>

Disconnect(s) ==
    /\ Calls(s, "disconnect")
    /\ \E n \in v[s].left :
         /\ links' = [links EXCEPT ![v[s].system] = @ \ {n}]
         /\ Then(s, "link", [v[s] EXCEPT !.left = @ \ {n}, !.at = n], {})
    /\ UNCHANGED <<deployed, host, subnet, vm>>

Link(s) ==
    /\ Calls(s, "link")
    /\ links' = [links EXCEPT ![v[s].system] = @ \cup {v[s].at}]
    /\ Then(s, "disconnect", [v[s] EXCEPT !.at = NoCidr], {})
    /\ UNCHANGED <<deployed, host, subnet, vm>>

Linked(s) ==
    /\ pc[s] = "disconnect" /\ v[s].left = {}
    /\ Exits(s, "succeeded")
    /\ UNCHANGED <<maasVars, abandoned, excused>>

\* markBroken; the process exits with success.
MarkBroken(s) ==
    /\ pc[s] = "broken"
    /\ vm' = IF Exists(v[s].system) THEN [vm EXCEPT ![v[s].system] = "Broken"] ELSE vm
    /\ Exits(s, "succeeded")
    /\ UNCHANGED <<deployed, host, subnet, links, abandoned, excused>>

\* MAAS commissions a VM, which leaves its interfaces without links.
Commissioned(s) ==
    /\ vm[s] = "Commissioning"
    /\ \E st \in {"Ready", "Failed commissioning"} : vm' = [vm EXCEPT ![s] = st]
    /\ links' = [links EXCEPT ![s] = {}]
    /\ UNCHANGED <<deployed, host, subnet, job, pc, v, abandoned, excused>>

-----------------------------------------------------------------------------
\* Bound: a VM is deleted only while MAAS has a system ID left for the next.
VMDelete(c) ==
    /\ pc[c] = "idle"
    /\ Unborn # {}
    /\ \E s \in System : Exists(s) /\ vm' = [vm EXCEPT ![s] = "deleted"]
    /\ links' = [s \in System |-> {}]
    /\ UNCHANGED <<deployed, host, subnet, job, pc, v, abandoned, excused>>

\* OsDeploy, and the deployment by MAAS.
OsDeploy(c) ==
    /\ pc[c] = "idle" /\ ~deployed
    /\ deployed' = TRUE
    /\ UNCHANGED <<host, subnet, vm, links, job, pc, v, abandoned, excused>>

\* OsRelease: getHostID again.
BeginRelease(c) ==
    /\ pc[c] = "idle"
    /\ \/ /\ host # "none"
          /\ Goto(c, "deleteHost")
          /\ v' = [v EXCEPT ![c] = Holding]
          /\ UNCHANGED excused
       \/ /\ host = "none" \/ "lookup" \in Faults
          /\ Goto(c, "unsubscribe")
          /\ excused' = IF host = "none" THEN excused ELSE excused \cup {c}
          /\ UNCHANGED v
    /\ UNCHANGED <<maasVars, job, abandoned>>

\* Mutant of DeleteHost: an error is taken for "there is no such host".
DeleteHost_ignored(c) ==
    /\ pc[c] = "deleteHost"
    /\ Goto(c, "unsubscribe")
    /\ UNCHANGED <<maasVars, job, v, abandoned, excused>>

\* The VM host goes, and with it its VMs (same bound as VMDelete).
DeleteHost(c) ==
    /\ Calls(c, "deleteHost")
    /\ Unborn # {}
    /\ host' = "none"
    /\ vm' = [s \in System |-> IF Exists(s) THEN "deleted" ELSE vm[s]]
    /\ links' = [s \in System |-> {}]
    /\ \/ /\ Goto(c, "unsubscribe")
       \/ /\ "lost" \in Faults /\ Goto(c, "idle")
    /\ v' = [p \in Proc |-> [v[p] EXCEPT !.holds = FALSE]]
    /\ abandoned' = abandoned \ {"host"}
    /\ UNCHANGED <<deployed, subnet, job, excused>>

\* getMachineAccessInfo, and unregister_subscription.yaml if it is deployed and on.
Unsubscribe(c) ==
    /\ pc[c] = "unsubscribe"
    /\ Then(c, "release", v[c], {})
    /\ UNCHANGED maasVars

\* op-release erases the disk, LXD and what it trusts included; OsRelease goes on
\* with the addresses (HostAddresses).
ReleaseMachine(c) ==
    /\ pc[c] = "release"
    /\ deployed' = FALSE
    /\ host' = IF host = "none" THEN "none" ELSE "untrusted"
    /\ abandoned' = IF host = "none" THEN abandoned ELSE abandoned \cup {"host"}
    /\ Exits(c, "succeeded")
    /\ excused' = excused \ {c}
    /\ UNCHANGED <<subnet, vm, links>>

-----------------------------------------------------------------------------
Handler(c) ==
    \/ BeginCompose(c) \/ RegisterJob(c) \/ VMDelete(c) \/ OsDeploy(c)
    \/ BeginRelease(c) \/ DeleteHost(c) \/ Unsubscribe(c) \/ ReleaseMachine(c)

OtherCall(p) ==
    \/ SetupLxd(p) \/ AddHost(p) \/ Certificate(p) \/ Refresh(p) \/ ListSubnets(p)
    \/ Network(p) \/ CreateSubnet(p) \/ LooksForVM(p) \/ ComposeVM(p) \/ CallFails(p)

Flow(p) == OtherCall(p) \/ CreateRanges(p)

Worker(s) ==
    \/ WorkerStarts(s) \/ Poll(s) \/ GetInterfaces(s) \/ Disconnect(s) \/ Link(s)
    \/ Linked(s) \/ MarkBroken(s)

VMNext ==
    \/ \E c \in Call : Handler(c)
    \/ \E p \in Proc : Flow(p)
    \/ \E s \in System : Worker(s) \/ Expire(s) \/ Commissioned(s)

VMSpec == VMInit /\ [][VMNext]_vmVars

-----------------------------------------------------------------------------
\* The variables keep their types; a process that has a VM, or is at
\* one of the networks, knows which.
VTypeOK ==
    /\ deployed \in BOOLEAN
    /\ host \in {"none", "untrusted", "trusted"}
    /\ subnet \in [Cidr -> {"none", "bare", "ranged"}]
    /\ vm \in [System -> VmStatus]
    /\ links \in [System -> SUBSET Cidr]
    /\ job \in [System -> {"none", "waiting", "running", "succeeded", "failed"}]
    /\ pc \in [Proc -> {"idle", "register"} \cup ComposePC \cup FlowPC \cup ReleasePC]
    /\ v \in [Proc -> Locals]
    /\ \A p \in Proc : /\ pc[p] \in {"register"} \cup FlowPC => v[p].system # NoSystem
                       /\ pc[p] \in {"subnet", "range", "link"} => v[p].at # NoCidr
    /\ abandoned \subseteq {"host"} \cup Cidr
    /\ excused \subseteq Call

\* A machine is released only when it is not a VM host any more: whichever calls
\* fail, and whatever other releases and compositions do at the same time, unless
\* the release could not read the VM hosts or one was registered after it had.
ReleasesUnhosted ==
    \A c \in Call : pc[c] \in {"unsubscribe", "release"} => host = "none" \/ c \in excused

\* A VM host without a certificate that LXD trusts and a subnet without its ranges
\* are being finished by the process that made them, or left by a call that failed:
\* the next request finds the host or the subnet and takes it as it is.
HalfDoneIsOwned ==
    LET owned == abandoned \cup UNION {HalfDone(p) : p \in Proc} IN
    /\ host = "untrusted" => "host" \in owned
    /\ \A n \in Cidr : subnet[n] = "bare" => n \in owned

\* A VM that MAAS shows as Ready when its job has ended with success, and nothing
\* works on it, has every interface linked, in spite of failed and lost calls and of
\* the worker of an earlier VM that has taken to this one.
ReadyVmIsLinked ==
    \A s \in System :
        /\ vm[s] = "Ready" /\ job[s] = "succeeded"
        /\ \A p \in System : v[p].system # s
        => links[s] = Cidr
=============================================================================
