-------------------------- MODULE MachineRegister --------------------------
(***************************************************************************)
(* Registration of one host with Canonical MAAS: the handlers              *)
(* MachineRegister, Cancel, MachineShow and MachineDelete of               *)
(* canonical_maas_controller.go and the worker process that a Kubernetes   *)
(* job runs, composed with the job store (JobStore).                       *)
(*                                                                         *)
(* A system is one incarnation of the host in MAAS: deleting the machine   *)
(* and registering the host again yields another system ID.  A request of  *)
(* JobStore is the registration of one system.  Each call of a handler or  *)
(* a worker to MAAS is an action; MAAS itself is external.                 *)
(***************************************************************************)
EXTENDS JobStore

CONSTANTS
    Iface,      \* the boot interface and those the request's network information names
    Boot,       \* the boot interface, which the request may name or not
    Subnet,     \* subnets they may be linked to
    Asked,      \* Asked[i]: the subnets the request names for i, {} if it does not name i
    AutoLinks,  \* AutoLinks[i]: the subnets MAAS links i to when it commissions
    Faults,     \* what may go wrong, see FaultKinds
    Serves      \* handlers clients call besides MachineRegister

FaultKinds ==
    { "maas",        \* a MAAS call fails, with or without its effect
      "markBroken",  \* so does the call that marks the machine broken
      "worker",      \* the worker process dies
      "deadline",    \* a job exceeds its active deadline
      "killLag",     \* the worker of a deleted or failed job runs on for a while
      "lateStatus" } \* the worker acts before its pod is counted as active

ASSUME MachineAssumption ==
    /\ Boot \in Iface
    /\ \A r \in Request : SystemOf[r] = r
    /\ Asked \in [Iface -> SUBSET Subnet]
    /\ \A i \in Iface \ {Boot} : Asked[i] # {}
    /\ \E i \in Iface : Asked[i] # {}
    /\ AutoLinks \in [Iface -> SUBSET Subnet]
    /\ Faults \subseteq FaultKinds
    /\ Serves \subseteq {"cancel", "show", "delete"}

VARIABLES
    status,   \* status[s]: MAAS' status name of system s
    links,    \* links[s][i]: the subnets interface i of s is linked to
    named,    \* named[s]: the interfaces whose name the request does not want changed
    nets,     \* the subnets that MAAS has
    hpc,      \* hpc[c]: what handler c does next, outside the job store
    had,      \* had[c]: Cancel's hadProcessingJob
    seen,     \* seen[c]: the system MachineShow is asked for, the status it read
    could,    \* could[c]: history, the ready_status values MachineShow's flow
              \*           had for the states since it read the status
    target,   \* target[c]: history, the jobs active when Cancel began
    stopped,  \* history: the jobs that an accepted Cancel was to stop
    wpc,      \* wpc[n]: the next call of job n's worker to MAAS
    work      \* work[n]: the local variables of job n's worker

machineVars == <<status, links, named, nets>>
handlerVars == <<hpc, had, seen, target, stopped>>
workerVars  == <<wpc, work>>
allVars     == <<vars, machineVars, handlerVars, could, workerVars>>

-----------------------------------------------------------------------------
Status == {"unborn", "New", "Commissioning", "Testing", "Ready",
           "Failed commissioning", "Failed testing", "Broken", "deleted"}

Exists(s)     == status[s] \notin {"unborn", "deleted"}
InProgress(s) == status[s] \in {"Commissioning", "Testing"}

\* Mutant of ReadyFlow: the jobs are not looked at.
ReadyFlow_noJobs(statusName, hasJob) ==
    CASE statusName = "Ready" -> "Ready"
      [] statusName \in {"Broken", "Failed commissioning", "Failed testing"} -> "Failed"
      [] OTHER -> "Processing"

\* getReadyStatus for a machine that is not deployed.
ReadyFlow(statusName, hasJob) ==
    CASE statusName = "Ready" -> IF hasJob THEN "Processing" ELSE "Ready"
      [] statusName \in {"Broken", "Failed commissioning", "Failed testing"} -> "Failed"
      [] OTHER -> "Processing"
ReadyStatus(s) == ReadyFlow(status[s], HasJob(s))

\* The interfaces are renamed and linked to the subnets asked for.  Beside them only
\* the boot interface may have links, those that MAAS gave it: a worker keeps what it
\* finds of them.
Kept(i)       == IF i = Boot THEN AutoLinks[i] ELSE {}
Fits(i, nts)  == Asked[i] \subseteq nts /\ nts \subseteq Asked[i] \cup Kept(i)
Configured(s) == named[s] = Iface /\ \A i \in Iface : Fits(i, links[s][i])

\* Only the boot interface may be unnamed in the request; its name is left as it is.
Unasked == {i \in Iface : Asked[i] = {}}

NoWork(s) == [sys |-> s, known |-> {}, boot |-> {}, left |-> {}, at |-> Boot, add |-> {},
              links |-> AutoLinks, named |-> {}]

MInit ==
    /\ Init
    /\ status = [s \in Request |-> "unborn"]
    /\ links = [s \in Request |-> AutoLinks]
    /\ named = [s \in Request |-> Unasked]
    /\ nets \in {ns \in SUBSET Subnet : \A i \in Iface : AutoLinks[i] \subseteq ns}
    /\ hpc = [c \in Call |-> "idle"]
    /\ had = [c \in Call |-> FALSE]
    /\ seen = [c \in Call |-> [sys |-> arg[c], status |-> "unborn"]]
    /\ could = [c \in Call |-> {}]
    /\ target = [c \in Call |-> {}]
    /\ stopped = {}
    /\ wpc = [n \in Name |-> "off"]
    /\ work = [n \in Name |-> NoWork(n[1])]

HGoto(c, l) == hpc' = [hpc EXCEPT ![c] = l]
Idle(c)     == hpc[c] = "idle" /\ pc[c] = "idle"

\* The machine that MAAS creates for the host: status New.
Register(s) ==
    /\ \A t \in Request : ~Exists(t)
    /\ status[s] = "unborn"
    /\ status' = [status EXCEPT ![s] = "New"]
    /\ UNCHANGED <<links, named, nets>>

-----------------------------------------------------------------------------
\* MachineRegister in server mode.  Machines.POST looks the host up by its name
\* and creates it only if it is missing; then the job is registered.
RegisterFinds(c) ==
    /\ Idle(c)
    /\ \E s \in Request : Exists(s) /\ BeginRegister(c, s)
    /\ UNCHANGED <<machineVars, handlerVars, workerVars>>

RegisterFindsNone(c) ==
    /\ Idle(c)
    /\ \A s \in Request : ~Exists(s)
    /\ HGoto(c, "create")
    /\ UNCHANGED <<vars, machineVars, had, seen, target, stopped, workerVars>>

RegisterCreates(c) ==
    /\ hpc[c] = "create"
    /\ \E s \in Request : Register(s) /\ BeginRegister(c, s)
    /\ HGoto(c, "idle")
    /\ UNCHANGED <<had, seen, target, stopped, workerVars>>

\* MAAS refuses a second machine of that name, or the call fails.
RegisterRefused(c) ==
    /\ hpc[c] = "create"
    /\ \/ (\E s \in Request : Exists(s)) /\ UNCHANGED machineVars
       \/ "maas" \in Faults /\ UNCHANGED machineVars
       \/ "maas" \in Faults /\ \E s \in Request : Register(s)
    /\ HGoto(c, "idle")
    /\ UNCHANGED <<vars, had, seen, target, stopped, workerVars>>

\* Cancel: HasProcessingJob and CancelJobs (JobStore), then the machine.
CancelBegins(c) ==
    /\ "cancel" \in Serves /\ Idle(c)
    /\ \E s \in Request :
         /\ status[s] # "unborn"
         /\ BeginCancel(c, s)
         /\ target' = [target EXCEPT ![c] = ActiveJobs(s)]
    /\ HGoto(c, "cancel")
    /\ had' = [had EXCEPT ![c] = FALSE]
    /\ UNCHANGED <<machineVars, seen, stopped, workerVars>>

\* The handler's remaining local state is dropped with its reply; Accept(c): the
\* reply is ACCEPT, so the jobs that were active count as stopped.
Accept(c) == stopped' = stopped \cup target[c]
CancelEnds(c) ==
    /\ HGoto(c, "idle")
    /\ target' = [target EXCEPT ![c] = {}]
    /\ had' = [had EXCEPT ![c] = FALSE]
    /\ UNCHANGED <<vars, seen, workerVars>>

\* The status decides: commissioning and testing are aborted, anything else is
\* accepted if there was a job and refused (CancelError) otherwise.
CancelAborts(c) ==
    /\ hpc[c] = "cancel" /\ pc[c] = "idle"
    /\ InProgress(arg[c])
    /\ HGoto(c, "abort")
    /\ UNCHANGED <<vars, machineVars, had, seen, target, stopped, workerVars>>

CancelReplies(c) ==
    /\ hpc[c] = "cancel" /\ pc[c] = "idle"
    /\ \/ /\ Exists(arg[c]) /\ ~InProgress(arg[c])
          /\ IF had[c] THEN Accept(c) ELSE UNCHANGED stopped
       \/ /\ ~Exists(arg[c]) \/ "maas" \in Faults
          /\ UNCHANGED stopped
    /\ CancelEnds(c)
    /\ UNCHANGED machineVars

\* op-abort ends commissioning; testing falls back to the status before it.
Abort(c) ==
    /\ hpc[c] = "abort"
    /\ \/ /\ InProgress(arg[c])
          /\ \E st \in IF status[arg[c]] = "Testing" THEN {"New", "Ready"} ELSE {"New"} :
               status' = [status EXCEPT ![arg[c]] = st]
          /\ Accept(c)
       \/ /\ ~InProgress(arg[c]) \/ "maas" \in Faults
          /\ UNCHANGED <<status, stopped>>
    /\ CancelEnds(c)
    /\ UNCHANGED <<links, named, nets>>

\* MachineShow reads the status, and only then asks for the jobs.
ShowReads(c) ==
    /\ "show" \in Serves /\ Idle(c)
    /\ \E s \in Request :
         /\ Exists(s)
         /\ seen' = [seen EXCEPT ![c] = [sys |-> s, status |-> status[s]]]
    /\ HGoto(c, "show")
    /\ UNCHANGED <<vars, machineVars, had, target, stopped, workerVars>>

ShowReplies(c) ==
    /\ hpc[c] = "show"
    /\ HGoto(c, "idle")
    /\ seen' = [seen EXCEPT ![c].status = "unborn"]
    /\ UNCHANGED <<vars, machineVars, had, target, stopped, workerVars>>

\* Bound: a machine is deleted only while MAAS has a system ID left for the next.
IdLeft == \E s \in Request : status[s] = "unborn"

\* MachineDelete: the machine goes, its jobs stay.
MachineDelete(c) ==
    /\ "delete" \in Serves /\ Idle(c) /\ IdLeft
    /\ \E s \in Request :
         /\ Exists(s)
         /\ status' = [status EXCEPT ![s] = "deleted"]
    /\ UNCHANGED <<vars, links, named, nets, handlerVars, workerVars>>

-----------------------------------------------------------------------------
\* A step of the job store: a started pod begins with the handler of its request,
\* a pod that is gone takes its worker along, at once or after a while; a Job
\* created anew under a name is another job.
StoreStep(A) ==
    /\ A
    /\ wpc' = [n \in Name |->
                 IF pod'[n] = "running" /\ pod[n] # "running" THEN "lookup"
                 ELSE IF pod'[n] = "running" \/ "killLag" \in Faults THEN wpc[n] ELSE "off"]
    /\ work' = [n \in Name |-> IF wpc'[n] \in {"off", "lookup"} THEN NoWork(n[1]) ELSE work[n]]
    /\ LET new == {n \in Name : job[n] = "absent" /\ job'[n] # "absent"} IN
         /\ stopped' = stopped \ new
         /\ target' = [c \in Call |-> target[c] \ new]
    /\ UNCHANGED <<machineVars, hpc, seen>>

Handler(c) ==
    /\ StoreStep(\/ ListByRequest(c) \/ ListActive(c) \/ Create(c)
                 \/ CheckHasJob(c) \/ ListCancel(c) \/ Delete(c) \/ ApiError(c))
    /\ had' = [had EXCEPT ![c] = IF pc[c] = "hasJob" THEN pc'[c] = "listCancel" ELSE @]

JobController(n) ==
    /\ StoreStep(\/ StartPod(n) \/ CountActive(n)
                 \/ JobSucceeds(n) \/ ReplacePod(n) \/ JobFails(n)
                 \/ ("deadline" \in Faults /\ DeadlineExceeded(n)) \/ Expire(n))
    /\ UNCHANGED had

Clock == StoreStep(Tick) /\ UNCHANGED had

\* Mutant of WorkerExits: the worker takes its own job off the store.
WorkerExits_deregisters(n) ==
    /\ \/ wpc[n] \in {"done", "failed"} /\ pod[n] = "running"
       \/ "worker" \in Faults /\ pod[n] = "running"
    /\ SetJob(n, "absent", "none")
    /\ UNCHANGED retries
    /\ wpc' = [wpc EXCEPT ![n] = "off"]
    /\ work' = [work EXCEPT ![n] = NoWork(n[1])]
    /\ UNCHANGED <<machineVars, handlerVars>>

\* Handing back the result of a worker's pod, or its death.
WorkerExits(n) ==
    /\ \/ wpc[n] = "done" /\ PodExits(n) /\ pod'[n] = "ok"
       \/ wpc[n] = "failed" /\ PodExits(n) /\ pod'[n] = "error"
       \/ "worker" \in Faults /\ PodExits(n) /\ pod'[n] = "error"
    /\ wpc' = [wpc EXCEPT ![n] = "off"]
    /\ work' = [work EXCEPT ![n] = NoWork(n[1])]
    /\ UNCHANGED <<machineVars, handlerVars>>

\* The worker of a job that is gone is killed at last.
Killed(n) ==
    /\ "killLag" \in Faults
    /\ wpc[n] # "off" /\ pod[n] # "running"
    /\ wpc' = [wpc EXCEPT ![n] = "off"]
    /\ work' = [work EXCEPT ![n] = NoWork(n[1])]
    /\ UNCHANGED <<vars, machineVars, handlerVars>>

-----------------------------------------------------------------------------
\* The worker: MachineRegister in worker mode, runMachineRegisterAsyncFlow.
At(n, l) ==
    /\ wpc[n] = l
    /\ IF pod[n] = "running" THEN job[n] # "pending" \/ "lateStatus" \in Faults
                             ELSE "killLag" \in Faults
    /\ UNCHANGED <<vars, handlerVars>>

\* A call that went well, or one whose effect happened and whose answer was lost;
\* a call that failed before it had its effect is WorkerCallFails.
Then(n, l)     == wpc' = [wpc EXCEPT ![n] = l]
ThenCalled(n, l) == \E m \in {l} \cup (IF "maas" \in Faults THEN {"broken"} ELSE {}) : Then(n, m)

\* Machines.POST again: the system found now, whichever the job was registered for.
WorkerFinds(n) ==
    /\ At(n, "lookup")
    /\ \E s \in Request : Exists(s) /\ work' = [work EXCEPT ![n].sys = s]
    /\ Then(n, "guard")
    /\ UNCHANGED machineVars

WorkerFindsNone(n) ==
    /\ At(n, "lookup")
    /\ \A s \in Request : ~Exists(s)
    /\ Then(n, "create")
    /\ UNCHANGED <<machineVars, work>>

WorkerCreates(n) ==
    /\ At(n, "create")
    /\ \/ /\ \E s \in Request : Register(s) /\ work' = [work EXCEPT ![n].sys = s]
          /\ Then(n, "guard") \/ ("maas" \in Faults /\ Then(n, "failed"))
       \/ /\ (\E s \in Request : Exists(s)) /\ Then(n, "failed")
          /\ UNCHANGED <<machineVars, work>>

\* Mutant of CommissionGuard: a new machine counts as commissioned.
CommissionGuard_new(n) ==
    LET st == status[work[n].sys] IN
    /\ At(n, "guard")
    /\ Then(n, IF st \in {"New", "Commissioning", "Ready", "Testing"} THEN "poll"
               ELSE IF Exists(work[n].sys) THEN "commission" ELSE "broken")
    /\ UNCHANGED <<machineVars, work>>

\* MachineCommission.POST: the status is checked first ...
CommissionGuard(n) ==
    LET st == status[work[n].sys] IN
    /\ At(n, "guard")
    /\ Then(n, IF st \in {"Commissioning", "Ready", "Testing"} THEN "poll"
               ELSE IF Exists(work[n].sys) THEN "commission" ELSE "broken")
    /\ UNCHANGED <<machineVars, work>>

\* ... and op-commission issued, which MAAS refuses while it commissions or tests.
Commission(n) ==
    LET s == work[n].sys IN
    /\ At(n, "commission")
    /\ \/ /\ Exists(s) /\ ~InProgress(s)
          /\ status' = [status EXCEPT ![s] = "Commissioning"]
          /\ ThenCalled(n, "poll")
       \/ ~(Exists(s) /\ ~InProgress(s)) /\ Then(n, "broken") /\ UNCHANGED status
    /\ UNCHANGED <<links, named, nets, work>>

\* pollingMachineStatus: goes on at Ready, gives up at Failed commissioning or
\* when the machine cannot be read, and sleeps in every other status.
Poll(n) ==
    LET s == work[n].sys IN
    /\ At(n, "poll")
    /\ \/ status[s] = "Ready" /\ Then(n, "subnets")
       \/ (status[s] = "Failed commissioning" \/ ~Exists(s)) /\ Then(n, "broken")
    /\ UNCHANGED <<machineVars, work>>

\* getSubnetList: the subnets that MAAS has at this moment.
GetSubnets(n) ==
    /\ At(n, "subnets")
    /\ work' = [work EXCEPT ![n].known = nets]
    /\ Then(n, "access")
    /\ UNCHANGED machineVars

\* Mutant of GetAccessInfo: the links of the boot interface are not read.
GetAccessInfo_linkless(n) ==
    /\ At(n, "access")
    /\ Then(n, IF Exists(work[n].sys) THEN "interfaces" ELSE "broken")
    /\ UNCHANGED <<machineVars, work>>

\* getMachineAccessInfo: the links that the boot interface has at this moment, with
\* which the worker's map from interfaces to subnets begins.
GetAccessInfo(n) ==
    LET s == work[n].sys IN
    /\ At(n, "access")
    /\ \/ /\ Exists(s) /\ Then(n, "interfaces")
          /\ work' = [work EXCEPT ![n].boot = links[s][Boot]]
       \/ ~Exists(s) /\ Then(n, "broken") /\ UNCHANGED work
    /\ UNCHANGED machineVars

\* The loop over the network information: a subnet that is not in the worker's list is
\* created, with its fabric and its ranges; MAAS refuses one that it has by now.
Missing(n) == UNION {Asked[i] : i \in Iface} \ work[n].known

CreateSubnet(n) ==
    /\ At(n, "interfaces")
    /\ \E x \in Missing(n) :
         \/ /\ x \notin nets /\ nets' = nets \cup {x}
            /\ work' = [work EXCEPT ![n].known = @ \cup {x}]
            /\ ThenCalled(n, "interfaces")
         \/ x \in nets /\ Then(n, "broken") /\ UNCHANGED <<nets, work>>
    /\ UNCHANGED <<status, links, named>>

\* Mutant of GetInterfaces: interfaces that have their name are taken for done.
GetInterfaces_unnamed(n) ==
    LET s == work[n].sys IN
    /\ At(n, "interfaces") /\ Missing(n) = {}
    /\ \/ /\ Exists(s) /\ Then(n, "loop")
          /\ work' = [work EXCEPT ![n].known = {}, ![n].left = Iface \ named[s],
                                  ![n].links = links[s], ![n].named = named[s]]
       \/ ~Exists(s) /\ Then(n, "broken") /\ UNCHANGED work
    /\ UNCHANGED machineVars

\* getInterfaceList, once every subnet is known: the snapshot that linkSubnetInterface
\* works from.
GetInterfaces(n) ==
    LET s == work[n].sys IN
    /\ At(n, "interfaces") /\ Missing(n) = {}
    /\ \/ /\ Exists(s) /\ Then(n, "loop")
          /\ work' = [work EXCEPT ![n].known = {}, ![n].left = Iface,
                                  ![n].links = links[s], ![n].named = named[s]]
       \/ ~Exists(s) /\ Then(n, "broken") /\ UNCHANGED work
    /\ UNCHANGED machineVars

\* The subnets that worker n is to link interface i to: those of the request and, for
\* the boot interface, those it was linked to when this worker asked.
Target(n, i) == Asked[i] \cup (IF i = Boot THEN work[n].boot ELSE {})

\* Mutant of NextInterface: an interface with some link is left as it is.
NextInterface_linked(n) ==
    /\ At(n, "loop")
    /\ \/ work[n].left = {} /\ Then(n, "done") /\ UNCHANGED work
       \/ \E i \in work[n].left :
            /\ work' = [work EXCEPT ![n].left = @ \ {i}, ![n].at = i, ![n].add = Target(n, i)]
            /\ Then(n, IF work[n].links[i] = {} THEN "disconnect"
                       ELSE IF i \in work[n].named THEN "loop" ELSE "rename")
    /\ UNCHANGED machineVars

\* linkSubnetInterface: the next interface of the snapshot; without one it is done.
\* An interface whose links match in the snapshot is not touched.
NextInterface(n) ==
    /\ At(n, "loop")
    /\ \/ work[n].left = {} /\ Then(n, "done") /\ UNCHANGED work
       \/ \E i \in work[n].left :
            /\ work' = [work EXCEPT ![n].left = @ \ {i}, ![n].at = i, ![n].add = Target(n, i)]
            /\ Then(n, IF work[n].links[i] # Target(n, i) THEN "disconnect"
                       ELSE IF i \in work[n].named THEN "loop" ELSE "rename")
    /\ UNCHANGED machineVars

\* One change of interface work[n].at, refused by MAAS while it commissions.
Change(n, l, A) ==
    LET s == work[n].sys IN
    /\ At(n, l)
    /\ \/ Exists(s) /\ ~InProgress(s) /\ A
       \/ /\ ~(Exists(s) /\ ~InProgress(s)) /\ Then(n, "broken")
          /\ UNCHANGED <<links, named, work>>
    /\ UNCHANGED <<status, nets>>

AfterLinks(n) == IF work[n].at \in work[n].named THEN "loop" ELSE "rename"

Disconnect(n) == Change(n, "disconnect",
    /\ links' = [links EXCEPT ![work[n].sys][work[n].at] = {}]
    /\ ThenCalled(n, IF work[n].add = {} THEN AfterLinks(n) ELSE "link")
    /\ UNCHANGED <<named, work>>)

Link(n) == Change(n, "link", \E x \in work[n].add :
    /\ links' = [links EXCEPT ![work[n].sys][work[n].at] = @ \cup {x}]
    /\ work' = [work EXCEPT ![n].add = @ \ {x}]
    /\ ThenCalled(n, IF work[n].add = {x} THEN AfterLinks(n) ELSE "link")
    /\ UNCHANGED named)

Rename(n) == Change(n, "rename",
    /\ named' = [named EXCEPT ![work[n].sys] = @ \cup {work[n].at}]
    /\ ThenCalled(n, "loop")
    /\ UNCHANGED <<links, work>>)

WorkerCallFails(n) ==
    /\ "maas" \in Faults
    /\ \/ \E l \in {"lookup", "create"} : At(n, l) /\ Then(n, "failed")
       \/ \E l \in {"guard", "commission", "poll", "subnets", "access", "interfaces",
                   "disconnect", "link", "rename"} :
            At(n, l) /\ Then(n, "broken")
    /\ UNCHANGED <<machineVars, work>>

\* Mutant of MarkBroken: the machine is marked with a status MAAS does not know.
MarkBroken_failed(n) ==
    LET s == work[n].sys IN
    /\ At(n, "broken")
    /\ Then(n, "done")
    /\ status' = [status EXCEPT ![s] = IF Exists(s) THEN "Failed" ELSE @]
    /\ UNCHANGED <<links, named, nets, work>>

\* markBroken, whose own error nobody looks at; the worker then ends normally.
MarkBroken(n) ==
    LET s == work[n].sys IN
    /\ At(n, "broken")
    /\ Then(n, "done")
    /\ \/ Exists(s) /\ status' = [status EXCEPT ![s] = "Broken"]
       \/ /\ ~Exists(s) \/ "markBroken" \in Faults
          /\ UNCHANGED status
    /\ UNCHANGED <<links, named, nets, work>>

Worker(n) ==
    \/ WorkerFinds(n) \/ WorkerFindsNone(n) \/ WorkerCreates(n)
    \/ CommissionGuard(n) \/ Commission(n) \/ Poll(n)
    \/ GetSubnets(n) \/ GetAccessInfo(n) \/ CreateSubnet(n) \/ GetInterfaces(n)
    \/ NextInterface(n) \/ Disconnect(n) \/ Link(n) \/ Rename(n)
    \/ WorkerCallFails(n) \/ MarkBroken(n)

-----------------------------------------------------------------------------
\* MAAS commissions and tests the machine; a success leaves its own links.
MaasWorks(s) ==
    /\ \/ /\ status[s] = "Commissioning"
          /\ status' = [status EXCEPT ![s] = "Testing"]
          /\ links' = [links EXCEPT ![s] = AutoLinks]
          /\ named' = [named EXCEPT ![s] = Unasked]
       \/ /\ status[s] = "Commissioning"
          /\ status' = [status EXCEPT ![s] = "Failed commissioning"]
          /\ UNCHANGED <<links, named>>
       \/ /\ status[s] = "Testing"
          /\ \E st \in {"Ready", "Failed testing"} : status' = [status EXCEPT ![s] = st]
          /\ UNCHANGED <<links, named>>
    /\ UNCHANGED <<nets, vars, handlerVars, workerVars>>

Step ==
    \/ \E c \in Call :
         \/ RegisterFinds(c) \/ RegisterFindsNone(c) \/ RegisterCreates(c) \/ RegisterRefused(c)
         \/ CancelBegins(c) \/ CancelAborts(c) \/ CancelReplies(c) \/ Abort(c)
         \/ ShowReads(c) \/ ShowReplies(c) \/ MachineDelete(c) \/ Handler(c)
    \/ \E n \in Name : JobController(n) \/ WorkerExits(n) \/ Killed(n) \/ Worker(n)
    \/ \E s \in Request : MaasWorks(s)
    \/ Clock

Remember ==
    could' = [c \in Call |-> IF hpc'[c] = "show" THEN could[c] \cup {ReadyStatus(seen[c].sys)'} ELSE {}]

MNext == Step /\ Remember

\* A handler goes on with its next call, Kubernetes and MAAS do their work, and so does a worker; it
\* has no obligation to leave a poll whose status never comes.
Continues(c) == \/ RegisterCreates(c) \/ RegisterRefused(c)
                \/ CancelAborts(c) \/ CancelReplies(c) \/ Abort(c) \/ ShowReplies(c)
MFairness ==
    /\ \A c \in Call : /\ WF_allVars(Continues(c) /\ Remember)
                      /\ WF_allVars(Handler(c) /\ Remember)
    /\ \A n \in Name : /\ WF_allVars(JobController(n) /\ Remember)
                      /\ WF_allVars(WorkerExits(n) /\ Remember)
                      /\ WF_allVars(Worker(n) /\ Remember)
    /\ \A s \in Request : WF_allVars(MaasWorks(s) /\ Remember)

MSpec     == MInit /\ [][MNext]_allVars
MFairSpec == MSpec /\ MFairness
-----------------------------------------------------------------------------
WorkerPC == {"off", "lookup", "create", "guard", "commission", "poll", "subnets", "access",
             "interfaces", "loop", "disconnect", "link", "rename", "broken", "done", "failed"}
Linking == {"subnets", "access", "interfaces", "loop", "disconnect", "link", "rename", "broken"}
ReadyStatuses == {"Ready", "Processing", "Failed"}
Links == [Iface -> SUBSET Subnet]

\* Type invariant of the composition.
MTypeOK ==
    /\ TypeOK
    /\ status \in [Request -> Status]
    /\ links \in [Request -> Links]
    /\ named \in [Request -> SUBSET Iface]
    /\ nets \in SUBSET Subnet
    /\ hpc \in [Call -> {"idle", "create", "cancel", "abort", "show"}]
    /\ had \in [Call -> BOOLEAN]
    /\ seen \in [Call -> [sys : Request, status : Status]]
    /\ could \in [Call -> SUBSET ReadyStatuses]
    /\ target \in [Call -> SUBSET Name]
    /\ stopped \in SUBSET Name
    /\ wpc \in [Name -> WorkerPC]
    /\ work \in [Name -> [sys : Request, known : SUBSET Subnet, boot : SUBSET Subnet,
                         left : SUBSET Iface, at : Iface, add : SUBSET Subnet, links : Links, named : SUBSET Iface]]

\* The ready_status that MachineShow would reply now is one its documented flow
\* ("Ready: check in-progress jobs") gives for some moment of the call, although
\* status and jobs are read one after the other.
ShowIsAtomic ==
    \A c \in Call : hpc[c] = "show" =>
        ReadyFlow(seen[c].status, HasJob(seen[c].sys)) \in could[c]

\* "Cancel terminates active jobs for the given systemID" (job_manager.go): once
\* a Cancel is accepted, no job that was active when it began calls MAAS any more.
CancelIsFinal ==
    [][\A n \in stopped : \/ wpc'[n] = "off" \/ n \notin stopped'
                          \/ wpc'[n] = wpc[n] /\ work'[n] = work[n]]_allVars

\* "Ready: check in-progress jobs" (getReadyStatus): a machine that MAAS shows as
\* Ready is Processing as long as a worker is at it, whichever system the worker's
\* job is labelled with.
WorkMeansProcessing ==
    \A n \in Name : wpc[n] \in Linking /\ status[work[n].sys] = "Ready"
                      => ReadyStatus(work[n].sys) = "Processing"

\* A host that was registered and is never cancelled does not stay Processing for
\* ever: it becomes Ready or Failed, however two registrations of it race.
Settles ==
    \A s \in Request :
        [](\A c \in Call : ~(hpc[c] = "cancel" /\ arg[c] = s))
        => (Exists(s) ~> ReadyStatus(s) \in {"Ready", "Failed"})

\* The composed system is an implementation of the job store on its own.
ImplementsStore == Init /\ [][Next]_vars
=============================================================================
