----------------------- MODULE MachineRegister_proofs -----------------------
(***************************************************************************)
(* The registration flow composed with the job store behaves, towards the  *)
(* store, as the store on its own: what JobStore_proofs establishes of the *)
(* store therefore holds in the composition.  Then the type invariant of   *)
(* the composition, and that a machine which is being linked is shown as   *)
(* Processing.                                                             *)
(***************************************************************************)
EXTENDS MachineRegister, JobStore_proofs

\* A step of the store within the composition is the step itself.
LEMMA StoreStepIs == ASSUME NEW ACTION A, StoreStep(A) PROVE A
  BY DEF StoreStep

\* Handlers use the store only through its operations or leave it alone.
LEMMA HandlersUseStore ==
    ASSUME NEW c \in Call,
           \/ RegisterFinds(c) \/ RegisterFindsNone(c) \/ RegisterCreates(c) \/ RegisterRefused(c)
           \/ CancelBegins(c) \/ CancelAborts(c) \/ CancelReplies(c) \/ Abort(c)
           \/ ShowReads(c) \/ ShowReplies(c) \/ MachineDelete(c) \/ Handler(c)
    PROVE  [Next]_vars
<1>1. CASE RegisterFinds(c)
  BY <1>1 DEF RegisterFinds, Next, Begin
<1>2. CASE RegisterCreates(c)
  BY <1>2 DEF RegisterCreates, Next, Begin
<1>3. CASE CancelBegins(c)
  BY <1>3 DEF CancelBegins, Next, Begin
<1>4. CASE Handler(c)
  <2>1. Continue(c)
    BY <1>4, StoreStepIs DEF Handler, Continue
  <2> QED BY <2>1 DEF Next
<1>5. CASE RegisterFindsNone(c) \/ RegisterRefused(c) \/ CancelAborts(c)
           \/ ShowReads(c) \/ ShowReplies(c) \/ MachineDelete(c)
  BY <1>5 DEF RegisterFindsNone, RegisterRefused, CancelAborts, ShowReads, ShowReplies, MachineDelete
<1>6. CASE CancelReplies(c) \/ Abort(c)
  BY <1>6 DEF CancelReplies, Abort, CancelEnds
<1> QED BY <1>1, <1>2, <1>3, <1>4, <1>5, <1>6

\* So do jobs and workers: a worker's end is the exit of its pod, and its calls to
\* MAAS leave the store alone.
LEMMA JobsUseStore ==
    ASSUME NEW n \in Name, JobController(n) \/ WorkerExits(n) \/ Killed(n) \/ Worker(n)
    PROVE  [Next]_vars
<1>1. CASE JobController(n)
  <2>1. Control(n)
    BY <1>1, StoreStepIs DEF JobController, Control
  <2> QED BY <2>1 DEF Next
<1>2. CASE WorkerExits(n)
  BY <1>2 DEF WorkerExits, Next
<1>3. CASE Killed(n)
  BY <1>3 DEF Killed
<1>4. CASE Worker(n)
  <2>1. UNCHANGED vars
    <3>1. \A l : At(n, l) => UNCHANGED vars
      BY DEF At
    <3> QED BY <1>4, <3>1 DEF Worker, WorkerFinds, WorkerFindsNone, WorkerCreates, CommissionGuard,
              Commission, Poll, GetSubnets, GetAccessInfo,
              CreateSubnet, GetInterfaces, NextInterface, Change, Disconnect, Link, Rename,
              WorkerCallFails, MarkBroken
  <2> QED BY <2>1
<1> QED BY <1>1, <1>2, <1>3, <1>4

\* The composition implements the job store.
THEOREM StoreImplemented == MSpec => ImplementsStore
<1>1. MInit => Init
  BY DEF MInit
<1>2. [MNext]_allVars => [Next]_vars
  <2> SUFFICES ASSUME [MNext]_allVars PROVE [Next]_vars
    OBVIOUS
  <2>1. CASE UNCHANGED allVars
    BY <2>1 DEF allVars
  <2>2. CASE Clock
    <3>1. Tick
      BY <2>2, StoreStepIs DEF Clock
    <3> QED BY <3>1 DEF Next
  <2>3. CASE \E s \in Request : MaasWorks(s)
    BY <2>3 DEF MaasWorks
  <2> QED BY <2>1, <2>2, <2>3, HandlersUseStore, JobsUseStore DEF MNext, Step
<1> QED BY <1>1, <1>2, PTL DEF MSpec, ImplementsStore

\* Hence the store's guarantees survive the composition: a registration that gets to
\* Create has nothing standing in its way (NothingStandsAtCreate), and a Cancel that
\* deletes jobs still covers all that were active throughout (CancelCoversStanding).
THEOREM ComposedStoreSafe ==
    MSpec => [](NothingStandsAtCreate /\ CancelCoversStanding)
<1>1. MSpec => Spec
  BY StoreImplemented DEF ImplementsStore, Spec
<1> QED BY <1>1, CreateSafe, CancelCovers, PTL

\* As long as the API calls succeed, what the store promises of a call that returns
\* holds for the calls of MachineRegister and Cancel: a Cancel leaves none of the jobs
\* it was to stop active, and a registration leaves a job of its system behind.
THEOREM ComposedStoreReaches ==
    ASSUME ~ApiMayFail PROVE MSpec => CancelTerminates /\ RegisterLeavesJob
<1>1. MSpec => Spec
  BY StoreImplemented DEF ImplementsStore, Spec
<1> QED BY <1>1, CancelReaches, RegisterLeaves, PTL

-----------------------------------------------------------------------------
(* Type correctness *)

\* MTypeOK without the part that is JobStore's.
MachineTypes ==
    /\ status \in [Request -> Status]
    /\ links \in [Request -> Links]
    /\ named \in [Request -> SUBSET Iface]
    /\ nets \in SUBSET Subnet
HandlerTypes ==
    /\ hpc \in [Call -> {"idle", "create", "cancel", "abort", "show"}]
    /\ had \in [Call -> BOOLEAN]
    /\ seen \in [Call -> [sys : Request, status : Status]]
    /\ target \in [Call -> SUBSET Name]
    /\ stopped \in SUBSET Name
WorkRecord == [sys : Request, known : SUBSET Subnet, boot : SUBSET Subnet,
               left : SUBSET Iface, at : Iface, add : SUBSET Subnet, links : Links, named : SUBSET Iface]
WorkerTypes ==
    /\ wpc \in [Name -> WorkerPC]
    /\ work \in [Name -> WorkRecord]
CouldTypes == could \in [Call -> SUBSET ReadyStatuses]
Types == MachineTypes /\ HandlerTypes /\ WorkerTypes

LEMMA NoWorkType == \A s \in Request : NoWork(s) \in WorkRecord
BY MachineAssumption DEF NoWork, WorkRecord, Links

LEMMA RegisterType ==
    ASSUME MachineTypes, NEW s \in Request, Register(s)
    PROVE  MachineTypes'
BY DEF MachineTypes, Register, Status

\* One interface of one system gets other links.
LEMMA LinksType ==
    ASSUME links \in [Request -> Links], NEW s \in Request, NEW i \in Iface
    PROVE  /\ [links EXCEPT ![s][i] = {}] \in [Request -> Links]
           /\ \A x \in Subnet : [links EXCEPT ![s][i] = @ \cup {x}] \in [Request -> Links]
<1>1. links[s] \in [Iface -> SUBSET Subnet]
  BY DEF Links
<1>2. /\ [links[s] EXCEPT ![i] = {}] \in Links
      /\ \A x \in Subnet : [links[s] EXCEPT ![i] = @ \cup {x}] \in Links
  BY <1>1 DEF Links
<1> QED BY <1>2

\* Handlers of MachineRegister, Cancel, MachineShow and MachineDelete.
LEMMA HandlerStepTypes ==
    ASSUME TypeOK, Types, NEW c \in Call,
           \/ RegisterFinds(c) \/ RegisterFindsNone(c) \/ RegisterCreates(c) \/ RegisterRefused(c)
           \/ CancelBegins(c) \/ CancelAborts(c) \/ CancelReplies(c) \/ Abort(c)
           \/ ShowReads(c) \/ ShowReplies(c) \/ MachineDelete(c)
    PROVE  Types'
<1> USE DEF Types
<1>1. CASE RegisterFinds(c)
  BY <1>1 DEF RegisterFinds, machineVars, handlerVars, workerVars, MachineTypes, HandlerTypes, WorkerTypes
<1>2. CASE RegisterFindsNone(c) \/ CancelAborts(c)
  BY <1>2 DEF RegisterFindsNone, CancelAborts, HGoto, machineVars, workerVars,
       MachineTypes, HandlerTypes, WorkerTypes
<1>3. CASE RegisterCreates(c) \/ RegisterRefused(c)
  <2>1. MachineTypes'
    BY <1>3, RegisterType DEF RegisterCreates, RegisterRefused, machineVars, MachineTypes
  <2> QED BY <1>3, <2>1 DEF RegisterCreates, RegisterRefused, HGoto, workerVars, HandlerTypes, WorkerTypes
<1>4. CASE CancelBegins(c)
  BY <1>4 DEF CancelBegins, HGoto, ActiveJobs, machineVars, workerVars, MachineTypes, HandlerTypes, WorkerTypes
<1>5. CASE CancelReplies(c)
  BY <1>5 DEF CancelReplies, CancelEnds, Accept, HGoto, machineVars, workerVars,
       MachineTypes, HandlerTypes, WorkerTypes
<1>6. CASE Abort(c)
  BY <1>6 DEF Abort, CancelEnds, Accept, HGoto, workerVars, MachineTypes, HandlerTypes, WorkerTypes, Status
<1>7. CASE ShowReads(c) \/ ShowReplies(c)
  <2>1. seen' \in [Call -> [sys : Request, status : Status]]
    <3>1. CASE ShowReads(c)
      BY <3>1 DEF ShowReads, HandlerTypes, MachineTypes
    <3>2. CASE ShowReplies(c)
      <4>1. seen' = [seen EXCEPT ![c] = [seen[c] EXCEPT !.status = "unborn"]]
        BY <3>2 DEF ShowReplies, HandlerTypes
      <4>2. [seen[c] EXCEPT !.status = "unborn"] \in [sys : Request, status : Status]
        BY DEF HandlerTypes, Status
      <4> QED BY <4>1, <4>2 DEF HandlerTypes
    <3> QED BY <1>7, <3>1, <3>2
  <2> QED BY <1>7, <2>1 DEF ShowReads, ShowReplies, HGoto, machineVars, workerVars,
             MachineTypes, HandlerTypes, WorkerTypes
<1>8. CASE MachineDelete(c)
  BY <1>8 DEF MachineDelete, handlerVars, workerVars, MachineTypes, HandlerTypes, WorkerTypes, Status
<1> QED BY <1>1, <1>2, <1>3, <1>4, <1>5, <1>6, <1>7, <1>8

\* Steps of the store and of the jobs.
LEMMA StoreStepTypes ==
    ASSUME Types, NEW ACTION A, StoreStep(A), UNCHANGED had \/ \E c \in Call : \E b \in BOOLEAN :
             had' = [had EXCEPT ![c] = b]
    PROVE  Types'
<1>1. WorkerTypes'
  <2>1. wpc' \in [Name -> WorkerPC]
    BY DEF StoreStep, Types, WorkerTypes, WorkerPC
  <2>2. work' \in [Name -> WorkRecord]
    BY NoWorkType DEF StoreStep, Types, WorkerTypes, Name
  <2> QED BY <2>1, <2>2 DEF WorkerTypes
<1>2. MachineTypes' /\ HandlerTypes'
  BY DEF StoreStep, Types, MachineTypes, HandlerTypes, machineVars
<1> QED BY <1>1, <1>2 DEF Types

LEMMA JobStepTypes ==
    ASSUME Types, NEW n \in Name, JobController(n) \/ WorkerExits(n) \/ Killed(n)
    PROVE  Types'
<1>1. CASE JobController(n)
  BY <1>1, StoreStepTypes DEF JobController
<1>2. CASE WorkerExits(n) \/ Killed(n)
  <2>1. NoWork(n[1]) \in WorkRecord
    BY NoWorkType DEF Name
  <2> QED BY <1>2, <2>1 DEF WorkerExits, Killed, machineVars, handlerVars,
             Types, MachineTypes, HandlerTypes, WorkerTypes, WorkerPC
<1> QED BY <1>1, <1>2

\* The worker's calls.
LEMMA WorkerStepTypes ==
    ASSUME Types, NEW n \in Name, Worker(n)
    PROVE  Types'
<1> USE DEF Types
<1>1. HandlerTypes'
  <2>1. \A l : At(n, l) => UNCHANGED handlerVars
    BY DEF At
  <2>2. UNCHANGED handlerVars
    BY <2>1 DEF Worker, WorkerFinds, WorkerFindsNone, WorkerCreates, CommissionGuard,
       Commission, Poll, GetSubnets, GetAccessInfo,
       CreateSubnet, GetInterfaces, NextInterface, Change, Disconnect, Link, Rename,
       WorkerCallFails, MarkBroken
  <2> QED BY <2>2 DEF handlerVars, HandlerTypes
<1>2. wpc' \in [Name -> WorkerPC]
  <2>1. \A l \in WorkerPC : Then(n, l) \/ ThenCalled(n, l) => wpc' \in [Name -> WorkerPC]
    BY DEF Then, ThenCalled, WorkerTypes, WorkerPC
  <2>2. AfterLinks(n) \in WorkerPC
    BY DEF AfterLinks, WorkerPC
  <2> QED BY <2>1, <2>2 DEF Worker, WorkerFinds, WorkerFindsNone, WorkerCreates, CommissionGuard,
       Commission, Poll, GetSubnets, GetAccessInfo,
       CreateSubnet, GetInterfaces, NextInterface, Change, Disconnect, Link, Rename,
       WorkerCallFails, MarkBroken, WorkerPC
<1>3. work[n] \in WorkRecord
  BY DEF WorkerTypes
<1>4. ASSUME NEW w \in WorkRecord, work' = [work EXCEPT ![n] = w] PROVE WorkerTypes'
  BY <1>2, <1>4 DEF WorkerTypes
<1>5. UNCHANGED work => WorkerTypes'
  BY <1>2 DEF WorkerTypes
<1>6. CASE WorkerFinds(n)
  BY <1>1, <1>2, <1>6 DEF WorkerFinds, machineVars, MachineTypes, WorkerTypes, WorkRecord
<1>7. CASE WorkerCreates(n)
  <2>1. MachineTypes'
    BY <1>7, RegisterType DEF WorkerCreates, machineVars, MachineTypes
  <2>2. WorkerTypes'
    BY <1>2, <1>7 DEF WorkerCreates, WorkerTypes, WorkRecord
  <2> QED BY <1>1, <2>1, <2>2
<1>8. CASE WorkerFindsNone(n) \/ CommissionGuard(n) \/ Poll(n) \/ WorkerCallFails(n)
  BY <1>1, <1>5, <1>8 DEF WorkerFindsNone, CommissionGuard, Poll, WorkerCallFails,
       machineVars, MachineTypes
<1>9. CASE Commission(n) \/ MarkBroken(n)
  BY <1>1, <1>5, <1>9 DEF Commission, MarkBroken, MachineTypes, Status
<1>10. CASE GetInterfaces(n)
  <2> DEFINE s == work[n].sys
             w == [work[n] EXCEPT !.known = {}, !.left = Iface, !.links = links[s],
                                  !.named = named[s]]
  <2>1. w \in WorkRecord
    BY <1>3 DEF MachineTypes, WorkRecord
  <2>2. UNCHANGED work \/ work' = [work EXCEPT ![n] = w]
    BY <1>10 DEF GetSubnets, GetAccessInfo, CreateSubnet, GetInterfaces
  <2> QED BY <1>1, <1>4, <1>5, <1>10, <2>1, <2>2 DEF GetSubnets, GetAccessInfo,
     CreateSubnet, GetInterfaces, machineVars, MachineTypes
<1>11. CASE NextInterface(n)
  <2> DEFINE w(i) == [work[n] EXCEPT !.left = @ \ {i}, !.at = i, !.add = Target(n, i)]
  <2>1. \A i \in work[n].left : w(i) \in WorkRecord
    <3>1. \A i \in Iface : Target(n, i) \subseteq Subnet
      BY <1>3, MachineAssumption DEF WorkRecord, Target
    <3> QED BY <1>3, <3>1 DEF WorkRecord
  <2>2. UNCHANGED work \/ \E i \in work[n].left : work' = [work EXCEPT ![n] = w(i)]
    BY <1>11 DEF NextInterface
  <2> QED BY <1>1, <1>4, <1>5, <1>11, <2>1, <2>2 DEF NextInterface, machineVars, MachineTypes
<1>12. CASE Disconnect(n)
  <2>1. work[n].sys \in Request /\ work[n].at \in Iface
    BY <1>3 DEF WorkRecord
  <2>2. [links EXCEPT ![work[n].sys][work[n].at] = {}] \in [Request -> Links]
    BY <2>1, LinksType DEF MachineTypes
  <2>3. links' \in [Request -> Links] /\ UNCHANGED <<status, named, nets, work>>
    BY <1>12, <2>2 DEF Disconnect, Change, MachineTypes
  <2> QED BY <1>1, <1>5, <2>3 DEF MachineTypes
<1>13. CASE Link(n)
  <2>1. work[n].sys \in Request /\ work[n].at \in Iface /\ work[n].add \subseteq Subnet
    BY <1>3 DEF WorkRecord
  <2> DEFINE w(x) == [work[n] EXCEPT !.add = @ \ {x}]
  <2>2. \A x : w(x) \in WorkRecord
    BY <1>3 DEF WorkRecord
  <2>3. UNCHANGED work \/ \E x : work' = [work EXCEPT ![n] = w(x)]
    BY <1>13 DEF Link, Change
  <2>4. \A x \in Subnet : [links EXCEPT ![work[n].sys][work[n].at] = @ \cup {x}] \in [Request -> Links]
    BY <2>1, LinksType DEF MachineTypes
  <2>5. links' \in [Request -> Links] /\ UNCHANGED <<status, named, nets>>
    <3>1. ASSUME NEW x \in work[n].add,
                 links' = [links EXCEPT ![work[n].sys][work[n].at] = @ \cup {x}]
          PROVE  links' \in [Request -> Links]
      BY <2>1, <2>4, <3>1
    <3>2. \/ UNCHANGED links
          \/ \E x \in work[n].add :
               links' = [links EXCEPT ![work[n].sys][work[n].at] = @ \cup {x}]
      BY <1>13 DEF Link, Change
    <3>3. links' \in [Request -> Links]
      BY <3>1, <3>2 DEF MachineTypes
    <3> QED BY <1>13, <3>3 DEF Link, Change
  <2> QED BY <1>1, <1>4, <1>5, <2>2, <2>3, <2>5 DEF MachineTypes
<1>14. CASE Rename(n)
  BY <1>1, <1>2, <1>14 DEF Rename, Change, MachineTypes, WorkerTypes, WorkRecord
<1>15. CASE GetSubnets(n)
  <2>1. [work[n] EXCEPT !.known = nets] \in WorkRecord
    BY <1>3 DEF MachineTypes, WorkRecord
  <2> QED BY <1>1, <1>4, <1>15, <2>1 DEF GetSubnets, machineVars, MachineTypes
<1>16. CASE GetAccessInfo(n)
  <2>1. [work[n] EXCEPT !.boot = links[work[n].sys][Boot]] \in WorkRecord
    <3>1. work[n].sys \in Request
      BY <1>3 DEF WorkRecord
    <3>2. links[work[n].sys] \in [Iface -> SUBSET Subnet]
      BY <3>1 DEF MachineTypes, Links
    <3>3. links[work[n].sys][Boot] \in SUBSET Subnet
      BY <3>2, MachineAssumption
    <3> QED BY <1>3, <3>3 DEF WorkRecord
  <2>2. UNCHANGED work \/ work' = [work EXCEPT ![n] = [work[n] EXCEPT !.boot = links[work[n].sys][Boot]]]
    BY <1>16 DEF GetAccessInfo
  <2> QED BY <1>1, <1>4, <1>5, <1>16, <2>1, <2>2 DEF GetAccessInfo, machineVars, MachineTypes
<1>17. CASE CreateSubnet(n)
  <2>1. Missing(n) \subseteq Subnet
    BY MachineAssumption DEF Missing
  <2> DEFINE w(x) == [work[n] EXCEPT !.known = @ \cup {x}]
  <2>2. \A x \in Missing(n) : w(x) \in WorkRecord
    BY <1>3, <2>1 DEF WorkRecord
  <2>3. \/ UNCHANGED <<nets, work>>
        \/ \E x \in Missing(n) : nets' = nets \cup {x} /\ work' = [work EXCEPT ![n] = w(x)]
    BY <1>17 DEF CreateSubnet
  <2>4. MachineTypes'
    BY <1>17, <2>1, <2>3 DEF CreateSubnet, MachineTypes
  <2>5. WorkerTypes'
    BY <1>4, <1>5, <2>2, <2>3
  <2> QED BY <1>1, <2>4, <2>5
<1> QED
  BY <1>6, <1>7, <1>8, <1>9, <1>10, <1>11, <1>12, <1>13, <1>14, <1>15, <1>16, <1>17 DEF Worker

LEMMA TypesStep == TypeOK /\ Types /\ [MNext]_allVars => Types'
<1> SUFFICES ASSUME TypeOK, Types, [MNext]_allVars PROVE Types'
  OBVIOUS
<1>1. ASSUME NEW c \in Call, Handler(c) PROVE Types'
  <2>1. \E b \in BOOLEAN : had' = [had EXCEPT ![c] = b]
    BY <1>1 DEF Handler, Types, HandlerTypes
  <2> QED BY <1>1, <2>1, StoreStepTypes DEF Handler
<1>2. CASE Clock
  BY <1>2, StoreStepTypes DEF Clock
<1>3. ASSUME NEW s \in Request, MaasWorks(s) PROVE Types'
  <2>1. AutoLinks \in Links /\ Unasked \in SUBSET Iface
    BY MachineAssumption DEF Links, Unasked
  <2>2. MachineTypes'
    BY <1>3, <2>1 DEF MaasWorks, Types, MachineTypes, Status
  <2> QED BY <1>3, <2>2 DEF MaasWorks, handlerVars, workerVars, Types, HandlerTypes, WorkerTypes
<1>4. CASE UNCHANGED allVars
  BY <1>4 DEF allVars, machineVars, handlerVars, workerVars, Types, MachineTypes, HandlerTypes, WorkerTypes
<1> QED
  BY <1>1, <1>2, <1>3, <1>4, HandlerStepTypes, JobStepTypes, WorkerStepTypes DEF MNext, Step

LEMMA CouldStep == CouldTypes /\ [MNext]_allVars => CouldTypes'
<1>1. \A st, b : ReadyFlow(st, b) \in ReadyStatuses
  BY DEF ReadyFlow, ReadyStatuses
<1> QED BY <1>1 DEF CouldTypes, MNext, Remember, ReadyStatus, allVars

\* Type correctness of the registration flow, whatever fails.
THEOREM MachineTypeCorrect == MSpec => []MTypeOK
<1>1. MSpec => []TypeOK
  BY StoreImplemented, TypeCorrect, PTL DEF ImplementsStore, Spec
<1>2. MInit => Types /\ CouldTypes
  <2> SUFFICES ASSUME MInit PROVE Types /\ CouldTypes
    OBVIOUS
  <2>1. MachineTypes
    BY MachineAssumption DEF MInit, MachineTypes, Status, Links, Unasked
  <2>2. \A c \in Call : arg[c] \in Request
    BY ConstantsAssumption DEF MInit, Init
  <2>3. HandlerTypes
    BY <2>2 DEF MInit, HandlerTypes, Status
  <2>4. WorkerTypes
    BY NoWorkType DEF MInit, WorkerTypes, WorkerPC, Name
  <2> QED BY <2>1, <2>3, <2>4 DEF MInit, Types, CouldTypes
<1>3. TypeOK /\ Types /\ CouldTypes => MTypeOK
  BY Zenon DEF Types, MachineTypes, HandlerTypes, WorkerTypes, WorkRecord, CouldTypes, MTypeOK
<1> QED BY <1>1, <1>2, <1>3, TypesStep, CouldStep, PTL DEF MSpec

-----------------------------------------------------------------------------
(* Workers and ready_status *)

\* No worker outlives its pod or acts before its job is counted active ...
Prompt == Faults \cap {"lateStatus", "killLag"} = {}

\* ... and no machine is deleted.  With any of these WorkMeansProcessing is violated: a
\* worker at a system that its job is not labelled with, or with a job that is not
\* counted active, goes unseen.
Orderly == Prompt /\ "delete" \notin Serves

\* The host has one system; what registers it, its jobs and their workers agree on it.
OneSystem ==
    /\ \A s \in Request : status[s] # "deleted"
    /\ \A s, t \in Request : Exists(s) /\ Exists(t) => s = t
JobsOfSystem ==
    /\ \A n \in Name : job[n] # "absent" => Exists(n[1])
    /\ \A c \in Call : pc[c] \in RegisterPC => Exists(arg[c])
WorkersAreCounted ==
    \A n \in Name :
        /\ wpc[n] # "off" => pod[n] = "running"
        /\ wpc[n] \notin {"off", "lookup"} => job[n] = "active"
WorkersAtHome ==
    \A n \in Name : wpc[n] \notin {"off", "lookup", "create", "failed"} => work[n].sys = n[1]
WorkInv == OneSystem /\ JobsOfSystem /\ WorkersAreCounted /\ WorkersAtHome

\* What one step of the store does to a job with a running pod, and who makes jobs.
LEMMA StoreFacts ==
    ASSUME TypeOK, PodsBelongToJobs,
           \/ \E c \in Call : Continue(c)
           \/ \E n \in Name : Control(n) \/ PodExits(n)
           \/ Tick
    PROVE  /\ \A n \in Name : pod[n] = "running" /\ pod'[n] = "running" /\ job[n] = "active"
                                 => job'[n] = "active"
           /\ \A n \in Name : job'[n] # "absent" /\ job[n] = "absent"
                                 => \E c \in Call : pc[c] = "create" /\ n[1] = arg[c]
           /\ \A c \in Call : pc'[c] \in RegisterPC => pc[c] \in RegisterPC
           /\ UNCHANGED arg
<1> USE DEF TypeOK, jobVars, Goto, RegisterPC
<1>1. ASSUME NEW c \in Call, Continue(c), ~Create(c), ~Delete(c)
      PROVE  UNCHANGED <<job, arg>> /\ \A d \in Call : pc'[d] \in RegisterPC => pc[d] \in RegisterPC
  BY <1>1 DEF Continue, ListByRequest, ListActive, CheckHasJob, ListCancel, ApiError
<1>2. ASSUME NEW c \in Call, Create(c)
      PROVE  /\ \A n \in Name : job[n] # "absent" => job'[n] = job[n]
             /\ \A n \in Name : job'[n] # job[n] => n[1] = arg[c]
             /\ pc[c] = "create" /\ UNCHANGED arg
             /\ \A d \in Call : pc'[d] \in RegisterPC => pc[d] \in RegisterPC
  BY <1>2 DEF Create
<1>3. ASSUME NEW c \in Call, Delete(c)
      PROVE  /\ \A n \in Name : job'[n] = job[n] \/ (job'[n] = "absent" /\ pod'[n] = "none")
             /\ UNCHANGED arg
             /\ \A d \in Call : pc'[d] \in RegisterPC => pc[d] \in RegisterPC
  BY <1>3 DEF Delete
<1>4. ASSUME NEW n \in Name, Control(n) \/ PodExits(n)
      PROVE  /\ UNCHANGED <<pc, arg>>
             /\ \A m \in Name \ {n} : job'[m] = job[m]
             /\ job[n] = "absent" => job'[n] = "absent"
             /\ pod[n] = "running" /\ pod'[n] = "running" /\ job[n] = "active" => job'[n] = "active"
  BY <1>4 DEF Control, PodExits, StartPod, CountActive, JobSucceeds, ReplacePod, JobFails,
       DeadlineExceeded, Expire, SetJob, Unfinished, PodsBelongToJobs
<1>5. CASE Tick
  BY <1>5 DEF Tick
<1>6. CASE \E n \in Name : Control(n) \/ PodExits(n)
  BY <1>4, <1>6
<1>7. CASE \E c \in Call : Continue(c)
  BY <1>1, <1>2, <1>3, <1>7
<1> QED BY <1>5, <1>6, <1>7

\* Under Prompt a step of the store lets a worker begin, end or stay at its call.
LEMMA StoreLeavesWorkers ==
    ASSUME Prompt, NEW ACTION A, StoreStep(A), NEW n \in Name, wpc'[n] # "off"
    PROVE  /\ pod'[n] = "running"
           /\ wpc'[n] # "lookup" =>
                  wpc'[n] = wpc[n] /\ work'[n] = work[n] /\ pod[n] = "running"
<1>1. wpc'[n] = IF pod'[n] = "running" /\ pod[n] # "running" THEN "lookup"
                ELSE IF pod'[n] = "running" THEN wpc[n] ELSE "off"
  BY DEF StoreStep, Prompt
<1>2. wpc'[n] \notin {"off", "lookup"} => work'[n] = work[n]
  BY DEF StoreStep
<1> QED BY <1>1, <1>2

LEMMA CountedStoreStep ==
    ASSUME Prompt, TypeOK, PodsBelongToJobs, WorkersAreCounted, NEW ACTION A, StoreStep(A),
           A => \/ \E c \in Call : Continue(c)
                \/ \E n \in Name : Control(n) \/ PodExits(n)
                \/ Tick
    PROVE  WorkersAreCounted'
<1>1. A BY StoreStepIs
<1> QED BY <1>1, StoreLeavesWorkers, StoreFacts DEF WorkersAreCounted

\* A call of a worker leaves the store and the other workers alone; under Prompt its
\* job is active.
LEMMA WorkerCallsAlone ==
    ASSUME Types, NEW n \in Name, Worker(n)
    PROVE  /\ UNCHANGED vars
           /\ Prompt => pod[n] = "running" /\ job[n] # "pending"
           /\ \A m \in Name \ {n} : wpc'[m] = wpc[m] /\ work'[m] = work[m]
<1>1. PICK l : At(n, l)
  BY DEF Worker, WorkerFinds, WorkerFindsNone, WorkerCreates, CommissionGuard,
     Commission, Poll, GetSubnets, GetAccessInfo,
     CreateSubnet, GetInterfaces, NextInterface, Change, Disconnect, Link, Rename,
     WorkerCallFails, MarkBroken
<1>2. UNCHANGED vars /\ (Prompt => pod[n] = "running" /\ job[n] # "pending")
  BY <1>1 DEF At, Prompt
<1>3. \A m \in Name \ {n} : wpc'[m] = wpc[m] /\ work'[m] = work[m]
  BY DEF Worker, WorkerFinds, WorkerFindsNone, WorkerCreates, CommissionGuard,
       Commission, Poll, GetSubnets, GetAccessInfo,
       CreateSubnet, GetInterfaces, NextInterface, Change, Disconnect, Link, Rename,
       WorkerCallFails, MarkBroken, Then, ThenCalled, Types, WorkerTypes
<1> QED BY <1>2, <1>3

LEMMA CountedStep ==
    Prompt /\ TypeOK /\ PodsBelongToJobs /\ Types /\ WorkersAreCounted /\ [MNext]_allVars
        => WorkersAreCounted'
<1> SUFFICES ASSUME Prompt, TypeOK, PodsBelongToJobs, Types, WorkersAreCounted, [MNext]_allVars
             PROVE  WorkersAreCounted'
  OBVIOUS
<1>1. ASSUME NEW c \in Call, Handler(c) PROVE WorkersAreCounted'
  BY <1>1, CountedStoreStep DEF Handler, Continue
<1>2. ASSUME NEW n \in Name, JobController(n) PROVE WorkersAreCounted'
  BY <1>2, CountedStoreStep DEF JobController, Control
<1>3. CASE Clock
  BY <1>3, CountedStoreStep DEF Clock
<1>4. ASSUME NEW n \in Name, WorkerExits(n) PROVE WorkersAreCounted'
  <2>1. UNCHANGED job /\ \A m \in Name \ {n} : pod'[m] = pod[m]
    BY <1>4 DEF WorkerExits, PodExits, SetJob, TypeOK
  <2>2. wpc'[n] = "off" /\ \A m \in Name \ {n} : wpc'[m] = wpc[m]
    BY <1>4 DEF WorkerExits, Types, WorkerTypes
  <2> QED BY <2>1, <2>2 DEF WorkersAreCounted
<1>5. ASSUME NEW n \in Name PROVE ~Killed(n)
  BY DEF Killed, Prompt
<1>6. ASSUME NEW n \in Name, Worker(n) PROVE WorkersAreCounted'
  <2>1. job[n] = "active" /\ pod[n] = "running"
    BY <1>6, WorkerCallsAlone DEF PodsBelongToJobs, Unfinished
  <2> QED BY <1>6, <2>1, WorkerCallsAlone DEF WorkersAreCounted, vars, jobVars
<1>7. CASE (\E s \in Request : MaasWorks(s)) \/ UNCHANGED allVars
  BY <1>7 DEF MaasWorks, allVars, vars, jobVars, workerVars, WorkersAreCounted
<1>8. ASSUME NEW c \in Call,
           \/ RegisterFinds(c) \/ RegisterFindsNone(c) \/ RegisterCreates(c) \/ RegisterRefused(c)
           \/ CancelBegins(c) \/ CancelAborts(c) \/ CancelReplies(c) \/ Abort(c)
           \/ ShowReads(c) \/ ShowReplies(c) \/ MachineDelete(c)
      PROVE  WorkersAreCounted'
  BY <1>8 DEF RegisterFinds, RegisterFindsNone, RegisterCreates, RegisterRefused, CancelBegins,
     CancelAborts, CancelReplies, Abort, CancelEnds, ShowReads, ShowReplies, MachineDelete,
     BeginRegister, BeginCancel, vars, jobVars, workerVars, WorkersAreCounted
<1> QED BY <1>1, <1>2, <1>3, <1>4, <1>5, <1>6, <1>7, <1>8 DEF MNext, Step

\* Whoever cancels and deletes machines, a worker past its lookup has a job that counts.
LEMMA CountedInvariant ==
    ASSUME Prompt PROVE MSpec => [](WorkersAreCounted /\ Types /\ TypeOK /\ PodsBelongToJobs)
<1>1. MSpec => [](TypeOK /\ PodsBelongToJobs)
  BY StoreImplemented, TypeCorrect, PodsSafe, PTL DEF ImplementsStore, Spec
<1>2. MSpec => []MTypeOK
  BY MachineTypeCorrect
<1>3. MTypeOK => Types
  BY Zenon DEF Types, MachineTypes, HandlerTypes, WorkerTypes, WorkRecord, MTypeOK
<1>4. MInit => WorkersAreCounted
  BY DEF MInit, WorkersAreCounted
<1> QED BY <1>1, <1>2, <1>3, <1>4, CountedStep, PTL DEF MSpec

LEMMA WorkStoreStep ==
    ASSUME Orderly, TypeOK, PodsBelongToJobs, Types, WorkInv, NEW ACTION A, StoreStep(A),
           A => \/ \E c \in Call : Continue(c)
                \/ \E n \in Name : Control(n) \/ PodExits(n)
                \/ Tick
    PROVE  WorkInv'
<1>1. A BY StoreStepIs
<1>2. UNCHANGED status
  BY DEF StoreStep, machineVars
<1>3. OneSystem' /\ JobsOfSystem'
  BY <1>1, <1>2, StoreFacts DEF WorkInv, OneSystem, JobsOfSystem, Exists, RegisterPC
<1>4. WorkersAtHome'
  BY StoreLeavesWorkers DEF Orderly, WorkInv, WorkersAtHome
<1>5. WorkersAreCounted'
  BY CountedStoreStep DEF Orderly, WorkInv
<1> QED BY <1>3, <1>4, <1>5 DEF WorkInv

LEMMA WorkHandlerStep ==
    ASSUME Orderly, TypeOK, Types, WorkInv, NEW c \in Call,
           \/ RegisterFinds(c) \/ RegisterFindsNone(c) \/ RegisterCreates(c) \/ RegisterRefused(c)
           \/ CancelBegins(c) \/ CancelAborts(c) \/ CancelReplies(c) \/ Abort(c)
           \/ ShowReads(c) \/ ShowReplies(c) \/ MachineDelete(c)
    PROVE  WorkInv'
<1> USE DEF WorkInv
<1>1. ~MachineDelete(c)
  BY DEF MachineDelete, Orderly
<1>2. UNCHANGED <<job, pod, wpc, work>>
  BY <1>1 DEF RegisterFinds, RegisterFindsNone, RegisterCreates, RegisterRefused, CancelBegins,
       CancelAborts, CancelReplies, Abort, CancelEnds, ShowReads, ShowReplies,
       BeginRegister, BeginCancel, vars, jobVars, workerVars
<1>3. WorkersAreCounted' /\ WorkersAtHome'
  BY <1>2 DEF WorkersAreCounted, WorkersAtHome
<1>4. ASSUME NEW s \in Request, Register(s)
      PROVE  OneSystem' /\ Exists(s)' /\ \A t \in Request : Exists(t) => Exists(t)'
  BY <1>4 DEF Types, MachineTypes, OneSystem, Exists, Register
<1>5. OneSystem' /\ \A t \in Request : Exists(t) => Exists(t)'
  <2>1. CASE RegisterCreates(c) \/ RegisterRefused(c)
    BY <1>4, <2>1 DEF RegisterCreates, RegisterRefused, machineVars, OneSystem, Exists
  <2>2. CASE Abort(c)
    BY <2>2 DEF Abort, InProgress, Types, MachineTypes, OneSystem, Exists
  <2>3. CASE ~(RegisterCreates(c) \/ RegisterRefused(c) \/ Abort(c))
    BY <1>1, <2>3 DEF RegisterFinds, RegisterFindsNone, CancelBegins,
       CancelAborts, CancelReplies, ShowReads, ShowReplies, machineVars, OneSystem, Exists
  <2> QED BY <2>1, <2>2, <2>3
<1>6. \A d \in Call : pc'[d] \in RegisterPC => Exists(arg[d])'
  <2>1. CASE RegisterFinds(c) \/ RegisterCreates(c)
    <3>1. PICK s \in Request : BeginRegister(c, s) /\ (Exists(s) \/ Register(s))
      BY <2>1 DEF RegisterFinds, RegisterCreates
    <3>2. Exists(s)'
      BY <1>4, <1>5, <3>1
    <3>3. arg'[c] = s /\ \A d \in Call \ {c} : pc'[d] = pc[d] /\ arg'[d] = arg[d]
      BY <3>1 DEF BeginRegister, Goto, TypeOK
    <3>4. \A d \in Call : arg[d] \in Request BY DEF TypeOK
    <3>5. ASSUME NEW d \in Call, pc'[d] \in RegisterPC PROVE Exists(arg[d])'
      <4>1. CASE d = c BY <3>2, <3>3, <4>1 DEF Exists
      <4>2. CASE d # c
        <5>1. Exists(arg[d]) BY <3>3, <3>5, <4>2 DEF JobsOfSystem
        <5> QED BY <1>5, <3>3, <3>4, <4>2, <5>1 DEF Exists
      <4> QED BY <4>1, <4>2
    <3> QED BY <3>5
  <2>2. CASE ~(RegisterFinds(c) \/ RegisterCreates(c))
    <3>1. \A d \in Call : pc'[d] \in RegisterPC => pc[d] \in RegisterPC /\ arg'[d] = arg[d]
      BY <1>1, <2>2 DEF RegisterFindsNone, RegisterRefused, CancelBegins, CancelAborts,
         CancelReplies, Abort, CancelEnds, ShowReads, ShowReplies, BeginCancel, Goto, vars,
         RegisterPC, TypeOK
    <3>2. \A d \in Call : arg[d] \in Request BY DEF TypeOK
    <3> QED BY <1>5, <3>1, <3>2 DEF JobsOfSystem, Exists
  <2> QED BY <2>1, <2>2
<1>7. JobsOfSystem'
  BY <1>2, <1>5, <1>6 DEF JobsOfSystem, Name
<1> QED BY <1>3, <1>5, <1>7

\* A worker works at the system its job is labelled with, because it is the only one.
LEMMA WorkerStep ==
    ASSUME Orderly, TypeOK, PodsBelongToJobs, Types, WorkInv, NEW n \in Name, Worker(n)
    PROVE  WorkInv'
<1> USE DEF WorkInv
<1>1. \A l : At(n, l) => wpc[n] = l
  BY DEF At
<1>2. UNCHANGED vars /\ pod[n] = "running" /\ job[n] # "pending"
  BY WorkerCallsAlone DEF Orderly
<1>3. job[n] = "active" /\ Exists(n[1])
  BY <1>2 DEF PodsBelongToJobs, Unfinished, JobsOfSystem
<1>4. n[1] \in Request
  BY DEF Name
<1>5. \A s \in Request : ~Register(s)
  BY <1>3, <1>4 DEF Register
<1>6. \A s \in Request : Exists(s)' <=> Exists(s)
  BY <1>5 DEF Worker, WorkerFinds, WorkerFindsNone, WorkerCreates, CommissionGuard,
       Commission, Poll, GetSubnets, GetAccessInfo,
       CreateSubnet, GetInterfaces, NextInterface, Change, Disconnect, Link, Rename,
       WorkerCallFails, MarkBroken, machineVars, Exists, Types, MachineTypes
<1>7. \A s \in Request : status'[s] # "deleted"
  BY <1>5 DEF Worker, WorkerFinds, WorkerFindsNone, WorkerCreates, CommissionGuard,
       Commission, Poll, GetSubnets, GetAccessInfo,
       CreateSubnet, GetInterfaces, NextInterface, Change, Disconnect, Link, Rename,
       WorkerCallFails, MarkBroken, machineVars, OneSystem, Types, MachineTypes
<1>8. OneSystem' /\ JobsOfSystem'
  <2>1. \A c \in Call : arg[c] \in Request BY DEF TypeOK
  <2> QED BY <1>2, <1>6, <1>7, <2>1 DEF vars, OneSystem, JobsOfSystem, Exists, Name
<1>9. \A m \in Name \ {n} : wpc'[m] = wpc[m] /\ work'[m] = work[m]
  BY WorkerCallsAlone
<1>10. wpc'[n] \notin {"off", "lookup", "create", "failed"} => work'[n].sys = n[1]
  <2>1. CASE WorkerFinds(n)
    <3>1. PICK s \in Request : Exists(s) /\ work' = [work EXCEPT ![n].sys = s]
      BY <2>1 DEF WorkerFinds
    <3>2. s = n[1] BY <1>3, <1>4, <3>1 DEF OneSystem
    <3> QED BY <3>1, <3>2 DEF Types, WorkerTypes, WorkRecord
  <2>2. CASE WorkerFindsNone(n) \/ WorkerCreates(n)
    BY <1>3, <1>4, <1>5, <2>2 DEF WorkerFindsNone, WorkerCreates, Then, Types, WorkerTypes
  <2>3. CASE WorkerCallFails(n)
    BY <1>1, <2>3 DEF WorkerCallFails, Then, WorkersAtHome, Types, WorkerTypes
  <2>4. CASE ~(WorkerFinds(n) \/ WorkerFindsNone(n) \/ WorkerCreates(n) \/ WorkerCallFails(n))
    <3>1. wpc[n] \notin {"off", "lookup", "create", "failed"}
      <4>1. CASE CommissionGuard(n) \/ Commission(n) \/ Poll(n)
        BY <4>1 DEF CommissionGuard, Commission, Poll, At
      <4>2. CASE \/ GetSubnets(n) \/ GetAccessInfo(n) \/ CreateSubnet(n) \/ GetInterfaces(n)
                 \/ NextInterface(n) \/ MarkBroken(n)
        BY <4>2 DEF GetSubnets, GetAccessInfo,
           CreateSubnet, GetInterfaces, NextInterface, MarkBroken, At
      <4>3. CASE Disconnect(n) \/ Link(n) \/ Rename(n)
        BY <1>1, <4>3 DEF Change, Disconnect, Link, Rename
      <4> QED BY <2>4, <4>1, <4>2, <4>3 DEF Worker
    <3>2. work'[n].sys = work[n].sys
      <4> USE DEF Types, WorkerTypes, WorkRecord
      <4>1. CASE CommissionGuard(n) \/ Commission(n) \/ Poll(n)
        BY <4>1 DEF CommissionGuard, Commission, Poll
      <4>2. CASE GetSubnets(n) \/ GetAccessInfo(n)
        BY <4>2 DEF GetSubnets, GetAccessInfo
      <4>3. CASE CreateSubnet(n)
        BY <4>3 DEF CreateSubnet
      <4>4. CASE GetInterfaces(n)
        BY <4>4 DEF GetInterfaces
      <4>6. CASE NextInterface(n) \/ MarkBroken(n)
        BY <4>6 DEF NextInterface, MarkBroken
      <4>5. CASE Disconnect(n) \/ Link(n) \/ Rename(n)
        BY <4>5 DEF Change, Disconnect, Link, Rename
      <4> QED BY <2>4, <4>1, <4>2, <4>3, <4>4, <4>5, <4>6 DEF Worker
    <3> QED BY <3>1, <3>2 DEF WorkersAtHome
  <2> QED BY <2>1, <2>2, <2>3, <2>4
<1>11. WorkersAreCounted' /\ WorkersAtHome'
  BY <1>2, <1>3, <1>9, <1>10 DEF WorkersAreCounted, WorkersAtHome, vars
<1> QED BY <1>8, <1>11

LEMMA WorkStep ==
    Orderly /\ TypeOK /\ PodsBelongToJobs /\ Types /\ WorkInv /\ [MNext]_allVars => WorkInv'
<1> SUFFICES ASSUME Orderly, TypeOK, PodsBelongToJobs, Types, WorkInv, [MNext]_allVars
             PROVE  WorkInv'
  OBVIOUS
<1>1. ASSUME NEW c \in Call, Handler(c) PROVE WorkInv'
  BY <1>1, WorkStoreStep DEF Handler, Continue
<1>2. ASSUME NEW n \in Name, JobController(n) PROVE WorkInv'
  BY <1>2, WorkStoreStep DEF JobController, Control
<1>3. CASE Clock
  BY <1>3, WorkStoreStep DEF Clock
<1>4. ASSUME NEW n \in Name, WorkerExits(n) PROVE WorkInv'
  <2>1. PodExits(n) BY <1>4 DEF WorkerExits
  <2>2. /\ UNCHANGED <<job, pc, arg>>
        /\ \A m \in Name \ {n} : pod'[m] = pod[m]
    BY <2>1 DEF PodExits, SetJob, TypeOK
  <2>3. /\ UNCHANGED status /\ wpc'[n] = "off"
        /\ \A m \in Name \ {n} : wpc'[m] = wpc[m] /\ work'[m] = work[m]
    BY <1>4 DEF WorkerExits, machineVars, Types, WorkerTypes
  <2> QED BY <2>2, <2>3 DEF WorkInv, OneSystem, JobsOfSystem, WorkersAreCounted,
             WorkersAtHome, Exists
<1>5. ASSUME NEW n \in Name PROVE ~Killed(n)
  BY DEF Killed, Orderly, Prompt
<1>6. ASSUME NEW s \in Request, MaasWorks(s) PROVE WorkInv'
  <2>1. /\ UNCHANGED <<job, pod, pc, arg, wpc, work>>
        /\ \A t \in Request : (Exists(t)' <=> Exists(t)) /\ (status[t] # "deleted" => status'[t] # "deleted")
    BY <1>6 DEF MaasWorks, vars, jobVars, workerVars, Exists, Types, MachineTypes
  <2>2. \A c \in Call : arg[c] \in Request BY DEF TypeOK
  <2> QED BY <2>1, <2>2 DEF WorkInv, OneSystem, JobsOfSystem, WorkersAreCounted,
             WorkersAtHome, Exists, Name
<1>7. CASE UNCHANGED allVars
  BY <1>7 DEF allVars, vars, jobVars, machineVars, workerVars, WorkInv, OneSystem, JobsOfSystem,
       WorkersAreCounted, WorkersAtHome, Exists
<1> QED
  BY <1>1, <1>2, <1>3, <1>4, <1>5, <1>6, <1>7, WorkHandlerStep, WorkerStep DEF MNext, Step

LEMMA WorkInvariant == ASSUME Orderly PROVE MSpec => [](WorkInv /\ Types /\ TypeOK)
<1>1. MSpec => [](TypeOK /\ PodsBelongToJobs /\ Types)
  BY CountedInvariant, PTL DEF Orderly
<1>2. MInit => WorkInv
  BY DEF MInit, Init, WorkInv, OneSystem, JobsOfSystem, WorkersAreCounted, WorkersAtHome, Exists,
     RegisterPC
<1> QED BY <1>1, <1>2, WorkStep, PTL DEF MSpec

\* A machine is Processing as long as a worker is at it, for any number of handlers,
\* jobs and interfaces, whichever calls fail and whoever cancels.
THEOREM WorkIsProcessing == ASSUME Orderly PROVE MSpec => []WorkMeansProcessing
<1>1. WorkInv /\ Types /\ TypeOK => WorkMeansProcessing
  <2> SUFFICES ASSUME WorkInv, NEW n \in Name, wpc[n] \in Linking,
                      status[work[n].sys] = "Ready"
               PROVE  ReadyStatus(work[n].sys) = "Processing"
    BY DEF WorkMeansProcessing
  <2>1. work[n].sys = n[1] /\ job[n] = "active"
    BY DEF WorkInv, WorkersAreCounted, WorkersAtHome, Linking
  <2>2. HasJob(n[1])
    BY <2>1 DEF HasJob, ActiveJobs, SameSystem
  <2> QED BY <2>1, <2>2 DEF ReadyStatus, ReadyFlow
<1> QED BY <1>1, WorkInvariant, PTL

-----------------------------------------------------------------------------
(* Cancel *)

\* Kubernetes kills the pods of a deleted job at once, no call to its API fails, and
\* no failed pod is replaced (the chart sets K8S_JOB_BACKOFF_LIMIT to 0): a job whose
\* pod is being replaced has Status.Active = 0, so that Cancel overlooks it.
StopsReach == "killLag" \notin Faults /\ ~ApiMayFail /\ BackoffLimit = 0

\* Of the jobs a Cancel is to stop, those that have not ended have stood against it
\* ever since; it is still busy with the store then.  What it has stopped has ended.
TargetsStand ==
    \A c \in Call : \A n \in target[c] : Unfinished(n) =>
        pc[c] \in CancelPC /\ job[n] = "active" /\ n \in standing[c]
StoppedEnded == \A n \in stopped : ~Unfinished(n)
WorkersHavePods == \A n \in Name : wpc[n] # "off" => pod[n] = "running"
CancelInv ==
    /\ TargetsStand /\ StoppedEnded /\ WorkersHavePods
    /\ \A c \in Call : pc[c] \in CancelPC => hpc[c] = "cancel"

\* What a step of the store leaves of the jobs: one that has ended stays so under its
\* name, and an active one does not become pending again.
LEMMA EndedStays ==
    ASSUME StopsReach, TypeOK, PodsBelongToJobs, NEW n \in Name,
           \/ \E c \in Call : Continue(c)
           \/ \E m \in Name : Control(m) \/ PodExits(m)
           \/ Tick
    PROVE  /\ ~Unfinished(n) /\ Unfinished(n)' => job[n] = "absent" /\ job'[n] # "absent"
           /\ job[n] = "active" /\ Unfinished(n)' => job'[n] = "active"
<1> USE DEF TypeOK, jobVars, Unfinished
<1>1. ASSUME NEW c \in Call, Continue(c), ~Create(c), ~Delete(c)
      PROVE  UNCHANGED job
  BY <1>1 DEF Continue, ListByRequest, ListActive, CheckHasJob, ListCancel, ApiError
<1>2. ASSUME NEW c \in Call, Create(c)
      PROVE  job[n] # "absent" => job'[n] = job[n]
  BY <1>2 DEF Create
<1>3. ASSUME NEW c \in Call, Delete(c)
      PROVE  job'[n] = job[n] \/ job'[n] = "absent"
  BY <1>3 DEF Delete
<1>4. ASSUME NEW m \in Name, Control(m) \/ PodExits(m), m # n
      PROVE  job'[n] = job[n]
  BY <1>4 DEF Control, PodExits, StartPod, CountActive, JobSucceeds, ReplacePod, JobFails,
       DeadlineExceeded, Expire, SetJob
<1>5. ASSUME Control(n) \/ PodExits(n)
      PROVE  /\ ~Unfinished(n) => ~Unfinished(n)'
             /\ job[n] = "active" => job'[n] # "pending"
  <2>1. ~ReplacePod(n)
    BY DEF ReplacePod, StopsReach
  <2> QED BY <1>5, <2>1 DEF Control, PodExits, StartPod, CountActive, JobSucceeds, JobFails,
             DeadlineExceeded, Expire, SetJob, PodsBelongToJobs
<1>6. CASE \E c \in Call : Continue(c)
  BY <1>1, <1>2, <1>3, <1>6
<1>7. CASE \E m \in Name : Control(m) \/ PodExits(m)
  BY <1>4, <1>5, <1>7
<1>8. CASE Tick
  BY <1>8 DEF Tick
<1> QED BY <1>6, <1>7, <1>8

\* A store operation that is not over leaves its handler's standing jobs to it, and
\* one that is over leaves none of them active.
LEMMA StandingStays ==
    ASSUME StopsReach, TypeOK, PassedChecks, NEW c \in Call, NEW n \in standing[c],
           pc[c] \in CancelPC, job'[n] = "active",
           \/ \E d \in Call : Continue(d)
           \/ \E m \in Name : Control(m) \/ PodExits(m)
           \/ Tick
    PROVE  pc'[c] \in CancelPC /\ n \in standing'[c]
<1> USE DEF TypeOK, jobVars, CancelPC
<1>1. n \in Name /\ ConcernsCancel(arg[c], n) /\ (pc[c] = "delete" => n \in todo[c])
  BY DEF PassedChecks, Stands, RegisterPC
<1>2. /\ UNCHANGED arg
      /\ UNCHANGED standing \/ KeepStanding
  <2>1. ASSUME NEW d \in Call, Continue(d) PROVE UNCHANGED arg /\ KeepStanding
    BY <2>1 DEF Continue, ListByRequest, ListActive, Create, CheckHasJob, ListCancel,
       Delete, ApiError
  <2>2. ASSUME NEW m \in Name, Control(m) \/ PodExits(m) PROVE UNCHANGED arg /\ KeepStanding
    BY <2>2 DEF Control, PodExits, StartPod, CountActive, JobSucceeds, ReplacePod, JobFails,
       DeadlineExceeded, Expire, SetJob
  <2>3. CASE Tick
    BY <2>3 DEF Tick
  <2> QED BY <2>1, <2>2, <2>3
<1>3. pc'[c] \in CancelPC
  <2>1. ASSUME NEW d \in Call, Continue(d), d # c PROVE pc'[c] = pc[c]
    BY <2>1 DEF Continue, ListByRequest, ListActive, Create, CheckHasJob, ListCancel,
       Delete, ApiError, Goto
  <2>2. ASSUME Continue(c) PROVE pc'[c] \in CancelPC
    <3>1. CheckHasJob(c) \/ ListCancel(c) \/ Delete(c)
      BY <2>2 DEF Continue, ListByRequest, ListActive, Create, ApiError, StopsReach
    <3>2. CASE CheckHasJob(c)
      BY <1>1, <3>2 DEF CheckHasJob, Goto, HasJob, ActiveJobs, ConcernsCancel
    <3>3. CASE ListCancel(c)
      BY <1>1, <3>3 DEF ListCancel, Goto, ActiveJobs, ConcernsCancel
    <3>4. CASE Delete(c)
      BY <1>1, <3>4 DEF Delete, Goto
    <3> QED BY <3>1, <3>2, <3>3, <3>4
  <2>3. ASSUME NEW m \in Name, Control(m) \/ PodExits(m) PROVE UNCHANGED pc
    BY <2>3 DEF Control, PodExits, StartPod, CountActive, JobSucceeds, ReplacePod, JobFails,
       DeadlineExceeded, Expire, SetJob
  <2>4. CASE Tick
    BY <2>4 DEF Tick
  <2> QED BY <2>1, <2>2, <2>3, <2>4
<1>4. Stands(c, n)'
  BY <1>1, <1>2, <1>3 DEF Stands, ConcernsCancel, SameSystem
<1> QED BY <1>2, <1>3, <1>4 DEF KeepStanding

LEMMA CancelStoreStep ==
    ASSUME StopsReach, TypeOK, PodsBelongToJobs, PassedChecks, Types, CancelInv,
           NEW ACTION A, StoreStep(A),
           A => \/ \E c \in Call : Continue(c)
                \/ \E n \in Name : Control(n) \/ PodExits(n)
                \/ Tick
    PROVE  CancelInv'
<1> DEFINE new == {n \in Name : job[n] = "absent" /\ job'[n] # "absent"}
<1>1. A BY StoreStepIs
<1>2. /\ stopped' = stopped \ new
      /\ target' = [c \in Call |-> target[c] \ new]
      /\ UNCHANGED hpc
  BY DEF StoreStep
<1>3. TargetsStand'
  <2> SUFFICES ASSUME NEW c \in Call, NEW n \in target'[c], Unfinished(n)'
               PROVE  pc'[c] \in CancelPC /\ job'[n] = "active" /\ n \in standing'[c]
    BY DEF TargetsStand
  <2>1. n \in target[c] /\ n \notin new /\ n \in Name
    BY <1>2 DEF Types, HandlerTypes
  <2>2. Unfinished(n)
    BY <1>1, <2>1, EndedStays
  <2>3. pc[c] \in CancelPC /\ job[n] = "active" /\ n \in standing[c]
    BY <2>1, <2>2 DEF CancelInv, TargetsStand
  <2>4. job'[n] = "active"
    BY <1>1, <2>1, <2>3, EndedStays
  <2> QED BY <1>1, <2>3, <2>4, StandingStays
<1>4. StoppedEnded'
  <2> SUFFICES ASSUME NEW n \in stopped', Unfinished(n)' PROVE FALSE
    BY DEF StoppedEnded
  <2>1. n \in stopped /\ n \notin new /\ n \in Name
    BY <1>2 DEF Types, HandlerTypes
  <2> QED BY <1>1, <2>1, EndedStays DEF CancelInv, StoppedEnded
<1>5. WorkersHavePods'
  BY DEF StoreStep, CancelInv, WorkersHavePods, StopsReach
<1>6. \A c \in Call : pc'[c] \in CancelPC => pc[c] \in CancelPC
  BY <1>1 DEF Continue, ListByRequest, ListActive, Create, CheckHasJob, ListCancel, Delete,
     ApiError, Control, PodExits, StartPod, CountActive, JobSucceeds, ReplacePod, JobFails,
     DeadlineExceeded, Expire, SetJob, Tick, Goto, CancelPC, TypeOK
<1> QED BY <1>2, <1>3, <1>4, <1>5, <1>6 DEF CancelInv

\* Handlers: what a Cancel is to stop stands against it when it begins, and has ended
\* when it is done with the store, so when it accepts.
LEMMA CancelHandlerStep ==
    ASSUME TypeOK, Types, CancelInv, NEW c \in Call,
           \/ RegisterFinds(c) \/ RegisterFindsNone(c) \/ RegisterCreates(c) \/ RegisterRefused(c)
           \/ CancelBegins(c) \/ CancelAborts(c) \/ CancelReplies(c) \/ Abort(c)
           \/ ShowReads(c) \/ ShowReplies(c) \/ MachineDelete(c)
    PROVE  CancelInv'
<1> USE DEF CancelInv, TypeOK, Types, HandlerTypes
<1>1. UNCHANGED <<job, pod, wpc>>
  BY DEF RegisterFinds, RegisterFindsNone, RegisterCreates, RegisterRefused, CancelBegins,
       CancelAborts, CancelReplies, Abort, CancelEnds, ShowReads, ShowReplies, MachineDelete,
       BeginRegister, BeginCancel, vars, jobVars, workerVars
<1>2. WorkersHavePods'
  BY <1>1 DEF WorkersHavePods
<1>3. CASE RegisterFinds(c) \/ RegisterCreates(c)
  <2>1. /\ pc[c] = "idle" /\ pc'[c] = "listByRequest"
        /\ \A d \in Call \ {c} : pc'[d] = pc[d] /\ standing'[d] = standing[d] /\ hpc'[d] = hpc[d]
        /\ UNCHANGED <<target, stopped>>
    BY <1>3 DEF RegisterFinds, RegisterCreates, BeginRegister, Goto, HGoto, handlerVars
  <2> QED BY <1>1, <1>2, <2>1 DEF TargetsStand, StoppedEnded, Unfinished, CancelPC
<1>4. CASE CancelBegins(c)
  <2>1. PICK s \in Request : /\ BeginCancel(c, s)
                             /\ target' = [target EXCEPT ![c] = ActiveJobs(s)]
    BY <1>4 DEF CancelBegins
  <2>2. /\ pc'[c] = "hasJob" /\ hpc'[c] = "cancel" /\ UNCHANGED stopped
        /\ \A n \in target'[c] : job[n] = "active" /\ n \in standing'[c]
        /\ \A d \in Call \ {c} : /\ pc'[d] = pc[d] /\ standing'[d] = standing[d]
                                 /\ hpc'[d] = hpc[d] /\ target'[d] = target[d]
    BY <1>4, <2>1 DEF CancelBegins, BeginCancel, Goto, HGoto, ActiveJobs, ConcernsCancel
  <2> QED BY <1>1, <1>2, <2>2 DEF TargetsStand, StoppedEnded, Unfinished, CancelPC
<1>5. CASE CancelReplies(c) \/ Abort(c)
  <2>1. /\ pc[c] \notin CancelPC /\ UNCHANGED <<pc, standing>>
        /\ stopped' \in {stopped, stopped \cup target[c]} /\ target'[c] = {}
        /\ \A d \in Call \ {c} : target'[d] = target[d] /\ hpc'[d] = hpc[d]
    BY <1>5 DEF CancelReplies, Abort, CancelEnds, Accept, HGoto, CancelPC, vars
  <2> QED BY <1>1, <1>2, <2>1 DEF TargetsStand, StoppedEnded, Unfinished
<1>6. CASE RegisterFindsNone(c) \/ RegisterRefused(c) \/ CancelAborts(c) \/ ShowReads(c)
           \/ ShowReplies(c) \/ MachineDelete(c)
  <2>1. /\ UNCHANGED <<pc, standing, target, stopped>>
        /\ \A d \in Call : pc[d] \in CancelPC => hpc'[d] = hpc[d]
    BY <1>6 DEF RegisterFindsNone, RegisterRefused, CancelAborts, ShowReads, ShowReplies,
         MachineDelete, Idle, HGoto, CancelPC, vars, handlerVars
  <2> QED BY <1>1, <1>2, <2>1 DEF TargetsStand, StoppedEnded, Unfinished
<1> QED BY <1>3, <1>4, <1>5, <1>6

LEMMA CancelStep ==
    StopsReach /\ TypeOK /\ PodsBelongToJobs /\ PassedChecks /\ Types /\ CancelInv /\ [MNext]_allVars
        => CancelInv'
<1> SUFFICES ASSUME StopsReach, TypeOK, PodsBelongToJobs, PassedChecks, Types, CancelInv,
                    [MNext]_allVars
             PROVE  CancelInv'
  OBVIOUS
<1>1. ASSUME NEW c \in Call, Handler(c) PROVE CancelInv'
  BY <1>1, CancelStoreStep DEF Handler, Continue
<1>2. ASSUME NEW n \in Name, JobController(n) PROVE CancelInv'
  BY <1>2, CancelStoreStep DEF JobController, Control
<1>3. CASE Clock
  BY <1>3, CancelStoreStep DEF Clock
<1>4. ASSUME NEW n \in Name, WorkerExits(n) PROVE CancelInv'
  <2>1. PodExits(n) BY <1>4 DEF WorkerExits
  <2>2. /\ UNCHANGED <<job, pc, arg>> /\ KeepStanding
        /\ \A m \in Name \ {n} : pod'[m] = pod[m]
    BY <2>1 DEF PodExits, SetJob, TypeOK
  <2>3. /\ UNCHANGED <<hpc, target, stopped>> /\ wpc'[n] = "off"
        /\ \A m \in Name \ {n} : wpc'[m] = wpc[m]
    BY <1>4 DEF WorkerExits, handlerVars, Types, WorkerTypes
  <2>4. \A c \in Call : \A m \in standing[c] : pc[c] \in CancelPC => m \in standing'[c]
    BY <2>2 DEF KeepStanding, PassedChecks, Stands, ConcernsCancel, SameSystem, CancelPC, RegisterPC
  <2> QED BY <2>2, <2>3, <2>4 DEF CancelInv, TargetsStand, StoppedEnded, WorkersHavePods, Unfinished
<1>5. ASSUME NEW n \in Name PROVE ~Killed(n)
  BY DEF Killed, StopsReach
<1>6. ASSUME NEW n \in Name, Worker(n) PROVE CancelInv'
  <2>1. \A l : At(n, l) => UNCHANGED <<vars, handlerVars>> /\ pod[n] = "running"
    BY DEF At, StopsReach
  <2>2. UNCHANGED <<vars, handlerVars>> /\ pod[n] = "running"
    BY <1>6, <2>1 DEF Worker, WorkerFinds, WorkerFindsNone, WorkerCreates, CommissionGuard,
       Commission, Poll, GetSubnets, GetAccessInfo,
       CreateSubnet, GetInterfaces, NextInterface, Change, Disconnect, Link, Rename,
       WorkerCallFails, MarkBroken
  <2>3. \A m \in Name \ {n} : wpc'[m] = wpc[m]
    BY <1>6 DEF Worker, WorkerFinds, WorkerFindsNone, WorkerCreates, CommissionGuard,
       Commission, Poll, GetSubnets, GetAccessInfo,
       CreateSubnet, GetInterfaces, NextInterface, Change, Disconnect, Link, Rename,
       WorkerCallFails, MarkBroken, Then, ThenCalled, Types, WorkerTypes
  <2> QED BY <2>2, <2>3 DEF vars, jobVars, handlerVars, CancelInv, TargetsStand, StoppedEnded,
             WorkersHavePods, Unfinished
<1>7. CASE (\E s \in Request : MaasWorks(s)) \/ UNCHANGED allVars
  BY <1>7 DEF MaasWorks, allVars, vars, jobVars, handlerVars, workerVars, CancelInv, TargetsStand,
       StoppedEnded, WorkersHavePods, Unfinished
<1> QED
  BY <1>1, <1>2, <1>3, <1>4, <1>5, <1>6, <1>7, CancelHandlerStep DEF MNext, Step

\* An accepted Cancel is final under StopsReach, for any number of handlers, of systems
\* and of interfaces, whichever calls to MAAS fail and whichever workers die.
THEOREM CancelStops == ASSUME StopsReach PROVE MSpec => CancelIsFinal
<1>1. MSpec => [](TypeOK /\ PodsBelongToJobs /\ PassedChecks)
  BY StoreImplemented, TypeCorrect, PodsSafe, ChecksInvariant, PTL DEF ImplementsStore, Spec
<1>2. MSpec => []MTypeOK
  BY MachineTypeCorrect
<1>3. MTypeOK => Types
  BY Zenon DEF Types, MachineTypes, HandlerTypes, WorkerTypes, WorkRecord, MTypeOK
<1>4. MInit => CancelInv
  BY DEF MInit, Init, CancelInv, TargetsStand, StoppedEnded, WorkersHavePods, CancelPC
<1>5. Types' /\ PodsBelongToJobs' /\ CancelInv' =>
        [\A n \in stopped : \/ wpc'[n] = "off" \/ n \notin stopped'
                            \/ wpc'[n] = wpc[n] /\ work'[n] = work[n]]_allVars
  BY DEF Types, HandlerTypes, PodsBelongToJobs, CancelInv, StoppedEnded, WorkersHavePods, Unfinished
<1>6. TypeOK /\ PodsBelongToJobs /\ PassedChecks /\ Types /\ CancelInv /\ [MNext]_allVars => CancelInv'
  BY CancelStep
<1> QED BY <1>1, <1>2, <1>3, <1>4, <1>5, <1>6, PTL DEF MSpec, CancelIsFinal

=============================================================================
