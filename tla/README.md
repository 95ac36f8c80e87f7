# Verification project for dci_physical_infrastructure

TLA+ specifications, TLC models and TLAPS proofs for the services under `src/`.
Every definition is translated from the Go sources; `PROJECT.json` maps each
modelling definition to the lines it stands for.

## 1. The system: inventory

`dci_physical_infrastructure` puts a disaggregated (composable) infrastructure
behind five Go services, deployed by a Helm chart with one replica each.

| component | source | state it keeps | operations |
|---|---|---|---|
| MaaS controller | `maas/internal/server/implementation/canonical_maas` | none of its own: machines, interfaces, tags, addresses live in Canonical MAAS | MachineRegister/Delete/List/Show, OsDeploy, OsRelease, VMCompose/Delete, Cancel, PowerON/OFF, NetworkUpdate, KubeadmJoin/Reset |
| MaaS asynchronous jobs | `maas/.../async_job`, worker mode of `maas/cmd/server/main.go` | Kubernetes Jobs (labels, status, TTL) | Register, Cancel, HasJob, run of a worker |
| MAAS REST client | `maas/.../canonical_maas/maas_api` | none | idempotency guards (status check, then POST), retry loop |
| CDI controller | `cdi/internal/server/implementation/pg_cdi` | none: PRIMERGY CDI manager, reached by Ansible | MachineCreate, MachineDestroy, MachineShow, ResourceList, ResourceShow, CardScaling |
| network controller | `network/internal/server/implementation` | none: SONiC switches and virtual switches | VlanAdd/Delete, VswVlanAdd/Delete |
| exporter | `exporter/cmd/server`, `exporter/internal/server/implementation` | Prometheus gauges, the previous target lists, the last P2P state per server | collection round per tick, clean-up of gauges, P2P re-activation |
| log collector | `log/cmd/server`, `log/internal/server/implementation` | log files | collection round per tick (CDI, CDI software, IPMI, MAAS server) |
| common | `common/` | none | database models, product matching, Kubernetes secrets |
| gRPC front ends | `*/cmd/server/main.go` | none | validate, choose the product's controller, reply |
| chart, build, clients | `chart/`, `*/cmd/client`, `*/api/proto` | - | deployment, generated code, test clients |

How they interact: a gRPC handler of the MaaS service calls MAAS over REST and
hosts over Ansible.  Long flows (MachineRegister, VMCompose, KubeadmJoin) end
with the registration of a Kubernetes Job; its pod is the same binary in worker
mode, which decodes the request from an environment variable and runs the whole
handler again before it goes on with the long flow.  MachineShow/MachineList
derive `ready_status` from the machine's status in MAAS and from the jobs.  The
exporter and the log collector read their targets from the database at every
tick and start one goroutine per kind of target and tick, without waiting for
the previous round; the exporter also drives the CDI manager (P2P on/off).

What is hard in it: every operation is a sequence of remote calls with nothing
that makes the sequence atomic; any call can fail and leave its predecessors
done; handlers of different clients, worker pods and rounds of collection
overlap; the status of a Job lags behind its pod; a worker can be killed between
any two steps and its request can be run again from the start.

What makes each component correct:

* job store: no job beside one that makes it redundant, a cancel that reaches
  what runs, jobs that end, a duplicate filter that clears;
* MaaS controller: a machine shown Ready is configured; a cancelled or deleted
  machine is not worked on any more; addresses configured on a host are reserved,
  by one host, and found again when the host is released;
* CDI: a scaling that has the machine to itself adds before it removes and does what
  it was asked; every handler ends, whatever the manager does;
* exporter: gauges exist for what is monitored and for nothing else, P2P is
  re-activated once after each boot;
* log: a target that answers is logged in every round;
* network: VLAN operations report what they did.

## 2. The modules

| module | models | extends |
|---|---|---|
| `JobStore` | `K8sJobStore`, `JobManager`; Kubernetes' Job controller as external | - |
| `MachineRegister` | MachineRegister in server and worker mode, Cancel, MachineShow, MachineDelete; MAAS as external | `JobStore` |
| `HostAddresses` | NetworkUpdate, OsRelease, OsDeploy as far as addresses are concerned | - |
| `AddressPool` | the abstract specification that `HostAddresses` implements | - |
| `VMHosts` | VMCompose in server and worker mode, VMDelete, OsDeploy and OsRelease as far as the VM host is concerned | - |
| `AddressRange` | `reverseIPAddressRange`: which addresses of a new subnet MAAS may give out | - |
| `SubnetRanges` | `VMHosts` with the ranges of a new subnet, posted one by one | `VMHosts`, `AddressRange` |
| `CdiMachine` | MachineCreate, MachineDestroy, CardScaling with its goroutine; the CDI manager and `CdiWrapper.sh` as they appear to them | - |
| `MetricsRounds` | the exporter's collection rounds, target lists, gauges and their clean-up | - |
| `MCJobStore`, `MCMachineRegister`, `MCRegisterRepairs`, `MCHostAddresses`, `MCVMHosts`, `MCCdiMachine`, `MCMetricsRounds` | the instances TLC checks | the module named |
| `RegisterRepairs` | an observer of the workers of `MachineRegister` that die | `MachineRegister` |
| `HostLifecycle` | the abstract specification that `MachineRegister` implements: the life of a host as clients see it | - |
| `*_proofs` | theorems about the module named | that module |

A definition named `X_variant` just before `X` is a mutant: `X` with a plausible
bug.  It is used nowhere; `PROJECT.json` says which property tells it from `X`.

### JobStore

State: `job`, the Job object of each name as a List returns it (`absent`,
`pending` = counted neither active nor succeeded, `active`, `succeeded`,
`failed`); `pod`, its pod, of which `job` learns later; `retries`; `now`, the
Unix second that `GenerateK8sJobName` stamps names with.  A name is a pair of a
request and a second, as the name in the code is made of the job type, the
system, the second and a hash of the request.  Each handler `c` has the API call
it does next (`pc`), its request (`arg`) and the jobs it has listed (`todo`).

| action | code |
|---|---|
| `BeginRegister`, `ListByRequest`, `ListActive`, `Create` | `RegisterWithInfo`; the two duplicate checks and the Create of `Register` |
| `BeginCancel`, `CheckHasJob`, `ListCancel`, `Delete` | the handler's `HasProcessingJob`; List and Deletes of `Cancel` |
| `ApiError` | an error of any of these: the handler's part ends; `CheckHasJob` goes on, as `Cancel` only logs |
| `StartPod` ... `Expire` | the Job controller: pod, status, back-off limit, `ActiveDeadlineSeconds`, TTL |

`standing[c]` is a history variable: the jobs that have stood against call `c`
at every moment since it began (active of its type or active or succeeded of its
request for a Register, active of its system for a Cancel).  The properties say
with it what a non-atomic check can promise.

### MachineRegister

A *system* is one incarnation of the host in MAAS; deleting and registering
again gives a new one.  State: MAAS' `status`, `links` and `named` of each
system and its subnets `nets`, the handlers (`hpc`, `had`, `seen`), the workers
(`wpc`, `work`), and the store's variables.  Each REST call is an action: the handler
`RegisterFinds` / `RegisterFindsNone` / `RegisterCreates`, then the store's
`BeginRegister`; the worker runs the same first calls again (`WorkerFinds` ...) before
`CommissionGuard`, `Commission`, `Poll`, `GetSubnets`, `GetAccessInfo`,
`CreateSubnet` for each subnet it does not know, `GetInterfaces` and, interface by
interface, `Disconnect`, `Link`, `Rename`; any error leads to `MarkBroken`.  A
worker makes steps only while its pod runs (`At`), except under the fault
`killLag`.  Store actions appear through `StoreStep(A)`, which leaves MAAS alone.

The request names subnets for interfaces (`Asked`), MAAS gives every interface some
when it commissions (`AutoLinks`).  `Target(n, i)` is what worker `n` links interface
`i` to: the subnets of the request and, for the boot interface, those it had when this
worker read it (`work[n].boot`, lines 99-105 of the controller).  That is why a link of
the boot interface can be lost for good: a worker that reads it between another's
`Disconnect` and `Link`, or after the other has died there, has a smaller target and
ends normally.

`Faults` says what may go wrong in a run, `Serves` which handlers clients call.
`could` and `target`, `stopped` are history variables for MachineShow and Cancel.
`had` is real: Cancel's `hadProcessingJob`.

`RegisterRepairs` adds three history variables and no behaviour: `deserted`, the
systems that a worker has left half done by dying or by ending without having
marked them broken; `shared`, the workers that have not had a machine to
themselves; `bereft`, the systems whose boot interface may have lost links, as a
worker has died past its poll, or two have been there at a time, since MAAS last
commissioned the machine.  `Strayed(s)`: a worker is at system `s` whose job is
labelled with another incarnation of the host.

`Configured` is what the request asks for: the names, and every interface linked to
the subnets named for it, the boot interface perhaps to some of MAAS' own besides.
That the boot interface has *all* of MAAS' own links is `BootLinksKept`.

`HostLifecycle` has, per system, the ready status that MachineShow gives (`shown`)
and whether its interfaces are as the request asks (`configured`); workers, jobs,
MAAS' statuses and links are hidden.  A host appears, is worked on, may fail, gets
Ready once it is configured, stays as it is while it is Ready, and is deleted; there
is one incarnation at a time.  What is `deserted` or `strayed` is promised less.
`ImplementsLifecycle` is `RegisterRepairs` under the mapping `Lifecycle`.

### HostAddresses and AddressPool

An address lives in three places: MAAS' reservations (`reserved`), the
IP/prefix tags of an interface (`tags`) and the host (`config`).  Handler `o` is
between two remote calls at `pc[o]`, with locals `v[o]`.  `Group`, `Query`,
`Reserve`, `Configure`, `ReleaseOld`, `RemoveTags`, `AddTags` are the steps of
NetworkUpdate, numbered as in its comments; `ReleaseMachine`, `GetInterfaces`,
`ReleaseTagged`, `RemoveTag` those of OsRelease.  `Fails` are the calls that may
fail without an effect, `Lost` those that may fail after it; either ends the
handler where it is, as the code undoes nothing.  `Exclusive` says whether
clients have at most one operation per host at a time: the service does not
enforce it.  The boot interface, which NetworkUpdate skips, is left out.  The
order in which a group's subnets and an interface's tags are processed is left
open.

`AddressPool` has only the reservations and the hosts' addresses: an address is
taken out of the pool, assigned to an interface when no other one uses it, and
given back when nobody uses it.  `HostAddresses` implements it with `taken <-
reserved`, `use <- config`; tags, handlers and failures are hidden.

### VMHosts, SubnetRanges and AddressRange

One machine, one request for one VM on it with an interface in each of some
networks.  A *system* is an incarnation of the VM.  `VMCompose` runs twice, in the
handler and in the worker of the job it registers, so most actions take a process
`p` that is either (`Flow(p)`): `Compose` (getHostID), `SetupLxd`, `AddHost`,
`Certificate`, `Refresh`, `ListSubnets`, `Network`, `CreateSubnet`,
`CreateRanges`, `LooksForVM`, `ComposeVM`; the handler then does `RegisterJob`,
the worker `Poll`, `GetInterfaces`, `Disconnect`, `Link`, `MarkBroken`.
`BeginRelease`, `DeleteHost`, `Unsubscribe`, `ReleaseMachine` are OsRelease.
`Refused` says what MAAS and the hosts refuse; `Error` is `errorProcess`, or
`markBroken` once the VM exists.  An error before the composition leaves the VM
as it is and the job failed.  `abandoned` (what a failed call has left half done)
and `excused` (releases that could not see the VM host) are history variables.
Of the job store only the job of each system is kept; that two checks and a
Create are not atomic is `JobStore`'s subject.

`AddressRange` is arithmetic without a state: `Before` and `After` are the two
ranges of `reverseIPAddressRange` over numbers below `Modulus`, wrapping around
there as the code's `uint32` does at 2^32.  `SubnetRanges` brings the two together:
`reserved` is what MAAS has of the ranges of each subnet, and `PostRange` one pass of
the loop in createSubnetAndIPRange, of which the one `CreateRanges` of `VMHosts` is
the abstraction: a loop that ends early is its `CallFails`.  `Asked` gives each
network its size and the range its request keeps.

### CdiMachine

One machine under the CDI manager: `exists`, `power`, `error`, `cards`, and the
modification under way (`job`).  The manager accepts a power-off or a modification
and carries it out later (`PowerDown`, `ModifyEnds`), or fails to.  A handler is
at `pc[o]`; `Command` is one run of the playbook and the wrapper (done; done but
answered as an error, since the wrapper runs a command again whose end it has not
seen; refused; not run).  MachineCreate is `CreateShow`, `Create`; MachineDestroy
`PowerOff`, `Await`, `ForceOff`, `AwaitForced`, `Destroy`; CardScaling, which
replies before it begins, `Show`, `Add`, `AwaitAdd`, `Remove`, `AwaitRemove`.  A
wait ends when the status is the awaited one, or after three minutes.  `PowerOn` may
happen at any moment, as PowerON of the MaaS service and operators share no lock with
the CDI service.  `alone` and `goal` are history variables.

### MetricsRounds

`gauges` is Prometheus' registry, `kept` the list of the last round
(`m.serverList`, `m.networkList`), `rows` the targets in the database.  A tick
starts a round on a goroutine (`Tick`) without waiting for the last one; the round
asks target by target (`Ask`), writes what is answered (`Write`), compares its
list with the kept one (`Compare`), deletes the difference (`Delete`) and keeps
its list (`Keep`).  `kind` makes the two uses of the same code: servers, where a
failing query returns a part of the rows and an answer is complete or nothing, and
switches, where it returns none and an answer may have any of the interfaces.
`Restart` is the exporter's death by a server row whose pool, CDI or OS row is not
found: the query's error is nil, its message is logged all the same (database.go:149,
177, 191, 226), and the panic ends the process, which Kubernetes starts again.
`alone` is a history variable.

## 3. The runs

| run | bounds | checks |
|---|---|---|
| `jobstore_faults` | 2 handlers, 1 request, 2 seconds, back-off limit 1, API errors | `TypeOK`, `PodsBelongToJobs`, `NothingStandsAtCreate`; `JobsFinish`, `FilterClears` |
| `jobstore_types` | 2 handlers, two payloads of one type and a join for one system, 1 second | `NothingStandsAtCreate`, `CancelCoversStanding`, `CancelTerminates`, `RegisterLeavesJob` |
| `jobstore_starts` | 1 handler, 1 request, 2 seconds | `RegisterStartsJob` is violated |
| `register_maas` | 1 handler, 1 host with its boot interface, which MAAS links to `a` and the request to `b`, 2 jobs; MAAS calls fail with or without effect, workers die or exceed the deadline, mark_broken fails | `ReadyIsConfigured`, `BootLinksKept`, `WorkMeansProcessing`, `LoneWorkerRepairs`, `ImplementsLifecycle` |
| `register_cancel` | 1 handler, the same interface, 2 jobs, Cancel and MachineShow, fairness | `CancelIsFinal`, `Settles` |
| `register_reborn` | 2 systems, MachineDelete, workers that die, run late, exceed the deadline | `MTypeOK`, `ImplementsStore` |
| `register_show` | 1 host with 2 interfaces, of which the request names one, MachineShow, MAAS errors | `ShowIsAtomic` is violated |
| `addresses_update` | 2 handlers, 2 hosts with one interface each, 2 subnets of 2 addresses, failures and lost answers | `TypeOK`, `NoSharedAddress`, `ConfiguredIsReserved`, `TagsPointHome`, `UpdateTellsTags`, `ReleasesUnassigned`, `OnlyFailuresLeak`, `ImplementsPool` |
| `addresses_stale` | 2 handlers, 2 hosts, removal of a tag may fail | `ReleasesUnassigned` is violated |
| `vmhosts_release` | 1 handler, 2 incarnations with their workers, 2 networks; calls fail or lose their answers, the list of VM hosts is unreadable, a job is not registered; the ranges of each subnet are posted one by one | `VTypeOK`, `ReleasesUnhosted`, `HalfDoneIsOwned`, `ReadyVmIsLinked`, `SubnetsKeepTheRange` |
| `cdi_overlap` | 2 handlers of any kind, 2 cards; commands not run or not answered, fairness of handlers | `CdiTypeOK`, `LoneScalingDoes`, `RemovesAfterAdds`, `CallsEnd` |
| `metrics_rounds` | 2 overlapping rounds, 2 targets with 2 and 1 gauges, failing queries and playbooks, an exporter that dies at a tick, fairness | `RoundsTypeOK`, `NoGaugeForgotten`, `LoneRoundIsExact`, `RemovedGaugesGo`, `AnsweredIsShown` |

Why the bounds are enough to mean something.

* Job store: two handlers are needed for one to act between another's List and
  Create; a third adds no new order of the two API calls that matter.  Two seconds
  give a request two names and, with one request, one name that is used again
  after its job is gone; three requests cover same type and different payload, and
  different type.  The chart sets the back-off limit to 0; 1 in `jobstore_faults`
  shows the retry path.
* Registration: with the two jobs of `register_maas` a second worker commissions
  and links the machine that the first is at: the code's worst case, since both
  take snapshots.  Its interface is the boot interface, with one link that only MAAS
  knows of and one that only the request names: either can be there without the
  other, which tells a half-linked machine from a linked one and a kept link from a
  lost one.  An interface is linked without regard to the others, so a second one
  adds nothing but states (`register_show` has two); the subnet of the request may
  exist or have to be created.
* Addresses: two addresses in a subnet let a host hand its old address over to the
  other host in the middle of an operation; two subnets make an interface have two
  addresses, of which one can be reserved or tagged and the other not; leaks and
  two hosts exhaust them.  Requests for several interfaces of a host are covered
  by the theorems, which hold for any number of interfaces; the handler treats the
  groups one after the other.
* VM hosts: the handler's run and the workers' runs of VMCompose overlap, so one
  handler suffices for two processes to race for the VM host, a subnet or the VM.
  The same properties hold with two handlers (3.75 million states, too slow to
  keep as a run).  Two incarnations let a worker take to the VM that followed its
  own; two networks let a composition fail between them.  One of them has sixteen
  addresses and a range before and one after those that the request keeps, so that a
  failure finds the first done and the second not; the other has four, at the end of
  the address space, where there is no range to post.  Every other network and bound is
  a matter of arithmetic and covered by the theorem `RangesAreRest`.  The incarnations
  are interchangeable, hence the symmetry set.
* CDI: two handlers are the smallest number that overlaps, two cards let one be
  added and the other removed.
* Exporter: two rounds overlap in every order; one target has two gauges, so that
  a switch can answer for one of its interfaces and not for the other.

Every bound is a constant of the configuration: `MaxSecond` bounds the clock
(`Tick`), `BackoffLimit` the retries; the system IDs of `MachineRegister` and
`VMHosts` are used up (`VMDelete` and `DeleteHost` wait for one to be left);
nothing else grows.

What the three violations show is described under findings below.

### What the passing runs exclude

A run that passes does so under the `Faults`, `Fails` and constants of its cfg.
These were tried, and violate the property named:

* `ReadyIsConfigured` excuses a machine that a worker has `deserted`: nothing in the
  code knows of it, and MachineShow says Ready.  It is violated with `lateStatus`
  (the worker is not yet counted as active).  `register_maas` leaves Cancel out, with
  which it, `BootLinksKept` and `ImplementsLifecycle` hold too (3.85 million states, too
  slow to keep), and MachineDelete, with which they hold as well (two systems, one
  second, one subnet, failing calls and workers that die: 1.93 million states); the
  theorems cover both.
* `BootLinksKept` excuses a machine that is `bereft`, which needs no fault: with
  `Faults = {}` two workers of one machine suffice, of which one reads the boot
  interface while the other has it disconnected; MachineShow says Ready and
  `ReadyIsConfigured` holds, as the request's own links are there.  `LoneWorkerRepairs`
  does not promise that registering the host again brings such a link back, because
  the code does not: only commissioning does.
* `WorkMeansProcessing` with MachineDelete: the worker's job is labelled with the
  deleted system.
* `CancelIsFinal` with `killLag` (a worker outlives its job for a while and
  commissions after the abort), with `ApiMayFail` (Cancel ignores the error) and
  with `BackoffLimit = 1` and workers that die: while a failed pod is replaced the
  job has Status.Active = 0, Cancel overlooks it, and its next pod works on.
* `RegisterLeavesJob` with `ApiMayFail`: RegisterWithInfo drops the error.
* `ReleasesUnassigned`, `UpdateTellsTags` with `Exclusive = FALSE`; the address
  properties when a release in the middle of an update's loop or the removal of a
  tag fails: all that was released keeps its tag.
* `ReadyVmIsLinked` when `mark_broken` itself fails or a worker dies after the
  commissioning, as for a registered machine; these are not among the faults of
  `VMHosts`.
* `RemovesAfterAdds` with `lateStatus`: the poll after the addition may be answered
  with the status from before it.  Without the premise `alone` it is violated too,
  and so is `LoneScalingDoes`: a handler acts on a machine it has looked at before
  another one changed it, or finds a modification that an abandoned scaling left
  under way.
* `NoGaugeForgotten` with `"lists"` in `Overlap`: of two rounds in ServerList at the
  same time, the later one overwrites the list of the other.

They are listed as hazards in `PROJECT.json`.

### Fairness

All of it is weak fairness, except where said.

* `FairSpec` of the job store: a handler goes on with its next API call, since it is
  straight-line code on a goroutine; Kubernetes enforces `ActiveDeadlineSeconds`
  and the TTL of a Job that has them set, which `NewK8sJobStore` does.  Nothing is
  asked of a worker: `pollingMachineStatus` has no limit of its own.
* `MFairSpec` adds that MAAS ends commissioning and testing somehow, that the Job
  controller works, and that a worker goes on, but without an obligation to leave a
  poll for which the status never comes.
* `FairSpec` of `CdiMachine`: a handler goes on; its waits are bounded by their
  timeout.  Nothing is asked of the manager, so `CallsEnd` holds even if it never
  carries anything out.
* `FairSpec` of `MetricsRounds`: the ticker ticks and a round goes on.  That only one
  round is in ServerList is not a lock of the code but an assumption on timing; a
  round that waits there would not wait in the code, hence strong fairness of
  `Compare`.

## 4. What is proved

Each theorem is for every value of the constants, under the named ASSUMEs of its
module and the conditions it states.  The invariants that carry the proofs were
first checked with TLC.

**JobStore.**  `TypeCorrect`, `PodsSafe`: `TypeOK` is inductive;
`PodsBelongToJobs` is inductive on top of it.  `CreateSafe`, `CancelCovers`, and
`CancelReaches` (which assumes `~ApiMayFail`): none of these is inductive, as what a handler may rely on at Create depends on what its two
Lists have excluded before.  `PassedChecks` is the strengthening: every standing
job still stands; after the first List none is of the same request, and at Create
there is none; at Delete all are on the list.  `StepKeepsChecks` treats the
handler's own steps, `OthersKeepChecks` those of everyone else: a job of another
handler can end up in the way, but `standing` only ever shrinks.  `RegisterLeaves`
(also under `~ApiMayFail`) needs the types only.

**MachineRegister.**  `StoreImplemented`: every step of the composition is a step of
the store or leaves it alone, whatever the faults; `ComposedStoreSafe` and, under
`~ApiMayFail`, `ComposedStoreReaches` carry the store's guarantees over by it, those
about its states and those about its steps.  `MachineTypeCorrect` is the type invariant.
`WorkIsProcessing` proves `WorkMeansProcessing` under `Orderly` (no `lateStatus`, no
`killLag`, no MachineDelete).  Its invariant `WorkInv` says why a worker is always
visible through its job: there is one system (`OneSystem`), jobs are labelled
with it (`JobsOfSystem`), and a worker that acts has a job counted as active
(`WorkersAreCounted`, which needs only `Prompt`: no `lateStatus` and no `killLag`) and
works on the system of the label (`WorkersAtHome`).

`CancelStops` proves `CancelIsFinal` under `StopsReach` (no `killLag`, no API error,
back-off limit 0 as in the chart).  `CancelInv`: a job that a Cancel is to stop
either has ended, or stands against it while it is still busy with the store
(`TargetsStand`), so when it accepts all have ended (`StoppedEnded`); a job that has
ended has no pod and its worker is off (`WorkersHavePods`).  `EndedStays` and
`StandingStays` say that the store keeps it so.

**RegisterRepairs.**  `LoneWorkersRepair` holds without a condition: `Linked` says
what the snapshot of a worker that is alone is still worth, interface by interface,
against the target that the worker has read, and `AtRest` that MAAS changes nothing by
itself meanwhile, as nobody but a worker has it commission.  It promises the links of
the request, and of the boot interface's own those the worker found: the ones that an
earlier worker's death has cost stay lost.  `ReadyConfigured` proves `ReadyIsConfigured` under `Prompt`,
with deletions and cancels at any moment.
Workers may run beside each other here, each from its own snapshot, so that no
single one accounts for the machine.  `MendInv` says that whatever is missing at a
Ready machine is still ahead of *some* worker (`LinksMended`, `NameMended`): one that
disconnects an interface another has linked takes it over, and one that links it
adds only what fits (`TargetsFit`: a target has the request's subnets and nothing but
those and MAAS' own; `WorkerTouches`); a machine that is
commissioned is `Attended` by the worker that asked for it.  When no job is counted
as active there is no such worker but one of another system's job, by
`WorkersAreCounted`, hence nothing is missing.

`BootLinksAreKept`, also under `Prompt`, proves `BootLinksKept`.  Here a single worker
must account for the links, since what one has disconnected another cannot know.
`BootInv`: at a machine that is not `bereft` there is one worker past its poll at most
(`Kind`), and it `Holds` MAAS' links of the boot interface: the interface has them or
the worker is about to link it to them again, and from its reading on they are in its
target.  With no such worker a machine that MAAS has commissioned has them.

`LifecycleImplemented`, also under `Prompt`: each step of the flow is, for every
system, one of `HostLifecycle` (`LifeStep`).  A machine appears by `Register` only and
without a name (`Appears`, `Unnamed`); nobody makes one Ready but MAAS, which ends a
test (`WorkerReadies`, `MachineRests`), so that Failed does not become Ready at once;
while a machine is shown Ready nobody is at it (`CountedMends`), so that it stays as
it is (`WorkerKeepsTo`); it becomes Ready configured by `ReadyConfigured`, and is
struck off the deserted ones configured (`LeavesRepaired`).

**HostAddresses.**  `AddressTypes` holds without conditions.  `NoAddressShared`,
`ConfiguredAreReserved`, `TagsKeepHome`, `UpdatesTellTags`, `OnlyUnassignedReleased`,
`NothingElseLeaks` and `PoolImplemented` hold under `Benign`: one operation at a time
per host, and the calls that give an address or a tag back do not fail half-way.
The invariant `AddressInv` is about ownership: an interface *owns* its addresses
and those its tags name, other than tags that a handler is about to remove.  An
address has one owner (`OwnedOnce`), is reserved (`OwnedIsReserved`), and what a
handler has reserved is owned by nobody and by no other handler (`FreshIsOwn`);
`OneEach` and `OwnNics` keep handlers apart, `Progress` says how far one has got.
The lemma of each action then shows who owns what afterwards.  Leaks follow from
`NoneHeld` besides: only the end of a handler can drop an address.

**VMHosts.**  `VMTypeCorrect`; `ReleasedUnhosted` by `HostInv` (a handler that holds
the ID of a VM host still has one); `HalfDoneOwned` by `OwnedInv`; `ReadyIsLinked` by
`LinkInv`: there is one VM at a time (`OneVM`); jobs and processes are about VMs that
MAAS has known, and a worker is at its own as long as that exists (`Born`);
interfaces are linked only after the commissioning that erases links
(`AfterCommissioning`); an interface without its link is still ahead of every worker
that has read the list, or in the hands of one (`Ahead`), and a job that succeeds
leaves none that is not (`LeftBehind`).  All hold for every set of faults.

**CdiMachine.**  `CdiTypeCorrect` for all faults; `RemovalsWait`
and `LoneScalingCorrect` without `lateStatus`, by an invariant of a scaling that is
alone (`AloneInv`): the cards differ from the goal by what it has still to do.

**MetricsRounds.**  `RoundsTypeCorrect`; `GaugesFound` if no two rounds are in
ServerList at the same time; so does `LoneRoundRepairs`, which rests on the same
invariant: only rounds that overlap while they collect leave nothing behind that a lone
round would not find.

**SubnetRanges.**  `RangesAreRest`: for networks of any size and addresses of any
width, the ranges are exactly the usable addresses that the request does not keep,
none is empty, no two overlap and nothing wraps.  `RangesImplementVMHosts`: a pass of
the loop is a stutter of `VMHosts` unless it is the last or fails, so that the four
theorems about `VMSpec` hold of `RangesSpec`, which is the specification that
`vmhosts_release` runs.  `RangesSpareKept` proves `SubnetsKeepTheRange`: MAAS has only
ranges of the request's complement, and lacks one only as long as the process that
made the subnet is in its loop or if it left it there.

**Only model-checked.**  Liveness (`JobsFinish`, `FilterClears`, `Settles`,
`CallsEnd`, `RemovedGaugesGo`, `AnsweredIsShown`): fairness and ENABLED are out of the
prover's reach.  All safety properties of the passing runs are proved.

## 5. Findings

* `RegisterStartsJob` (k8s_job_store.go:94): a succeeded job of the same request
  makes Register return without a job until its TTL ends, so a request repeated
  within ten minutes is accepted and never run.
* `ShowIsAtomic` (canonical_maas_controller.go:1722): MachineShow reads the
  status before it asks for the jobs; a worker that fails in between makes it
  reply Ready for a machine that was at no moment Ready without a job.
* `ReleasesUnassigned` (canonical_maas_controller.go:2075): the address is
  released before its tag is removed.  If the removal fails, another host may get
  the address, and the next update or release of the first one releases it again
  although it is in use.  Removing the tag first would turn this into a leak.

## 6. Not modelled, and why

* MaaS controller: the deployed hosts' branch of getReadyStatus (SSH and
  cloud-init probes: reads only); KubeadmJoin and KubeadmReset (one playbook each
  behind the job store's checks, which `JobStore` has); MachineList, PowerON/OFF
  (single calls).  In `MachineRegister`, one createSubnetAndIPRange is one step, which
  ends with the subnet there or the machine marked broken (its fabric, ranges and
  half-done ends are the subject of `VMHosts` and `SubnetRanges`); all requests for
  a host name the same interfaces and subnets, as repetitions of one request do, so
  that `Configured` has one meaning.  In `VMHosts`, the fabric that createSubnetAndIPRange leaves
  behind when the POST of its subnet fails, and the two-hour `asyncCtx`, which does
  not bound the poll.  In `AddressRange`, inputs the code does not validate: bounds
  in reverse order or outside of the network, IPv6, prefixes above 32.
* CDI: the replies of MachineShow, ResourceList and ResourceShow, the mapping of
  models, the parsing of extra parameters, and an Ansible client that is killed while
  the wrapper on the manager goes on.  A request that names one card both to add and
  to remove is left out (`BeginScaling`): the code does not refuse it, but it has no
  goal that a property could speak of.  That a machine is off when it is destroyed
  is *not* a property of this code, and none is stated: the destroy command is also
  sent when the waits have timed out, and nothing keeps the machine from being
  powered on between the last poll and the command.
* Exporter: the P2P settings after a boot (`SetP2POn`), one sequential goroutine
  whose effect, a setting of the CDI manager, nothing else here reads.  Its
  weaknesses are listed as hazards: a server that cannot be read once counts as
  booted afterwards, a failed attempt is recorded as done, gauges of servers that
  are gone stay.
* Log collector: rounds without a memory.  That the CDI collection returns at the
  first target that fails, while the IPMI collection goes on, is listed as a hazard.
* Network controller: one playbook per operation and no state.
* common, chart, generated code (a large part of the repository's Go lines), clients:
  data types, values, no behaviour.

## 7. Plan

Done so far: the job store, the registration, addresses, VM hosts, the CDI machine
and the exporter's rounds, each with its run and its theorems.  Next, in order:

1. `P2PControl`: re-activation after boots, with the previous list as its only
   memory.
2. KubeadmJoin and KubeadmReset as a second user of `JobStore` with the same
   machine: what a join and a reset that overlap leave.
