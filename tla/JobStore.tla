------------------------------ MODULE JobStore ------------------------------
(***************************************************************************)
(* The asynchronous job store of the MaaS controller: K8sJobStore with the *)
(* JobManager in front of it                                               *)
(* (src/maas/internal/server/implementation/async_job).                    *)
(*                                                                         *)
(* gRPC handlers run concurrently, and none of the store's operations is   *)
(* atomic: Register issues two List calls and one Create to the Kubernetes *)
(* API, Cancel issues two Lists and one Delete per job.  Each API call is  *)
(* an action.  Kubernetes' Job controller (pods, status updates, back-off, *)
(* deadline, TTL) is external; it is modelled by what the Job object that  *)
(* Register builds asks of it.                                             *)
(***************************************************************************)
EXTENDS Naturals, FiniteSets

CONSTANTS
    Call,          \* handler goroutines that use the store at the same time
    Request,       \* distinct requests; a request determines its request ID
    SystemOf,      \* SystemOf[r]: the system ID request r is registered under
    TypeOf,        \* TypeOf[r]: machine_register, vm_compose or kubeadm_join
    MaxSecond,     \* bound on the clock that job names are stamped with
    BackoffLimit,  \* K8S_JOB_BACKOFF_LIMIT
    ApiMayFail     \* whether a call to the Kubernetes API may return an error

ASSUME ConstantsAssumption ==
    /\ Request # {}
    /\ MaxSecond \in Nat
    /\ BackoffLimit \in Nat
    /\ ApiMayFail \in BOOLEAN
    /\ DOMAIN SystemOf = Request
    /\ DOMAIN TypeOf = Request

Second == 0..MaxSecond

\* GenerateK8sJobName: a job's name is made of the job type, the system ID, the
\* Unix second and a hash of the request ID, so of the request and the second.
Name == Request \X Second

VARIABLES
    now,       \* the Unix second, as GenerateK8sJobName reads it
    job,       \* job[n]: the Job object's status as a List call returns it
    pod,       \* pod[n]: the job's worker pod, of which the status lags behind
    retries,   \* retries[n]: failed pods of the job that were replaced
    pc,        \* pc[c]: the API call that handler c issues next
    arg,       \* arg[c]: the request c registers, or one of the system c cancels
    todo,      \* todo[c]: the active jobs a Cancel listed and still has to delete
    standing   \* standing[c]: history variable, see Stands

jobVars == <<job, pod, retries>>
vars    == <<now, job, pod, retries, pc, arg, todo, standing>>

-----------------------------------------------------------------------------
\* A Job without a counted pod (Status.Active and Succeeded both 0), one with
\* Active > 0, one with Succeeded > 0, and one that failed.
JobStatus == {"absent", "pending", "active", "succeeded", "failed"}
PodStatus == {"none", "running", "ok", "error"}

RegisterPC == {"listByRequest", "listActive", "create"}
CancelPC   == {"hasJob", "listCancel", "delete"}

SameSystem(r, n) == SystemOf[n[1]] = SystemOf[r]
SameType(r, n)   == SameSystem(r, n) /\ TypeOf[n[1]] = TypeOf[r]
Unfinished(n)    == job[n] \in {"pending", "active"}

\* The jobs of a system with Status.Active > 0: what HasJob and Cancel look for.
ActiveJobs(r) == {n \in Name : SameSystem(r, n) /\ job[n] = "active"}
HasJob(r)     == ActiveJobs(r) # {}

\* Mutant of RequestKnown: succeeded jobs no longer count as duplicates.
RequestKnown_activeOnly(r) == \E n \in Name : n[1] = r /\ job[n] = "active"

\* Mutant of TypeActive: the label selector lacks the job type.
TypeActive_anyType(r) == \E n \in Name : SameSystem(r, n) /\ job[n] = "active"

\* hasActiveOrSucceededJobByRequestID and hasActiveJob.
RequestKnown(r) == \E n \in Name : n[1] = r /\ job[n] \in {"active", "succeeded"}
TypeActive(r)   == \E n \in Name : SameType(r, n) /\ job[n] = "active"

\* Job n makes a registration of r redundant; a cancel of r's system concerns n.
BlocksRegister(r, n) ==
    \/ n[1] = r /\ job[n] \in {"active", "succeeded"}
    \/ SameType(r, n) /\ job[n] = "active"
ConcernsCancel(r, n) == SameSystem(r, n) /\ job[n] = "active"

\* standing[c] is the set of jobs that have concerned the operation of handler c
\* at every moment since it began.
Stands(c, n) ==
    \/ pc[c] \in RegisterPC /\ BlocksRegister(arg[c], n)
    \/ pc[c] \in CancelPC   /\ ConcernsCancel(arg[c], n)
KeepStanding ==
    standing' = [c \in Call |-> {n \in standing[c] : Stands(c, n)'}]

-----------------------------------------------------------------------------
Init ==
    /\ now = 0
    /\ job = [n \in Name |-> "absent"]
    /\ pod = [n \in Name |-> "none"]
    /\ retries = [n \in Name |-> 0]
    /\ pc = [c \in Call |-> "idle"]
    /\ arg = [c \in Call |-> CHOOSE r \in Request : TRUE]
    /\ todo = [c \in Call |-> {}]
    /\ standing = [c \in Call |-> {}]

\* Handler c goes on to the API call l, or back to its caller when l is "idle".
Goto(c, l) == pc' = [pc EXCEPT ![c] = l]

\* JobManager.RegisterWithInfo, called by MachineRegister, VMCompose and
\* KubeadmJoin in server mode.
BeginRegister(c, r) ==
    /\ pc[c] = "idle"
    /\ Goto(c, "listByRequest")
    /\ arg' = [arg EXCEPT ![c] = r]
    /\ standing' = [standing EXCEPT ![c] = {n \in Name : BlocksRegister(r, n)}]
    /\ UNCHANGED <<now, jobVars, todo>>

\* The first List of Register: a job of this request that is active or has
\* succeeded ends the registration with no job created and no error.
ListByRequest(c) ==
    /\ pc[c] = "listByRequest"
    /\ Goto(c, IF RequestKnown(arg[c]) THEN "idle" ELSE "listActive")
    /\ UNCHANGED <<now, jobVars, arg, todo>>
    /\ KeepStanding

\* Mutant of ListActive: the check for an active job is left out.
ListActive_unchecked(c) ==
    /\ pc[c] = "listActive"
    /\ Goto(c, "create")
    /\ UNCHANGED <<now, jobVars, arg, todo>>
    /\ KeepStanding

\* The second List of Register: so does any active job of the same type.
ListActive(c) ==
    /\ pc[c] = "listActive"
    /\ Goto(c, IF TypeActive(arg[c]) THEN "idle" ELSE "create")
    /\ UNCHANGED <<now, jobVars, arg, todo>>
    /\ KeepStanding

\* Create; AlreadyExists (same request, same second) counts as success.
Create(c) ==
    /\ pc[c] = "create"
    /\ LET n == <<arg[c], now>> IN
         /\ job' = [job EXCEPT ![n] = IF job[n] = "absent" THEN "pending" ELSE @]
         /\ UNCHANGED <<pod, retries>>
    /\ Goto(c, "idle")
    /\ UNCHANGED <<now, arg, todo>>
    /\ KeepStanding

\* The job part of the Cancel handler: HasProcessingJob, then CancelJobs.
BeginCancel(c, r) ==
    /\ pc[c] = "idle"
    /\ Goto(c, "hasJob")
    /\ arg' = [arg EXCEPT ![c] = r]
    /\ standing' = [standing EXCEPT ![c] = {n \in Name : ConcernsCancel(r, n)}]
    /\ UNCHANGED <<now, jobVars, todo>>

CheckHasJob(c) ==
    /\ pc[c] = "hasJob"
    /\ Goto(c, IF HasJob(arg[c]) THEN "listCancel" ELSE "idle")
    /\ UNCHANGED <<now, jobVars, arg, todo>>
    /\ KeepStanding

\* Mutant of ListCancel: only jobs of one type are listed.
ListCancel_oneType(c) ==
    LET found == {n \in ActiveJobs(arg[c]) : SameType(arg[c], n)} IN
    /\ pc[c] = "listCancel"
    /\ todo' = [todo EXCEPT ![c] = found]
    /\ Goto(c, IF found = {} THEN "idle" ELSE "delete")
    /\ UNCHANGED <<now, jobVars, arg>>
    /\ KeepStanding

\* The List of Cancel; jobs with Status.Active = 0 are skipped.
ListCancel(c) ==
    /\ pc[c] = "listCancel"
    /\ todo' = [todo EXCEPT ![c] = ActiveJobs(arg[c])]
    /\ Goto(c, IF ActiveJobs(arg[c]) = {} THEN "idle" ELSE "delete")
    /\ UNCHANGED <<now, jobVars, arg>>
    /\ KeepStanding

\* Mutant of Delete: without a propagation policy the pods stay behind.
Delete_orphaning(c) ==
    /\ pc[c] = "delete"
    /\ \E n \in todo[c] :
         /\ job' = [job EXCEPT ![n] = "absent"]
         /\ todo' = [todo EXCEPT ![c] = @ \ {n}]
         /\ Goto(c, IF todo[c] = {n} THEN "idle" ELSE "delete")
    /\ UNCHANGED <<now, pod, retries, arg>>
    /\ KeepStanding

\* Mutant of Delete: Cancel returns after the first job.
Delete_firstOnly(c) ==
    /\ pc[c] = "delete"
    /\ \E n \in todo[c] :
         /\ job' = [job EXCEPT ![n] = "absent"]
         /\ pod' = [pod EXCEPT ![n] = "none"]
         /\ retries' = [retries EXCEPT ![n] = 0]
    /\ todo' = [todo EXCEPT ![c] = {}]
    /\ Goto(c, "idle")
    /\ UNCHANGED <<now, arg>>
    /\ KeepStanding

\* One Delete of Cancel.  The job is deleted by name whatever became of it since
\* the List; NotFound counts as success.
Delete(c) ==
    /\ pc[c] = "delete"
    /\ \E n \in todo[c] :
         /\ job' = [job EXCEPT ![n] = "absent"]
         /\ pod' = [pod EXCEPT ![n] = "none"]
         /\ retries' = [retries EXCEPT ![n] = 0]
         /\ todo' = [todo EXCEPT ![c] = @ \ {n}]
         /\ Goto(c, IF todo[c] = {n} THEN "idle" ELSE "delete")
    /\ UNCHANGED <<now, arg>>
    /\ KeepStanding

\* The API call fails.  Register and Cancel return the error, which the
\* JobManager (Register) or the Cancel handler drops; a failed List in HasJob
\* reads as "no job".
ApiError(c) ==
    /\ ApiMayFail
    /\ pc[c] # "idle"
    /\ Goto(c, "idle")
    /\ todo' = [todo EXCEPT ![c] = {}]
    /\ UNCHANGED <<now, jobVars, arg>>
    /\ KeepStanding

-----------------------------------------------------------------------------
\* Kubernetes.  SetJob(n, j, p): the job's status becomes j and its pod p.
SetJob(n, j, p) ==
    /\ job' = [job EXCEPT ![n] = j]
    /\ pod' = [pod EXCEPT ![n] = p]
    /\ UNCHANGED <<now, pc, arg, todo>>
    /\ KeepStanding

StartPod(n) ==
    /\ Unfinished(n) /\ pod[n] = "none"
    /\ SetJob(n, job[n], "running")
    /\ UNCHANGED retries

\* The status update that makes the running pod visible in Status.Active.
CountActive(n) ==
    /\ job[n] = "pending" /\ pod[n] = "running"
    /\ SetJob(n, "active", "running")
    /\ UNCHANGED retries

\* The worker process ends; runWorkerJob's error becomes exit code 1.
PodExits(n) ==
    /\ pod[n] = "running"
    /\ \E p \in {"ok", "error"} : SetJob(n, job[n], p)
    /\ UNCHANGED retries

JobSucceeds(n) ==
    /\ pod[n] = "ok"
    /\ SetJob(n, "succeeded", "none")
    /\ UNCHANGED retries

\* Mutant of ReplacePod: one replacement too many.
ReplacePod_onceMore(n) ==
    /\ pod[n] = "error" /\ retries[n] <= BackoffLimit
    /\ SetJob(n, "pending", "none")
    /\ retries' = [retries EXCEPT ![n] = @ + 1]

\* Spec.BackoffLimit: a failed pod is replaced that many times.
ReplacePod(n) ==
    /\ pod[n] = "error" /\ retries[n] < BackoffLimit
    /\ SetJob(n, "pending", "none")
    /\ retries' = [retries EXCEPT ![n] = @ + 1]

JobFails(n) ==
    /\ pod[n] = "error" /\ retries[n] = BackoffLimit
    /\ SetJob(n, "failed", "none")
    /\ UNCHANGED retries

\* Mutants of DeadlineExceeded and Expire: the Job object sets no deadline or no TTL.
DeadlineExceeded_unset(n) == FALSE
Expire_unset(n) == FALSE

\* Spec.ActiveDeadlineSeconds: the job fails however its pod is doing.
DeadlineExceeded(n) ==
    /\ Unfinished(n)
    /\ SetJob(n, "failed", "none")
    /\ UNCHANGED retries

\* Spec.TTLSecondsAfterFinished.
Expire(n) ==
    /\ job[n] \in {"succeeded", "failed"}
    /\ SetJob(n, "absent", "none")
    /\ retries' = [retries EXCEPT ![n] = 0]

Tick ==
    /\ now < MaxSecond
    /\ now' = now + 1
    /\ UNCHANGED <<jobVars, pc, arg, todo, standing>>

-----------------------------------------------------------------------------
Begin(c)    == \E r \in Request : BeginRegister(c, r) \/ BeginCancel(c, r)
Continue(c) == \/ ListByRequest(c) \/ ListActive(c) \/ Create(c)
               \/ CheckHasJob(c) \/ ListCancel(c) \/ Delete(c)
               \/ ApiError(c)
Control(n)  == \/ StartPod(n) \/ CountActive(n)
               \/ JobSucceeds(n) \/ ReplacePod(n) \/ JobFails(n)
               \/ DeadlineExceeded(n) \/ Expire(n)

Next ==
    \/ \E c \in Call : Begin(c) \/ Continue(c)
    \/ \E n \in Name : Control(n) \/ PodExits(n)
    \/ Tick

\* A handler that began goes on; Kubernetes' controllers keep reconciling, the
\* deadline and the TTL included.  A worker need not end by itself, since
\* pollingMachineStatus has no limit of its own, and clients need not call.
Fairness ==
    /\ \A c \in Call : WF_vars(Continue(c))
    /\ \A n \in Name : /\ WF_vars(DeadlineExceeded(n))
                       /\ WF_vars(Expire(n))

Spec     == Init /\ [][Next]_vars
FairSpec == Spec /\ Fairness

-----------------------------------------------------------------------------
\* Type invariant of the store, its calls and the jobs.
TypeOK ==
    /\ now \in Second
    /\ job \in [Name -> JobStatus]
    /\ pod \in [Name -> PodStatus]
    /\ retries \in [Name -> 0..BackoffLimit]
    /\ pc \in [Call -> {"idle"} \cup RegisterPC \cup CancelPC]
    /\ arg \in [Call -> Request]
    /\ todo \in [Call -> SUBSET Name]
    /\ standing \in [Call -> SUBSET Name]

\* A job has a pod only while it is unfinished, an active job has one, and a
\* name no job carries is clean: a Delete by a stale name, a deadline or an
\* expiry never leaves a pod or a retry count to a later job of that name.
PodsBelongToJobs ==
    \A n \in Name :
        /\ pod[n] # "none" => Unfinished(n)
        /\ job[n] = "active" => pod[n] # "none"
        /\ job[n] = "absent" => retries[n] = 0

\* However the two Lists of Register interleave with other handlers and with
\* status updates, a handler that got as far as Create has nothing standing in
\* its way: no job of its type active, and none of its request active or
\* succeeded, all the time since it began.
NothingStandsAtCreate ==
    \A c \in Call : pc[c] = "create" => standing[c] = {}

\* A Cancel has listed every job that has been active since it began: what it
\* still has to delete covers all of them.
CancelCoversStanding ==
    \A c \in Call : pc[c] = "delete" => standing[c] \subseteq todo[c]

\* When the store's Cancel returns, every job that has been active since the
\* handler began is no longer active ("Cancel terminates active jobs for the
\* given systemID").
CancelTerminates ==
    [][\A c \in Call : pc[c] \in CancelPC /\ pc'[c] = "idle" =>
         \A n \in standing[c] : job'[n] # "active"]_vars

\* Every job finishes: ActiveDeadlineSeconds bounds a worker that polls for ever.
JobsFinish == \A n \in Name : Unfinished(n) ~> ~Unfinished(n)

\* The filter on request IDs never refuses a request for ever: the jobs it finds
\* end by the deadline and disappear by the TTL.
FilterClears == \A r \in Request : RequestKnown(r) ~> ~RequestKnown(r)

\* A registration that returns leaves a job of its system and type behind, its own
\* or the one that made it redundant.  It holds as long as the API calls succeed:
\* RegisterWithInfo drops the error of a Register that created nothing.
RegisterLeavesJob ==
    [][\A c \in Call : pc[c] \in RegisterPC /\ pc'[c] = "idle" =>
         \E n \in Name : SameType(arg[c], n) /\ job'[n] # "absent"]_vars

\* "RegisterWithInfo registers a new in-progress job with additional metadata"
\* (job_manager.go): a registration that ends as a duplicate, at one of its two
\* Lists, leaves a job of that system and type in progress.
RegisterStartsJob ==
    [][\A c \in Call : pc[c] \in RegisterPC \ {"create"} /\ pc'[c] = "idle" =>
         \E n \in Name : SameType(arg[c], n) /\ Unfinished(n)']_vars

=============================================================================
