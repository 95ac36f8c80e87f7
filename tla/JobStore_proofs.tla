--------------------------- MODULE JobStore_proofs ---------------------------
(***************************************************************************)
(* Theorems about JobStore, for any number of handlers, requests, systems  *)
(* and seconds and any back-off limit.                                     *)
(***************************************************************************)
EXTENDS JobStore, TLAPS

USE DEF Second, Name

-----------------------------------------------------------------------------
(* Type correctness *)

LEMMA KeepStandingType ==
    ASSUME TypeOK, KeepStanding
    PROVE  standing' \in [Call -> SUBSET Name]
BY DEF TypeOK, KeepStanding

LEMMA HandlerType ==
    ASSUME TypeOK, NEW c \in Call, Continue(c)
    PROVE  TypeOK'
<1> USE ConstantsAssumption, KeepStandingType
    DEF TypeOK, RegisterPC, CancelPC, JobStatus, PodStatus, Goto, jobVars
<1>1. CASE ListByRequest(c)
  BY <1>1 DEF ListByRequest
<1>2. CASE ListActive(c)
  BY <1>2 DEF ListActive
<1>3. CASE Create(c)
  BY <1>3 DEF Create
<1>4. CASE CheckHasJob(c)
  BY <1>4 DEF CheckHasJob
<1>5. CASE ListCancel(c)
  BY <1>5 DEF ListCancel, ActiveJobs
<1>6. CASE Delete(c)
  BY <1>6 DEF Delete
<1>7. CASE ApiError(c)
  BY <1>7 DEF ApiError
<1>8. QED
  BY <1>1, <1>2, <1>3, <1>4, <1>5, <1>6, <1>7 DEF Continue

LEMMA ControlType ==
    ASSUME TypeOK, NEW n \in Name, Control(n) \/ PodExits(n)
    PROVE  TypeOK'
<1> USE ConstantsAssumption, KeepStandingType
    DEF TypeOK, JobStatus, PodStatus, SetJob
<1>1. CASE StartPod(n)
  BY <1>1 DEF StartPod
<1>2. CASE CountActive(n)
  BY <1>2 DEF CountActive
<1>3. CASE PodExits(n)
  BY <1>3 DEF PodExits
<1>4. CASE JobSucceeds(n)
  BY <1>4 DEF JobSucceeds
<1>5. CASE ReplacePod(n)
  BY <1>5 DEF ReplacePod
<1>6. CASE JobFails(n)
  BY <1>6 DEF JobFails
<1>7. CASE DeadlineExceeded(n)
  BY <1>7 DEF DeadlineExceeded
<1>8. CASE Expire(n)
  BY <1>8 DEF Expire
<1>9. QED
  BY <1>1, <1>2, <1>3, <1>4, <1>5, <1>6, <1>7, <1>8 DEF Control

\* The types of the job store are kept by every step.
THEOREM TypeCorrect == Spec => []TypeOK
<1>1. Init => TypeOK
  BY ConstantsAssumption
     DEF Init, TypeOK, JobStatus, PodStatus, RegisterPC, CancelPC
<1>2. TypeOK /\ [Next]_vars => TypeOK'
  <2> SUFFICES ASSUME TypeOK, [Next]_vars PROVE TypeOK'
    OBVIOUS
  <2>1. ASSUME NEW c \in Call, NEW r \in Request, BeginRegister(c, r)
        PROVE  TypeOK'
    BY <2>1 DEF TypeOK, BeginRegister, Goto, RegisterPC, jobVars
  <2>2. ASSUME NEW c \in Call, NEW r \in Request, BeginCancel(c, r)
        PROVE  TypeOK'
    BY <2>2 DEF TypeOK, BeginCancel, Goto, CancelPC, jobVars
  <2>3. CASE Tick
    BY <2>3, ConstantsAssumption DEF TypeOK, Tick, jobVars
  <2>4. CASE UNCHANGED vars
    BY <2>4 DEF TypeOK, vars
  <2>5. QED
    BY <2>1, <2>2, <2>3, <2>4, HandlerType, ControlType DEF Next, Begin
<1>3. QED
  BY <1>1, <1>2, PTL DEF Spec

-----------------------------------------------------------------------------
(* Jobs and their pods *)

\* No step of a handler or of Kubernetes leaves a pod or a retry count to a job
\* name that has none to carry (PodsBelongToJobs).
THEOREM PodsSafe == Spec => []PodsBelongToJobs
<1>1. Init => PodsBelongToJobs
  BY DEF Init, PodsBelongToJobs
<1>2. TypeOK /\ PodsBelongToJobs /\ [Next]_vars => PodsBelongToJobs'
  <2> SUFFICES ASSUME TypeOK, PodsBelongToJobs, [Next]_vars
               PROVE  PodsBelongToJobs'
    OBVIOUS
  <2> USE DEF PodsBelongToJobs, Unfinished, TypeOK, jobVars
  <2>1. ASSUME NEW c \in Call, Begin(c)
        PROVE  PodsBelongToJobs'
    BY <2>1 DEF Begin, BeginRegister, BeginCancel
  <2>2. ASSUME NEW c \in Call, Create(c)
        PROVE  PodsBelongToJobs'
    BY <2>2 DEF Create
  <2>3. ASSUME NEW c \in Call, Delete(c)
        PROVE  PodsBelongToJobs'
    BY <2>3 DEF Delete
  <2>4. ASSUME NEW c \in Call, Continue(c), ~Create(c), ~Delete(c)
        PROVE  PodsBelongToJobs'
    BY <2>4 DEF Continue, ListByRequest, ListActive, CheckHasJob, ListCancel,
                ApiError
  <2>5. ASSUME NEW n \in Name, StartPod(n) \/ CountActive(n) \/ PodExits(n)
        PROVE  PodsBelongToJobs'
    BY <2>5 DEF StartPod, CountActive, PodExits, SetJob
  <2>6. ASSUME NEW n \in Name, JobSucceeds(n) \/ ReplacePod(n) \/ JobFails(n)
        PROVE  PodsBelongToJobs'
    BY <2>6 DEF JobSucceeds, ReplacePod, JobFails, SetJob
  <2>7. ASSUME NEW n \in Name, DeadlineExceeded(n) \/ Expire(n)
        PROVE  PodsBelongToJobs'
    BY <2>7 DEF DeadlineExceeded, Expire, SetJob
  <2>8. CASE Tick \/ UNCHANGED vars
    BY <2>8 DEF Tick, vars
  <2>9. QED
    BY <2>1, <2>2, <2>3, <2>4, <2>5, <2>6, <2>7, <2>8 DEF Next, Control
<1>3. QED
  BY <1>1, <1>2, TypeCorrect, PTL DEF Spec

-----------------------------------------------------------------------------
(* What the non-atomic operations guarantee *)

\* What is known of the jobs standing against a call between its API requests:
\* they still stand, the first List of Register has excluded those of the same
\* request and the second all others, and Cancel's List has collected all.
PassedChecks ==
    \A c \in Call : \A n \in standing[c] :
        /\ Stands(c, n)
        /\ pc[c] = "listActive" => n[1] # arg[c]
        /\ pc[c] # "create"
        /\ pc[c] = "delete" => n \in todo[c]

\* A step that does not touch the state of handler c keeps what is known of it:
\* its standing jobs can only become fewer.
LEMMA OthersKeepChecks ==
    ASSUME TypeOK, PassedChecks, NEW c \in Call, KeepStanding,
           pc'[c] = pc[c], arg'[c] = arg[c], todo'[c] = todo[c],
           NEW n \in standing'[c]
    PROVE  /\ Stands(c, n)'
           /\ pc'[c] = "listActive" => n[1] # arg'[c]
           /\ pc'[c] # "create"
           /\ pc'[c] = "delete" => n \in todo'[c]
<1>1. n \in standing[c] /\ Stands(c, n)'
  BY DEF KeepStanding
<1>2. QED
  BY <1>1 DEF PassedChecks

\* The handler's own steps.
LEMMA StepKeepsChecks ==
    ASSUME TypeOK, PassedChecks, NEW c \in Call, Continue(c)
    PROVE  PassedChecks'
<1>1. KeepStanding
  BY DEF Continue, ListByRequest, ListActive, Create, CheckHasJob, ListCancel,
         Delete, ApiError
<1>2. ASSUME NEW d \in Call, d # c
      PROVE  pc'[d] = pc[d] /\ arg'[d] = arg[d] /\ todo'[d] = todo[d]
  BY <1>2 DEF TypeOK, Continue, ListByRequest, ListActive, Create, CheckHasJob,
         ListCancel, Delete, ApiError, Goto
<1>3. ASSUME NEW n \in standing'[c]
      PROVE  /\ Stands(c, n)'
             /\ pc'[c] = "listActive" => n[1] # arg'[c]
             /\ pc'[c] # "create"
             /\ pc'[c] = "delete" => n \in todo'[c]
  <2>1. /\ n \in standing[c]
        /\ Stands(c, n)
        /\ Stands(c, n)'
    BY <1>1, <1>3 DEF KeepStanding, PassedChecks
  <2>2. /\ n \in Name
        /\ pc[c] = "listActive" => n[1] # arg[c]
        /\ pc[c] = "delete" => n \in todo[c]
    BY <2>1 DEF TypeOK, PassedChecks
  <2> USE DEF TypeOK, Goto, Stands, RegisterPC, CancelPC
  <2>3. CASE ListByRequest(c)
    BY <2>1, <2>2, <2>3
       DEF ListByRequest, RequestKnown, BlocksRegister, jobVars
  <2>4. CASE ListActive(c)
    BY <2>1, <2>2, <2>4
       DEF ListActive, TypeActive, BlocksRegister, jobVars
  <2>5. CASE Create(c) \/ CheckHasJob(c) \/ ApiError(c)
    BY <2>1, <2>2, <2>5 DEF Create, CheckHasJob, ApiError
  <2>6. CASE ListCancel(c)
    BY <2>1, <2>2, <2>6 DEF ListCancel, ActiveJobs, ConcernsCancel
  <2>7. CASE Delete(c)
    BY <2>1, <2>2, <2>7 DEF Delete, ConcernsCancel
  <2>8. QED
    BY <2>3, <2>4, <2>5, <2>6, <2>7 DEF Continue
<1>4. QED
  BY <1>1, <1>2, <1>3, OthersKeepChecks DEF PassedChecks

\* The strengthening is inductive.
LEMMA ChecksInductive ==
    TypeOK /\ PassedChecks /\ [Next]_vars => PassedChecks'
<1> SUFFICES ASSUME TypeOK, PassedChecks, [Next]_vars
             PROVE  PassedChecks'
  OBVIOUS
<1>1. ASSUME NEW c \in Call, NEW r \in Request,
             BeginRegister(c, r) \/ BeginCancel(c, r)
      PROVE  PassedChecks'
  BY <1>1 DEF PassedChecks, TypeOK, BeginRegister, BeginCancel, Goto, Stands,
              BlocksRegister, ConcernsCancel, RegisterPC, CancelPC, jobVars
<1>2. ASSUME NEW n \in Name, Control(n) \/ PodExits(n)
      PROVE  PassedChecks'
  <2>1. KeepStanding /\ UNCHANGED <<pc, arg, todo>>
    BY <1>2 DEF Control, PodExits, StartPod, CountActive, JobSucceeds,
                ReplacePod, JobFails, DeadlineExceeded, Expire, SetJob
  <2>2. QED
    BY <2>1, OthersKeepChecks DEF PassedChecks
<1>3. CASE Tick \/ UNCHANGED vars
  BY <1>3 DEF PassedChecks, Tick, vars, jobVars, Stands, BlocksRegister,
              ConcernsCancel
<1>4. QED
  BY <1>1, <1>2, <1>3, StepKeepsChecks DEF Next, Begin

LEMMA ChecksInvariant == Spec => []PassedChecks
<1>1. Init => PassedChecks
  BY DEF Init, PassedChecks
<1>2. QED
  BY <1>1, ChecksInductive, TypeCorrect, PTL DEF Spec

\* Nothing stands in the way of a handler about to Create.
THEOREM CreateSafe == Spec => []NothingStandsAtCreate
<1>1. TypeOK /\ PassedChecks => NothingStandsAtCreate
  BY DEF TypeOK, PassedChecks, NothingStandsAtCreate
<1>2. QED
  BY <1>1, ChecksInvariant, TypeCorrect, PTL

\* A Cancel that deletes has all the jobs on its list that it must reach.
THEOREM CancelCovers == Spec => []CancelCoversStanding
<1>1. TypeOK /\ PassedChecks => CancelCoversStanding
  BY DEF TypeOK, PassedChecks, CancelCoversStanding
<1>2. QED
  BY <1>1, ChecksInvariant, TypeCorrect, PTL

\* As long as no API call fails, a Cancel that returns has terminated every job
\* that was active since it began.
THEOREM CancelReaches == ASSUME ~ApiMayFail PROVE Spec => CancelTerminates
<1>1. TypeOK /\ PassedChecks /\ [Next]_vars =>
        [\A c \in Call : pc[c] \in CancelPC /\ pc'[c] = "idle" =>
           \A n \in standing[c] : job'[n] # "active"]_vars
  <2> SUFFICES ASSUME TypeOK, PassedChecks, Next,
                      NEW c \in Call, pc[c] \in CancelPC, pc'[c] = "idle",
                      NEW n \in standing[c]
               PROVE  job'[n] # "active"
    BY DEF vars
  <2>1. n \in Name /\ ConcernsCancel(arg[c], n) /\ (pc[c] = "delete" => n \in todo[c])
    BY DEF TypeOK, PassedChecks, Stands, CancelPC, RegisterPC
  <2>2. CheckHasJob(c) \/ ListCancel(c) \/ Delete(c)
    <3>1. ASSUME NEW d \in Call, NEW r \in Request,
                 BeginRegister(d, r) \/ BeginCancel(d, r)
          PROVE  FALSE
      BY <3>1 DEF TypeOK, BeginRegister, BeginCancel, Goto, CancelPC
    <3>2. ASSUME NEW m \in Name, Control(m) \/ PodExits(m)
          PROVE  FALSE
      BY <3>2 DEF Control, PodExits, StartPod, CountActive, JobSucceeds, ReplacePod,
                  JobFails, DeadlineExceeded, Expire, SetJob, CancelPC
    <3>3. ASSUME Tick
          PROVE  FALSE
      BY <3>3 DEF Tick, CancelPC
    <3>4. PICK d \in Call : Continue(d)
      BY <3>1, <3>2, <3>3 DEF Next, Begin
    <3>5. d = c
      BY <3>4 DEF TypeOK, Continue, ListByRequest, ListActive, Create, CheckHasJob,
                  ListCancel, Delete, ApiError, Goto, CancelPC
    <3>6. QED
      BY <3>4, <3>5, ~ApiMayFail
         DEF Continue, ListByRequest, ListActive, Create, ApiError, CancelPC
  <2>3. CASE CheckHasJob(c)
    BY <2>1, <2>3 DEF CheckHasJob, Goto, TypeOK, HasJob, ActiveJobs, ConcernsCancel
  <2>4. CASE ListCancel(c)
    BY <2>1, <2>4 DEF ListCancel, Goto, TypeOK, ActiveJobs, ConcernsCancel
  <2>5. CASE Delete(c)
    BY <2>1, <2>5 DEF Delete, Goto, TypeOK
  <2>6. QED
    BY <2>2, <2>3, <2>4, <2>5
<1>2. QED
  BY <1>1, ChecksInvariant, TypeCorrect, PTL DEF Spec, CancelTerminates

\* As long as no API call fails, a registration that returns leaves a job of its
\* system and type: the duplicate one of its Lists found, or what Create made.
THEOREM RegisterLeaves == ASSUME ~ApiMayFail PROVE Spec => RegisterLeavesJob
<1>1. TypeOK /\ [Next]_vars =>
        [\A c \in Call : pc[c] \in RegisterPC /\ pc'[c] = "idle" =>
           \E n \in Name : SameType(arg[c], n) /\ job'[n] # "absent"]_vars
  <2> SUFFICES ASSUME TypeOK, Next,
                      NEW c \in Call, pc[c] \in RegisterPC, pc'[c] = "idle"
               PROVE  \E n \in Name : SameType(arg[c], n) /\ job'[n] # "absent"
    BY DEF vars
  <2>1. ListByRequest(c) \/ ListActive(c) \/ Create(c)
    <3>1. ASSUME NEW d \in Call, NEW r \in Request,
                 BeginRegister(d, r) \/ BeginCancel(d, r)
          PROVE  FALSE
      BY <3>1 DEF TypeOK, BeginRegister, BeginCancel, Goto, RegisterPC
    <3>2. ASSUME NEW m \in Name, Control(m) \/ PodExits(m)
          PROVE  FALSE
      BY <3>2 DEF Control, PodExits, StartPod, CountActive, JobSucceeds, ReplacePod,
                  JobFails, DeadlineExceeded, Expire, SetJob, RegisterPC
    <3>3. ASSUME Tick
          PROVE  FALSE
      BY <3>3 DEF Tick, RegisterPC
    <3>4. PICK d \in Call : Continue(d)
      BY <3>1, <3>2, <3>3 DEF Next, Begin
    <3>5. d = c
      BY <3>4 DEF TypeOK, Continue, ListByRequest, ListActive, Create, CheckHasJob,
                  ListCancel, Delete, ApiError, Goto, RegisterPC
    <3>6. QED
      BY <3>4, <3>5, ~ApiMayFail
         DEF Continue, CheckHasJob, ListCancel, Delete, ApiError, RegisterPC
  <2>2. CASE ListByRequest(c)
    <3>1. RequestKnown(arg[c]) /\ UNCHANGED job
      BY <2>2 DEF ListByRequest, Goto, TypeOK, jobVars
    <3>2. PICK n \in Name : n[1] = arg[c] /\ job[n] \in {"active", "succeeded"}
      BY <3>1 DEF RequestKnown
    <3>3. QED
      BY <3>1, <3>2 DEF SameType, SameSystem
  <2>3. CASE ListActive(c)
    <3>1. TypeActive(arg[c]) /\ UNCHANGED job
      BY <2>3 DEF ListActive, Goto, TypeOK, jobVars
    <3>2. QED
      BY <3>1 DEF TypeActive
  <2>4. CASE Create(c)
    <3>1. <<arg[c], now>> \in Name /\ SameType(arg[c], <<arg[c], now>>)
      BY DEF TypeOK, SameType, SameSystem
    <3>2. job'[<<arg[c], now>>] # "absent"
      BY <2>4, <3>1 DEF Create, TypeOK
    <3>3. QED
      BY <3>1, <3>2
  <2>5. QED
    BY <2>1, <2>2, <2>3, <2>4
<1>2. QED
  BY <1>1, TypeCorrect, PTL DEF Spec, RegisterLeavesJob

=============================================================================
