------------------------ MODULE RegisterRepairs_proofs ------------------------
(***************************************************************************)
(* A worker that has the machine to itself leaves it configured, whatever  *)
(* the workers before it have left there: LoneWorkerRepairs, for any       *)
(* interfaces and links, under every fault and next to every handler.      *)
(* Then what Ready promises however many workers are at a machine, and     *)
(* that the flow implements HostLifecycle.                                 *)
(***************************************************************************)
EXTENDS RegisterRepairs, MachineRegister_proofs

Reads == {"subnets", "access", "interfaces"}
Tail  == {"loop", "disconnect", "link", "rename"}

\* The worker is about to read the machine or has read it, and the machine is at rest:
\* nobody but a worker has MAAS commission, which is when links and names change by
\* themselves.
AtRest(n) == LET s == work[n].sys IN status[s] # "unborn" /\ ~InProgress(s)

\* The interfaces left are as the snapshot has them, those behind are linked to their
\* target, and the one the worker is at is on its way.
Linked(n) ==
    LET s == work[n].sys
        i == work[n].at
    IN  /\ \A j \in work[n].left : /\ links[s][j] = work[n].links[j]
                                   /\ j \in named[s] <=> j \in work[n].named
        /\ \A j \in Iface \ work[n].left :
               \/ links[s][j] = Target(n, j) /\ j \in named[s]
               \/ wpc[n] # "loop" /\ j = i
        /\ wpc[n] # "loop" => i \notin work[n].left
        /\ wpc[n] \in {"disconnect", "link"} =>
               work[n].add \subseteq Target(n, i) /\ (i \in named[s] <=> i \in work[n].named)
        /\ wpc[n] = "disconnect" => work[n].add = Target(n, i)
        /\ wpc[n] = "link" => links[s][i] = Target(n, i) \ work[n].add
        /\ wpc[n] = "rename" => links[s][i] = Target(n, i)

\* What is known of a worker that has the machine to itself.
Sound(n) ==
    /\ wpc[n] \in Tail \cup Reads /\ Exists(work[n].sys) => AtRest(n)
    /\ wpc[n] \in Tail \cup Reads => status[work[n].sys] # "unborn"
    /\ wpc[n] \in Tail /\ Exists(work[n].sys) => Linked(n)

Lone(n) == n \notin shared /\ wpc[n] # "off"
LoneInv ==
    \A n \in Name : Lone(n) => Sound(n) /\ \A m \in Name \ {n} : wpc[m] = "off"

-----------------------------------------------------------------------------
\* Steps other than the workers' calls.
Elsewhere ==
    \/ \E c \in Call :
         \/ RegisterFinds(c) \/ RegisterFindsNone(c) \/ RegisterCreates(c) \/ RegisterRefused(c)
         \/ CancelBegins(c) \/ CancelAborts(c) \/ CancelReplies(c) \/ Abort(c)
         \/ ShowReads(c) \/ ShowReplies(c) \/ MachineDelete(c) \/ Handler(c)
    \/ \E n \in Name : JobController(n) \/ WorkerExits(n) \/ Killed(n)
    \/ \E s \in Request : MaasWorks(s)
    \/ Clock

\* They leave a machine at rest alone, unless they delete it ...
LEMMA MachineRests ==
    ASSUME Types, Elsewhere \/ UNCHANGED allVars, NEW s \in Request,
           status[s] # "unborn"
    PROVE  /\ status'[s] # "unborn"
           /\ Exists(s)' => Exists(s)
           /\ ~InProgress(s) /\ Exists(s)' =>
                 status'[s] = status[s] /\ links'[s] = links[s] /\ named'[s] = named[s]
<1> USE DEF Types, MachineTypes, Exists, InProgress
<1>1. CASE \E c \in Call : RegisterCreates(c) \/ RegisterRefused(c)
  BY <1>1 DEF RegisterCreates, RegisterRefused, Register, machineVars
<1>2. CASE \E c \in Call : Abort(c) \/ MachineDelete(c)
  BY <1>2 DEF Abort, MachineDelete
<1>3. CASE \E t \in Request : MaasWorks(t)
  BY <1>3 DEF MaasWorks
<1>4. CASE \E c \in Call : Handler(c)
  BY <1>4 DEF Handler, StoreStep, machineVars
<1>5. CASE Clock \/ \E n \in Name : JobController(n)
  BY <1>5 DEF Clock, JobController, StoreStep, machineVars
<1>6. CASE \E n \in Name : WorkerExits(n) \/ Killed(n)
  BY <1>6 DEF WorkerExits, Killed, machineVars
<1>7. CASE \E c \in Call : RegisterFinds(c) \/ RegisterFindsNone(c) \/ CancelBegins(c)
                \/ CancelAborts(c) \/ CancelReplies(c) \/ ShowReads(c) \/ ShowReplies(c)
  BY <1>7 DEF RegisterFinds, RegisterFindsNone, CancelBegins, CancelAborts, CancelReplies,
     ShowReads, ShowReplies, machineVars
<1>8. CASE UNCHANGED allVars
  BY <1>8 DEF allVars, machineVars
<1> QED BY <1>1, <1>2, <1>3, <1>4, <1>5, <1>6, <1>7, <1>8 DEF Elsewhere

\* ... and a worker at its call, unless they start or end it.
LEMMA WorkerRestarts ==
    ASSUME Types, Elsewhere \/ UNCHANGED allVars, NEW n \in Name
    PROVE  \/ wpc'[n] = wpc[n] /\ work'[n] = work[n]
           \/ wpc'[n] \in {"off", "lookup"} /\ work'[n] = NoWork(n[1])
<1> USE DEF Types, WorkerTypes
<1>1. CASE \E c \in Call : Handler(c)
  BY <1>1 DEF Handler, StoreStep
<1>2. CASE Clock \/ \E m \in Name : JobController(m)
  BY <1>2 DEF Clock, JobController, StoreStep
<1>3. CASE \E m \in Name : WorkerExits(m) \/ Killed(m)
  BY <1>3 DEF WorkerExits, Killed
<1>4. CASE \E s \in Request : MaasWorks(s)
  BY <1>4 DEF MaasWorks, workerVars
<1>5. CASE \E c \in Call :
         \/ RegisterFinds(c) \/ RegisterFindsNone(c) \/ RegisterCreates(c) \/ RegisterRefused(c)
         \/ CancelBegins(c) \/ CancelAborts(c) \/ CancelReplies(c) \/ Abort(c)
         \/ ShowReads(c) \/ ShowReplies(c) \/ MachineDelete(c)
  BY <1>5 DEF RegisterFinds, RegisterFindsNone, RegisterCreates, RegisterRefused, CancelBegins,
     CancelAborts, CancelReplies, Abort, CancelEnds, ShowReads, ShowReplies, MachineDelete, workerVars
<1>6. CASE UNCHANGED allVars
  BY <1>6 DEF allVars, workerVars
<1> QED BY <1>1, <1>2, <1>3, <1>4, <1>5, <1>6 DEF Elsewhere

LEMMA WorkerRests ==
    ASSUME Types, Elsewhere \/ UNCHANGED allVars, NEW n \in Name, wpc'[n] \notin {"off", "lookup"}
    PROVE  wpc'[n] = wpc[n] /\ work'[n] = work[n]
BY WorkerRestarts

\* MAAS gives a machine back the links it had at first when it commissions it.
LEMMA LinksRest ==
    ASSUME Types, Elsewhere \/ UNCHANGED allVars, NEW s \in Request
    PROVE  /\ links'[s] = links[s] \/ links'[s] = AutoLinks
           /\ status'[s] \in {"Testing", "Ready"} =>
                \/ links'[s] = AutoLinks
                \/ links'[s] = links[s] /\ status[s] \in {"Testing", "Ready"}
           /\ status[s] = "Commissioning" /\ status'[s] = "Testing" => links'[s] = AutoLinks
<1> USE DEF Types, MachineTypes, InProgress
<1>1. CASE \E c \in Call : RegisterCreates(c) \/ RegisterRefused(c)
  BY <1>1 DEF RegisterCreates, RegisterRefused, Register, machineVars
<1>2. CASE \E c \in Call : Abort(c) \/ MachineDelete(c)
  BY <1>2 DEF Abort, MachineDelete
<1>3. CASE \E t \in Request : MaasWorks(t)
  BY <1>3 DEF MaasWorks
<1>4. CASE UNCHANGED machineVars
  BY <1>4 DEF machineVars
<1> QED BY <1>1, <1>2, <1>3, <1>4 DEF Elsewhere, allVars, Handler, Clock, JobController, StoreStep,
     WorkerExits, Killed, RegisterFinds, RegisterFindsNone, CancelBegins, CancelAborts, CancelReplies,
     ShowReads, ShowReplies

-----------------------------------------------------------------------------
LEMMA ElsewhereSound ==
    ASSUME Types, Elsewhere \/ UNCHANGED allVars, NEW n \in Name, Sound(n)
    PROVE  Sound(n)'
<1> SUFFICES ASSUME wpc'[n] \in Tail \cup Reads PROVE Sound(n)'
  BY DEF Sound
<1>1. wpc'[n] = wpc[n] /\ work'[n] = work[n]
  BY WorkerRests DEF Tail, Reads
<1>2. PICK s \in Request : s = work[n].sys /\ status[s] # "unborn"
  BY <1>1 DEF Sound, Types, WorkerTypes, WorkRecord
<1>3. status'[s] # "unborn" /\ (Exists(s)' => Exists(s))
  BY <1>2, MachineRests
<1>4. ASSUME Exists(s)'
      PROVE  status'[s] = status[s] /\ links'[s] = links[s] /\ named'[s] = named[s]
  <2>1. ~InProgress(s)
    BY <1>1, <1>2, <1>3, <1>4 DEF Sound, AtRest
  <2> QED BY <1>2, <1>4, <2>1, MachineRests
<1>5. Exists(work[n].sys)' <=> Exists(s)'
  BY <1>1, <1>2 DEF Exists
<1>6. ASSUME Exists(s)' PROVE AtRest(n)' /\ (wpc'[n] \in Tail => Linked(n)')
  <2>1. Exists(s) BY <1>3, <1>6
  <2>2. AtRest(n)'
    BY <1>1, <1>2, <1>4, <1>6, <2>1 DEF Sound, AtRest, InProgress
  <2>3. wpc[n] \in Tail => Linked(n)
    BY <1>2, <2>1 DEF Sound
  <2> QED BY <1>1, <1>2, <1>4, <1>6, <2>2, <2>3 DEF Linked, Target
<1> QED BY <1>1, <1>2, <1>3, <1>5, <1>6 DEF Sound

\* The snapshot that a worker takes changes neither its machine nor what it has read.
LEMMA SnapshotKeeps ==
    ASSUME Types, NEW n \in Name, GetInterfaces(n)
    PROVE  UNCHANGED machineVars /\ work'[n].sys = work[n].sys /\ work'[n].boot = work[n].boot
<1> USE DEF Types, WorkerTypes, WorkRecord
<1>1. UNCHANGED machineVars
  BY DEF GetInterfaces
<1>2. CASE UNCHANGED work
  BY <1>1, <1>2
<1>3. CASE ~UNCHANGED work
  <2>1. \E l, m : work' = [work EXCEPT ![n].known = {}, ![n].left = Iface,
                                       ![n].links = l, ![n].named = m]
    BY <1>3 DEF GetInterfaces
  <2> QED BY <1>1, <2>1
<1> QED BY <1>2, <1>3

\* A step of the worker's own.
LEMMA WorkerSound ==
    ASSUME Types, NEW n \in Name, Worker(n), Sound(n)
    PROVE  Sound(n)'
<1> USE DEF Types, WorkerTypes, MachineTypes, WorkRecord
<1> SUFFICES ASSUME wpc'[n] \in Tail \cup Reads PROVE Sound(n)'
  BY DEF Sound
<1>1. \A l : At(n, l) => wpc[n] = l
  BY DEF At
<1>2. \/ Poll(n) \/ GetSubnets(n) \/ GetAccessInfo(n) \/ CreateSubnet(n) \/ GetInterfaces(n)
      \/ NextInterface(n) \/ Disconnect(n) \/ Link(n) \/ Rename(n)
  BY DEF Worker, WorkerFinds, WorkerFindsNone, WorkerCreates, CommissionGuard, Commission,
     WorkerCallFails, MarkBroken, Then, ThenCalled, Tail, Reads
<1>3. UNCHANGED status /\ work'[n].sys = work[n].sys
  <2>1. CASE Poll(n)
    BY <2>1 DEF Poll, machineVars
  <2>6. CASE GetInterfaces(n)
    BY <2>6, SnapshotKeeps DEF machineVars
  <2>5. CASE GetSubnets(n) \/ GetAccessInfo(n) \/ CreateSubnet(n)
    BY <2>5 DEF GetSubnets, GetAccessInfo, CreateSubnet, machineVars
  <2>2. CASE NextInterface(n)
    BY <2>2 DEF NextInterface, machineVars
  <2>3. CASE Disconnect(n) \/ Rename(n)
    BY <2>3 DEF Change, Disconnect, Rename
  <2>4. CASE Link(n)
    BY <2>4 DEF Change, Link
  <2> QED BY <1>2, <2>1, <2>2, <2>3, <2>4, <2>5, <2>6
<1>4. PICK s \in Request : s = work[n].sys
  OBVIOUS
<1>5. Exists(work[n].sys)' <=> Exists(s)
  BY <1>3, <1>4 DEF Exists
<1>6. ASSUME Exists(s) => ~InProgress(s), status[s] # "unborn",
             wpc'[n] \in Tail /\ Exists(s) => Linked(n)'
      PROVE  Sound(n)'
  BY <1>3, <1>4, <1>5, <1>6 DEF Sound, AtRest, InProgress
<1>7. CASE Poll(n)
  <2>1. status[s] = "Ready" /\ wpc'[n] = "subnets"
    BY <1>4, <1>7 DEF Poll, Then, Tail, Reads
  <2> QED BY <1>6, <2>1 DEF InProgress, Tail
<1>11. CASE GetSubnets(n) \/ GetAccessInfo(n) \/ CreateSubnet(n)
  <2>1. wpc[n] \in Reads /\ wpc'[n] \notin Tail
    BY <1>1, <1>11 DEF GetSubnets, GetAccessInfo, CreateSubnet, Then, ThenCalled, Reads, Tail
  <2> QED BY <1>4, <1>6, <2>1 DEF Sound, AtRest
<1>8. CASE GetInterfaces(n)
  <2>1. /\ wpc[n] = "interfaces" /\ wpc'[n] = "loop" /\ Exists(s)
        /\ work' = [work EXCEPT ![n].known = {}, ![n].left = Iface, ![n].links = links[s],
                                ![n].named = named[s]]
        /\ UNCHANGED <<links, named>>
    BY <1>1, <1>4, <1>8 DEF GetInterfaces, Then, Tail, Reads, machineVars
  <2>2. Linked(n)'
    <3>1. /\ work'[n].left = Iface /\ work'[n].links = links[s] /\ work'[n].named = named[s]
          /\ work'[n].sys = s
      BY <1>4, <2>1
    <3> QED BY <2>1, <3>1 DEF Linked
  <2>3. status[s] # "unborn" /\ (Exists(s) => ~InProgress(s))
    BY <1>4, <2>1 DEF Sound, AtRest, Reads
  <2> QED BY <1>6, <2>2, <2>3
<1>9. CASE NextInterface(n)
  <2>1. /\ wpc[n] = "loop" /\ UNCHANGED <<links, named>>
        /\ status[s] # "unborn" /\ (Exists(s) => ~InProgress(s) /\ Linked(n))
    BY <1>1, <1>4, <1>9 DEF NextInterface, Sound, AtRest, Tail, machineVars
  <2>2. PICK i \in work[n].left :
          /\ work' = [work EXCEPT ![n].left = @ \ {i}, ![n].at = i, ![n].add = Target(n, i)]
          /\ wpc'[n] = IF work[n].links[i] # Target(n, i) THEN "disconnect"
                       ELSE IF i \in work[n].named THEN "loop" ELSE "rename"
    BY <1>9 DEF NextInterface, Then, Tail, Reads
  <2>3. /\ work'[n].left = work[n].left \ {i} /\ work'[n].at = i
        /\ work'[n].add = Target(n, i) /\ \A j : Target(n, j)' = Target(n, j)
        /\ work'[n].links = work[n].links /\ work'[n].named = work[n].named /\ work'[n].sys = s
    BY <1>4, <2>2 DEF Target
  <2>4. Exists(s) => Linked(n)'
    BY <1>4, <2>1, <2>2, <2>3 DEF Linked
  <2> QED BY <1>6, <2>1, <2>4
<1>10. CASE Disconnect(n) \/ Link(n) \/ Rename(n)
  <2>1. /\ wpc[n] \in {"disconnect", "link", "rename"} /\ Exists(s) /\ ~InProgress(s)
    BY <1>1, <1>4, <1>10 DEF Change, Disconnect, Link, Rename, Then, Tail, Reads
  <2>2. Linked(n) /\ status[s] # "unborn"
    BY <1>4, <2>1 DEF Sound, Tail, Exists
  <2> DEFINE i == work[n].at
  <2>3. i \in Iface /\ i \notin work[n].left /\ AfterLinks(n) = IF i \in work[n].named THEN "loop" ELSE "rename"
    BY <2>1, <2>2 DEF Linked, AfterLinks
  <2>4. CASE Disconnect(n)
    <3>1. /\ wpc[n] = "disconnect"
          /\ links' = [links EXCEPT ![s][i] = {}] /\ UNCHANGED <<named, work>>
          /\ wpc'[n] = IF work[n].add = {} THEN AfterLinks(n) ELSE "link"
      BY <1>1, <1>4, <2>4 DEF Change, Disconnect, Then, ThenCalled, Tail, Reads
    <3>2. links[s] \in [Iface -> SUBSET Subnet]
      BY DEF Links
    <3>3. links'[s][i] = {} /\ \A j \in Iface \ {i} : links'[s][j] = links[s][j]
      BY <2>3, <3>1, <3>2
    <3>4. Linked(n)'
      BY <1>4, <2>2, <2>3, <3>1, <3>3 DEF Linked, Target
    <3> QED BY <1>6, <2>1, <2>2, <3>4
  <2>5. CASE Link(n)
    <3>1. PICK x \in work[n].add :
             /\ links' = [links EXCEPT ![s][i] = @ \cup {x}] /\ UNCHANGED named
             /\ work' = [work EXCEPT ![n].add = @ \ {x}]
             /\ wpc'[n] = IF work[n].add = {x} THEN AfterLinks(n) ELSE "link"
      BY <1>4, <2>5 DEF Change, Link, Then, ThenCalled, Tail, Reads
    <3>2. links[s] \in [Iface -> SUBSET Subnet]
      BY DEF Links
    <3>3. links'[s][i] = links[s][i] \cup {x} /\ \A j \in Iface \ {i} : links'[s][j] = links[s][j]
      BY <2>3, <3>1, <3>2
    <3>4. /\ work'[n].add = work[n].add \ {x} /\ work'[n].at = i /\ work'[n].left = work[n].left
          /\ work'[n].links = work[n].links /\ work'[n].named = work[n].named /\ work'[n].sys = s
          /\ \A j : Target(n, j)' = Target(n, j)
      BY <1>4, <3>1 DEF Target
    <3>5. wpc[n] = "link"
      BY <1>1, <2>5 DEF Change, Link
    <3>6. links'[s][i] = Target(n, i) \ work'[n].add
      BY <1>4, <2>2, <3>1, <3>3, <3>4, <3>5 DEF Linked
    <3>7. wpc'[n] \in {"loop", "rename"} =>
             links'[s][i] = Target(n, i) /\ (wpc'[n] = "loop" => i \in named'[s])
      BY <1>4, <2>2, <2>3, <3>1, <3>4, <3>5, <3>6 DEF Linked
    <3>8. wpc'[n] \in {"loop", "rename", "link"} /\ work'[n].add \subseteq Target(n, i)
          /\ (i \in named'[s] <=> i \in work'[n].named)
      BY <1>4, <2>2, <2>3, <3>1, <3>4, <3>5 DEF Linked
    <3>9. \A j \in work[n].left : j # i /\ links[s][j] = work[n].links[j]
                                  /\ (j \in named[s] <=> j \in work[n].named)
      BY <1>4, <2>2, <3>5 DEF Linked
    <3>10. \A j \in Iface \ work[n].left : j # i => links[s][j] = Target(n, j) /\ j \in named[s]
      BY <1>4, <2>2, <3>5 DEF Linked
    <3>11. \A j \in work'[n].left : links'[s][j] = work'[n].links[j]
                                    /\ (j \in named'[s] <=> j \in work'[n].named)
      BY <3>1, <3>3, <3>4, <3>9
    <3>12. \A j \in Iface \ work'[n].left :
              \/ links'[s][j] = Target(n, j) /\ j \in named'[s]
              \/ wpc'[n] # "loop" /\ j = i
      BY <3>1, <3>3, <3>4, <3>7, <3>8, <3>10
    <3>13. Linked(n)'
      BY <2>3, <3>4, <3>6, <3>7, <3>8, <3>11, <3>12 DEF Linked
    <3> QED BY <1>6, <2>1, <2>2, <3>13
  <2>6. CASE Rename(n)
    <3>1. /\ wpc[n] = "rename" /\ wpc'[n] = "loop" /\ UNCHANGED <<links, work>>
          /\ named' = [named EXCEPT ![s] = @ \cup {i}]
      BY <1>1, <1>4, <2>6 DEF Change, Rename, Then, ThenCalled, Tail, Reads
    <3>2. named'[s] = named[s] \cup {i}
      BY <3>1
    <3>3. Linked(n)'
      BY <1>4, <2>2, <2>3, <3>1, <3>2 DEF Linked, Target
    <3> QED BY <1>6, <2>1, <2>2, <3>3
  <2> QED BY <1>10, <2>4, <2>5, <2>6
<1> QED BY <1>2, <1>7, <1>8, <1>9, <1>10, <1>11

-----------------------------------------------------------------------------
LEMMA WorkerCalls ==
    ASSUME Types, NEW m \in Name, Worker(m)
    PROVE  wpc[m] # "off" /\ \A n \in Name \ {m} : wpc'[n] = wpc[n]
<1>1. \A l : At(m, l) => wpc[m] = l
  BY DEF At
<1>2. wpc[m] # "off"
  BY <1>1 DEF Worker, WorkerFinds, WorkerFindsNone, WorkerCreates, CommissionGuard,
     Commission, Poll, GetSubnets, GetAccessInfo,
     CreateSubnet, GetInterfaces, NextInterface, Change, Disconnect, Link, Rename,
     WorkerCallFails, MarkBroken
<1>3. \A n \in Name \ {m} : wpc'[n] = wpc[n]
  BY DEF Worker, WorkerFinds, WorkerFindsNone, WorkerCreates, CommissionGuard,
     Commission, Poll, GetSubnets, GetAccessInfo,
     CreateSubnet, GetInterfaces, NextInterface, Change, Disconnect, Link, Rename,
     WorkerCallFails, MarkBroken, Then, ThenCalled, Types, WorkerTypes
<1> QED BY <1>2, <1>3

LEMMA StepIs == Step => Elsewhere \/ \E m \in Name : Worker(m)
  BY DEF Step, Elsewhere

LEMMA LoneStep ==
    Types /\ LoneInv /\ [MNext /\ Observe]_<<allVars, histVars>> => LoneInv'
<1> SUFFICES ASSUME Types, LoneInv, [MNext /\ Observe]_<<allVars, histVars>>
             PROVE  LoneInv'
  OBVIOUS
<1>1. CASE UNCHANGED <<allVars, histVars>>
  <2>1. UNCHANGED <<shared, wpc>>
    BY <1>1 DEF allVars, workerVars, histVars
  <2>2. \A n \in Name : Sound(n) => Sound(n)'
    BY <1>1, ElsewhereSound
  <2> QED BY <2>1, <2>2 DEF LoneInv, Lone
<1>2. CASE MNext /\ Observe
  <2> SUFFICES ASSUME NEW n \in Name, Lone(n)'
               PROVE  Sound(n)' /\ \A m \in Name \ {n} : wpc'[m] = "off"
    BY DEF LoneInv
  <2>1. n \notin shared /\ wpc'[n] # "off" /\ \A m \in Name \ {n} : wpc'[m] = "off"
    BY <1>2 DEF Observe, Lone
  <2>2. Sound(n)'
    <3>1. SUFFICES ASSUME wpc'[n] \in Tail \cup Reads PROVE Sound(n)'
      BY DEF Sound
    <3>2. CASE Elsewhere
      <4>1. wpc[n] = wpc'[n]
        BY <3>1, <3>2, WorkerRests DEF Tail, Reads
      <4>2. Sound(n)
        BY <2>1, <4>1 DEF LoneInv, Lone
      <4> QED BY <3>2, <4>2, ElsewhereSound
    <3>3. ASSUME NEW m \in Name, Worker(m), m # n PROVE FALSE
      <4>1. wpc[m] # "off" /\ wpc[n] = wpc'[n]
        BY <3>3, WorkerCalls
      <4> QED BY <2>1, <3>3, <4>1 DEF LoneInv, Lone
    <3>4. CASE Worker(n)
      <4>1. Sound(n)
        BY <2>1, <3>4, WorkerCalls DEF LoneInv, Lone
      <4> QED BY <3>4, <4>1, WorkerSound
    <3> QED BY <1>2, <3>2, <3>3, <3>4, StepIs DEF MNext
  <2> QED BY <2>1, <2>2
<1> QED BY <1>1, <1>2

\* The boot interface is linked to nothing but what the request names or MAAS gave it,
\* which is what a worker reads of it; so whatever a worker links an interface to fits.
TargetFits(n) ==
    /\ work[n].boot \subseteq Asked[Boot] \cup Kept(Boot)
    /\ wpc[n] = "disconnect" => Fits(work[n].at, work[n].add)
    /\ wpc[n] = "link" => work[n].add \subseteq Asked[work[n].at] \cup Kept(work[n].at)
BootFits(s) == links[s][Boot] \subseteq Asked[Boot] \cup Kept(Boot)
TargetsFit  == (\A n \in Name : TargetFits(n)) /\ \A s \in Request : BootFits(s)

LEMMA TargetIsFit ==
    ASSUME NEW n \in Name, TargetFits(n), NEW i \in Iface
    PROVE  Fits(i, Target(n, i))
BY DEF TargetFits, Target, Fits, Kept

LEMMA WorkerTargetsFit ==
    ASSUME Types, TargetsFit, NEW n \in Name, Worker(n)
    PROVE  TargetsFit'
<1> USE DEF Types, WorkerTypes, WorkRecord, MachineTypes
<1>1. \A m \in Name \ {n} : wpc'[m] = wpc[m] /\ work'[m] = work[m]
  BY DEF Worker, WorkerFinds, WorkerFindsNone, WorkerCreates, CommissionGuard, Commission,
     Poll, GetSubnets, GetAccessInfo, CreateSubnet, GetInterfaces, NextInterface, Change,
     Disconnect, Link, Rename, WorkerCallFails, MarkBroken, Then, ThenCalled
<1>2. TargetFits(n) /\ \A s \in Request : BootFits(s)
  BY DEF TargetsFit
<1>3. \A l : At(n, l) => wpc[n] = l
  BY DEF At
<1>4. \A l : ThenCalled(n, l) => wpc'[n] \in {"broken", l}
  BY DEF ThenCalled, Then
<1>5. \A l : Then(n, l) => wpc'[n] = l
  BY DEF Then
<1>6. links \in [Request -> Links] /\ links[work[n].sys] \in [Iface -> SUBSET Subnet] /\ Boot \in Iface
  BY MachineAssumption DEF Links
<1>7. CASE GetAccessInfo(n)
  <2>1. UNCHANGED links /\ wpc'[n] \in {"interfaces", "broken"}
        /\ (work'[n].boot = links[work[n].sys][Boot] \/ UNCHANGED work)
    BY <1>5, <1>7 DEF GetAccessInfo, machineVars
  <2> QED BY <1>1, <1>2, <2>1 DEF TargetsFit, TargetFits, BootFits
<1>8. CASE NextInterface(n)
  <2>1. UNCHANGED links
    BY <1>8 DEF NextInterface, machineVars
  <2>2. CASE UNCHANGED work /\ wpc'[n] = "done"
    BY <1>1, <1>2, <2>1, <2>2 DEF TargetsFit, TargetFits, BootFits
  <2>3. CASE \E i \in work[n].left :
               /\ work' = [work EXCEPT ![n].left = @ \ {i}, ![n].at = i, ![n].add = Target(n, i)]
               /\ wpc'[n] \in {"disconnect", "loop", "rename"}
    <3>1. PICK i \in Iface : work'[n].at = i /\ work'[n].add = Target(n, i) /\ work'[n].boot = work[n].boot
      BY <2>3
    <3>2. Fits(work'[n].at, work'[n].add)
      BY <1>2, <3>1, TargetIsFit
    <3> QED BY <1>1, <1>2, <2>1, <2>3, <3>1, <3>2 DEF TargetsFit, TargetFits, BootFits, Kept, Fits
  <2> QED BY <1>5, <1>8, <2>2, <2>3 DEF NextInterface
<1>9. CASE Disconnect(n)
  <2>1. wpc[n] = "disconnect" /\ UNCHANGED work
    BY <1>3, <1>9 DEF Disconnect, Change
  <2>2. wpc'[n] = "link" \/ wpc'[n] \notin {"link", "disconnect"}
    BY <1>4, <1>5, <1>9 DEF Disconnect, Change, AfterLinks
  <2>3. UNCHANGED links \/ links' = [links EXCEPT ![work[n].sys][work[n].at] = {}]
    BY <1>9 DEF Disconnect, Change
  <2>4. ASSUME NEW s \in Request PROVE links'[s][Boot] = links[s][Boot] \/ links'[s][Boot] = {}
    <3>1. links[s] \in [Iface -> SUBSET Subnet]
      BY DEF Links
    <3>2. CASE s = work[n].sys
      BY <1>6, <2>3, <3>1, <3>2
    <3>3. CASE s # work[n].sys
      BY <2>3, <3>3
    <3> QED BY <3>2, <3>3
  <2> QED BY <1>1, <1>2, <2>1, <2>2, <2>4 DEF TargetsFit, TargetFits, BootFits, Fits, Kept
<1>10. CASE Link(n)
  <2>1. wpc[n] = "link"
    BY <1>3, <1>10 DEF Link, Change
  <2>2. CASE UNCHANGED <<links, work>> /\ wpc'[n] = "broken"
    BY <1>1, <1>2, <2>2 DEF TargetsFit, TargetFits, BootFits
  <2>3. CASE \E x \in work[n].add :
               /\ links' = [links EXCEPT ![work[n].sys][work[n].at] = @ \cup {x}]
               /\ work' = [work EXCEPT ![n].add = @ \ {x}]
               /\ ThenCalled(n, IF work[n].add = {x} THEN AfterLinks(n) ELSE "link")
    <3>1. PICK x \in work[n].add :
               /\ links' = [links EXCEPT ![work[n].sys][work[n].at] = @ \cup {x}]
               /\ work' = [work EXCEPT ![n].add = @ \ {x}]
               /\ ThenCalled(n, IF work[n].add = {x} THEN AfterLinks(n) ELSE "link")
      BY <2>3
    <3>2. work'[n].boot = work[n].boot /\ work'[n].at = work[n].at /\ work'[n].add \subseteq work[n].add
      BY <3>1
    <3>3. \A s \in Request : \/ links'[s][Boot] = links[s][Boot]
                             \/ work[n].at = Boot /\ links'[s][Boot] = links[s][Boot] \cup {x}
      BY <1>6, <3>1 DEF Links
    <3>4. wpc'[n] # "disconnect"
      BY <1>4, <3>1 DEF AfterLinks
    <3>5. TargetFits(n)'
      BY <1>2, <2>1, <3>2, <3>4 DEF TargetFits, Kept
    <3>6. \A s \in Request : BootFits(s)'
      BY <1>2, <2>1, <3>1, <3>3 DEF TargetFits, BootFits, Kept
    <3> QED BY <1>1, <1>2, <3>5, <3>6 DEF TargetsFit, TargetFits, Fits, Kept
  <2> QED BY <1>5, <1>10, <2>2, <2>3 DEF Link, Change
<1>11. CASE ~(GetAccessInfo(n) \/ NextInterface(n) \/ Disconnect(n) \/ Link(n))
  <2>1. UNCHANGED links \/ (\E s \in Request : links' = [links EXCEPT ![s] = links[s]])
    BY <1>11 DEF Worker, WorkerFinds, WorkerFindsNone, WorkerCreates, CommissionGuard, Register,
       Commission, Poll, GetSubnets, CreateSubnet, GetInterfaces, Change, Rename,
       WorkerCallFails, MarkBroken, machineVars
  <2>2. work'[n].boot = work[n].boot
    BY <1>11 DEF Worker, WorkerFinds, WorkerFindsNone, WorkerCreates, CommissionGuard,
       Commission, Poll, GetSubnets, CreateSubnet, GetInterfaces, Change, Rename,
       WorkerCallFails, MarkBroken
  <2>3. wpc'[n] \notin {"disconnect", "link"}
    BY <1>11 DEF Worker, WorkerFinds, WorkerFindsNone, WorkerCreates, CommissionGuard,
       Commission, Poll, GetSubnets, CreateSubnet, GetInterfaces, Change, Rename,
       WorkerCallFails, MarkBroken, Then, ThenCalled
  <2> QED BY <1>1, <1>2, <2>1, <2>2, <2>3 DEF TargetsFit, TargetFits, BootFits, Fits, Kept
<1> QED BY <1>7, <1>8, <1>9, <1>10, <1>11

LEMMA TargetsFitElsewhere ==
    ASSUME Types, TargetsFit, Elsewhere \/ UNCHANGED allVars
    PROVE  TargetsFit'
<1>1. ASSUME NEW n \in Name PROVE TargetFits(n)'
  <2>1. CASE wpc'[n] = wpc[n] /\ work'[n] = work[n]
    BY <2>1 DEF TargetsFit, TargetFits
  <2>2. CASE wpc'[n] \in {"off", "lookup"} /\ work'[n] = NoWork(n[1])
    <3>1. work'[n].boot = {}
      BY <2>2 DEF NoWork
    <3> QED BY <2>2, <3>1 DEF TargetFits
  <2> QED BY <2>1, <2>2, WorkerRestarts
<1>2. ASSUME NEW s \in Request PROVE BootFits(s)'
  BY <1>2, LinksRest DEF TargetsFit, BootFits, Kept
<1> QED BY <1>1, <1>2 DEF TargetsFit

LEMMA TargetsFitStep == Types /\ TargetsFit /\ [MNext /\ Observe]_<<allVars, histVars>> => TargetsFit'
BY WorkerTargetsFit, TargetsFitElsewhere, StepIs DEF MNext

LEMMA TargetsFitInit == MInit => TargetsFit
BY MachineAssumption DEF MInit, NoWork, TargetsFit, TargetFits, BootFits, Kept

\* A worker that is through its list has configured the machine.
LEMMA EndConfigured ==
    ASSUME Types, LoneInv, TargetsFit, Step, NEW n \in Name \ shared, Finishes(n),
           Exists(work[n].sys)
    PROVE  Configured(work[n].sys) /\ work[n].boot \subseteq links[work[n].sys][Boot]
<1> USE DEF Types, WorkerTypes, MachineTypes, WorkRecord, Links
<1>1. wpc[n] = "loop" /\ wpc'[n] = "done"
  BY DEF Finishes
<1>2. work[n].left = {}
  <2>1. ~Elsewhere
    BY <1>1, WorkerRests
  <2>2. Worker(n)
    BY <1>1, <2>1, StepIs, WorkerCalls
  <2>3. \A l : At(n, l) => l = "loop"
    BY <1>1 DEF At
  <2>4. NextInterface(n)
    BY <2>2, <2>3 DEF Worker, WorkerFinds, WorkerFindsNone, WorkerCreates, CommissionGuard,
       Commission, Poll, GetSubnets, GetAccessInfo,
       CreateSubnet, GetInterfaces, Change, Disconnect, Link, Rename, WorkerCallFails, MarkBroken
  <2> QED BY <1>1, <2>4 DEF NextInterface, Then
<1>3. Linked(n)
  BY <1>1 DEF LoneInv, Lone, Sound, Tail
<1>4. \A j \in Iface : links[work[n].sys][j] = Target(n, j) /\ j \in named[work[n].sys]
  BY <1>1, <1>2, <1>3 DEF Linked
<1>5. links[work[n].sys] \in [Iface -> SUBSET Subnet] /\ named[work[n].sys] \subseteq Iface
  OBVIOUS
<1>6. \A j \in Iface : Fits(j, Target(n, j))
  BY TargetIsFit DEF TargetsFit
<1>7. work[n].boot \subseteq links[work[n].sys][Boot]
  BY <1>4, MachineAssumption DEF Target
<1> QED BY <1>4, <1>5, <1>6, <1>7 DEF Configured

\* The worker of a MachineRegister that no other worker runs beside repairs what the
\* ones before it have left (LoneWorkerRepairs), whatever fails.
THEOREM LoneWorkersRepair == ObservedSpec => LoneWorkerRepairs
<1>1. ObservedSpec => MSpec
  <2>1. [MNext /\ Observe]_<<allVars, histVars>> => [MNext]_allVars
    OBVIOUS
  <2> QED BY <2>1, PTL DEF ObservedSpec, MSpec
<1>2. MTypeOK => Types
  BY Zenon DEF Types, MachineTypes, HandlerTypes, WorkerTypes, WorkRecord, MTypeOK
<1>3. MInit => LoneInv /\ TargetsFit
  BY TargetsFitInit DEF MInit, LoneInv, Lone
<1>4. Types /\ LoneInv /\ TargetsFit /\ [MNext /\ Observe]_<<allVars, histVars>> =>
        [\A n \in Name \ shared :
           Finishes(n) /\ Exists(work[n].sys) =>
               /\ Configured(work[n].sys)
               /\ work[n].boot \subseteq links[work[n].sys][Boot]]_<<allVars, histVars>>
  BY EndConfigured DEF MNext
<1> QED BY <1>1, <1>2, <1>3, <1>4, MachineTypeCorrect, LoneStep, TargetsFitStep, PTL
        DEF ObservedSpec, LoneWorkerRepairs

-----------------------------------------------------------------------------
(* What ready_status Ready promises *)

\* Worker n will still see to the links, or the name, of interface i of its machine.
Starts(n) == wpc[n] \in Reads \cup {"poll", "broken"}
MendsLinks(n, i) ==
    \/ Starts(n)
    \/ wpc[n] \in Tail /\ i \in work[n].left /\ ~Fits(i, work[n].links[i])
    \/ wpc[n] = "disconnect" /\ work[n].at = i
    \/ /\ wpc[n] = "link" /\ work[n].at = i
       /\ Fits(i, links[work[n].sys][i] \cup work[n].add)
MendsName(n, i) ==
    \/ Starts(n)
    \/ /\ wpc[n] \in Tail /\ i \notin work[n].named
       /\ i \in work[n].left \/ (wpc[n] # "loop" /\ work[n].at = i)

\* The worker that had a machine commissioned waits for it or is about to give up.
Attended(s) ==
    InProgress(s) => \E n \in Name : work[n].sys = s /\ wpc[n] \in {"poll", "broken"}

\* A worker sees to whatever is missing at a machine that is Ready: to its links
\* although several workers may take turns to disconnect an interface and link it.
LinksMended(s, i) == Fits(i, links[s][i]) \/  \E n \in Name : work[n].sys = s /\ MendsLinks(n, i)
NameMended(s, i)  == i \in named[s] \/ \E n \in Name : work[n].sys = s /\ MendsName(n, i)
Mended(s) == status[s] = "Ready" => \A i \in Iface : LinksMended(s, i) /\ NameMended(s, i)

MendInv == TargetsFit /\ \A s \in Request \ deserted : Attended(s) /\ Mended(s)

Busy(n) == wpc[n] \in Tail \cup Reads \cup {"poll", "broken"}

\* Steps other than the workers' calls take no worker from its call but by its death,
LEMMA BusyRests ==
    ASSUME Types, WorkersAreCounted, Elsewhere, NEW n \in Name, Busy(n)
    PROVE  Dies(n) \/ (wpc'[n] = wpc[n] /\ work'[n] = work[n])
<1>1. wpc'[n] # "lookup"
  <2> USE DEF Types, WorkerTypes
  <2>1. pod[n] = "running" /\ wpc[n] \notin {"off", "lookup"}
    BY DEF WorkersAreCounted, Busy, Tail, Reads
  <2>3. CASE \E m \in Name : WorkerExits(m) \/ Killed(m)
    BY <2>1, <2>3 DEF WorkerExits, Killed
  <2>4. CASE \E c \in Call : Handler(c)
    BY <2>1, <2>4 DEF Handler, StoreStep
  <2>5. CASE Clock \/ \E m \in Name : JobController(m)
    BY <2>1, <2>5 DEF Clock, JobController, StoreStep
  <2>6. CASE \E c \in Call :
         \/ RegisterFinds(c) \/ RegisterFindsNone(c) \/ RegisterCreates(c) \/ RegisterRefused(c)
         \/ CancelBegins(c) \/ CancelAborts(c) \/ CancelReplies(c) \/ Abort(c)
         \/ ShowReads(c) \/ ShowReplies(c) \/ MachineDelete(c)
    BY <2>1, <2>6 DEF RegisterFinds, RegisterFindsNone, RegisterCreates, RegisterRefused,
       CancelBegins, CancelAborts, CancelReplies, Abort, CancelEnds, ShowReads, ShowReplies,
       MachineDelete, workerVars
  <2>7. CASE \E s \in Request : MaasWorks(s)
    BY <2>1, <2>7 DEF MaasWorks, workerVars
  <2> QED BY <2>3, <2>4, <2>5, <2>6, <2>7 DEF Elsewhere
<1> QED BY <1>1, WorkerRests DEF Dies, Busy, Tail, Reads

\* and make no machine Ready but one that is tested.
LEMMA ReadyElsewhere ==
    ASSUME Types, Elsewhere, NEW s \in Request
    PROVE  /\ InProgress(s)' => InProgress(s)
           /\ status'[s] = "Ready" => \/ InProgress(s)
                                      \/ /\ status[s] = "Ready"
                                         /\ links'[s] = links[s] /\ named'[s] = named[s]
<1> USE DEF Types, MachineTypes, InProgress
<1>1. CASE \E c \in Call : RegisterCreates(c) \/ RegisterRefused(c)
  BY <1>1 DEF RegisterCreates, RegisterRefused, Register, machineVars
<1>2. CASE \E c \in Call : Abort(c) \/ MachineDelete(c)
  BY <1>2 DEF Abort, MachineDelete
<1>3. CASE \E t \in Request : MaasWorks(t)
  BY <1>3 DEF MaasWorks
<1>4. CASE UNCHANGED machineVars
  BY <1>4 DEF machineVars
<1> QED BY <1>1, <1>2, <1>3, <1>4 DEF Elsewhere, Handler, Clock, JobController, StoreStep, WorkerExits,
     Killed, RegisterFinds, RegisterFindsNone, CancelBegins, CancelAborts, CancelReplies,
     ShowReads, ShowReplies

LEMMA ElsewhereMends ==
    ASSUME Types, WorkersAreCounted, MendInv, Elsewhere, Observe
    PROVE  MendInv'
<1>1. TargetsFit'
  BY TargetsFitElsewhere DEF MendInv
<1>2. ASSUME NEW s \in Request \ deserted' PROVE Attended(s)' /\ Mended(s)'
  <2>1. s \notin deserted
    <3>1. \A n \in Name : ~Finishes(n)
      BY WorkerRests DEF Finishes
    <3> QED BY <1>2, <3>1 DEF Observe
  <2>2. Attended(s) /\ Mended(s)
    BY <2>1 DEF MendInv
  <2>3. ASSUME NEW n \in Name, Busy(n), work[n].sys = s
        PROVE  wpc'[n] = wpc[n] /\ work'[n] = work[n]
    <3>1. ~Dies(n)
      BY <1>2, <2>3 DEF Observe
    <3> QED BY <2>3, <3>1, BusyRests
  <2>4. Attended(s)'
    <3> SUFFICES ASSUME InProgress(s)'
                 PROVE  \E n \in Name : work'[n].sys = s /\ wpc'[n] \in {"poll", "broken"}
      BY DEF Attended
    <3>1. PICK n \in Name : work[n].sys = s /\ wpc[n] \in {"poll", "broken"}
      BY <2>2, ReadyElsewhere DEF Attended
    <3> QED BY <2>3, <3>1 DEF Busy
  <2>5. Mended(s)'
    <3> SUFFICES ASSUME status'[s] = "Ready", NEW i \in Iface
                 PROVE  LinksMended(s, i)' /\ NameMended(s, i)'
      BY DEF Mended
    <3>1. CASE InProgress(s)
      <4>1. PICK n \in Name : work[n].sys = s /\ wpc[n] \in {"poll", "broken"}
        BY <2>2, <3>1 DEF Attended
      <4>2. work'[n].sys = s /\ Starts(n)'
        BY <2>3, <4>1 DEF Busy, Starts
      <4> QED BY <4>2 DEF LinksMended, NameMended, MendsLinks, MendsName
    <3>2. CASE status[s] = "Ready" /\ links'[s] = links[s] /\ named'[s] = named[s]
      <4>1. LinksMended(s, i) /\ NameMended(s, i)
        BY <2>2, <3>2 DEF Mended
      <4>2. ASSUME NEW n \in Name, work[n].sys = s, MendsLinks(n, i)
            PROVE  work'[n].sys = s /\ MendsLinks(n, i)'
        <5>1. wpc'[n] = wpc[n] /\ work'[n] = work[n]
          BY <2>3, <4>2 DEF Busy, MendsLinks, Starts, Tail, Reads
        <5> QED BY <3>2, <4>2, <5>1 DEF MendsLinks, Starts
      <4>3. ASSUME NEW n \in Name, work[n].sys = s, MendsName(n, i)
            PROVE  work'[n].sys = s /\ MendsName(n, i)'
        <5>1. wpc'[n] = wpc[n] /\ work'[n] = work[n]
          BY <2>3, <4>3 DEF Busy, MendsName, Starts, Tail, Reads
        <5> QED BY <4>3, <5>1 DEF MendsName, Starts
      <4> QED BY <3>2, <4>1, <4>2, <4>3 DEF LinksMended, NameMended
    <3> QED BY <3>1, <3>2, ReadyElsewhere
  <2> QED BY <2>4, <2>5
<1> QED BY <1>1, <1>2 DEF MendInv

\* What a worker's call may do to an interface, its own or one another worker is at.
LEMMA WorkerTouches ==
    ASSUME Types, TargetsFit, NEW n \in Name, Worker(n), NEW s \in Request, NEW i \in Iface
    PROVE  /\ named[s] \subseteq named'[s]
           /\ \/ links'[s][i] = links[s][i]
              \/ \E x \in Asked[i] \cup Kept(i) : links'[s][i] = links[s][i] \cup {x}
              \/ /\ links'[s][i] = {}
                 /\ Fits(i, {}) \/ (work'[n].sys = s /\ MendsLinks(n, i)')
<1> USE DEF Types, WorkerTypes, MachineTypes, WorkRecord
<1>1. links[work[n].sys] \in [Iface -> SUBSET Subnet] /\ links \in [Request -> Links]
  BY DEF Links
<1>2. CASE Disconnect(n)
  <2>1. UNCHANGED named
    BY <1>2 DEF Change, Disconnect
  <2>2. CASE UNCHANGED links
    BY <2>1, <2>2
  <2>3. CASE ~UNCHANGED links
    <3>1. /\ wpc[n] = "disconnect"
          /\ links' = [links EXCEPT ![work[n].sys][work[n].at] = {}] /\ UNCHANGED work
          /\ wpc'[n] \in {"broken", IF work[n].add = {} THEN AfterLinks(n) ELSE "link"}
      BY <1>2, <2>3 DEF Change, Disconnect, ThenCalled, Then, At
    <3>2. CASE work[n].sys = s /\ work[n].at = i
      <4>1. links'[s][i] = {} /\ Fits(i, work[n].add)
        BY <1>1, <3>1, <3>2 DEF TargetsFit, TargetFits
      <4>2. wpc'[n] \in {"broken", "link"} \/ Fits(i, {})
        BY <3>1, <4>1
      <4>3. wpc'[n] \in {"broken", "link"} => MendsLinks(n, i)'
        BY <3>1, <3>2, <4>1 DEF MendsLinks, Starts
      <4> QED BY <2>1, <3>1, <3>2, <4>1, <4>2, <4>3
    <3>3. CASE ~(work[n].sys = s /\ work[n].at = i)
      <4>1. links'[s][i] = links[s][i]
        BY <1>1, <3>1, <3>3
      <4> QED BY <2>1, <4>1
    <3> QED BY <3>2, <3>3
  <2> QED BY <2>2, <2>3
<1>3. CASE Link(n)
  <2>1. UNCHANGED named
    BY <1>3 DEF Change, Link
  <2>2. CASE UNCHANGED links
    BY <2>1, <2>2
  <2>3. CASE ~UNCHANGED links
    <3>1. PICK x \in work[n].add :
             links' = [links EXCEPT ![work[n].sys][work[n].at] = @ \cup {x}]
      BY <1>3, <2>3 DEF Change, Link
    <3>2. x \in Asked[work[n].at] \cup Kept(work[n].at)
      BY <1>3 DEF Change, Link, At, TargetsFit, TargetFits
    <3>3. links'[s][i] = links[s][i] \/ (work[n].at = i /\ links'[s][i] = links[s][i] \cup {x})
      BY <1>1, <3>1
    <3> QED BY <2>1, <3>2, <3>3
  <2> QED BY <2>2, <2>3
<1>4. CASE Rename(n)
  <2>1. UNCHANGED links /\ named[s] \subseteq named'[s]
    BY <1>4 DEF Change, Rename
  <2> QED BY <2>1
<1>5. CASE ~(Disconnect(n) \/ Link(n) \/ Rename(n))
  <2>1. UNCHANGED <<links, named>>
    BY <1>5 DEF Worker, WorkerFinds, WorkerFindsNone, WorkerCreates, CommissionGuard, Register,
       Commission, Poll, GetSubnets, GetAccessInfo,
       CreateSubnet, GetInterfaces, NextInterface, WorkerCallFails, MarkBroken, machineVars
  <2> QED BY <2>1
<1> QED BY <1>2, <1>3, <1>4, <1>5

\* A worker that sees to an interface goes on with it, if its machine stays Ready.
LEMMA OwnMends ==
    ASSUME Types, TargetsFit, NEW n \in Name, Worker(n), Busy(n), ~Conceals(n),
           NEW s \in Request, s = work[n].sys, status[s] = "Ready", status'[s] = "Ready",
           NEW i \in Iface
    PROVE  /\ work'[n].sys = s
           /\ MendsLinks(n, i) => Fits(i, links'[s][i]) \/ MendsLinks(n, i)'
           /\ MendsName(n, i) => i \in named'[s] \/ MendsName(n, i)'
<1> USE DEF Types, WorkerTypes, MachineTypes, WorkRecord
<1>1. \A l : At(n, l) => wpc[n] = l
  BY DEF At
<1>2. Exists(s) /\ ~InProgress(s) /\ links[s] \in [Iface -> SUBSET Subnet]
  BY DEF Exists, InProgress, Links
<1>3. CASE Poll(n)
  <2>1. wpc'[n] = "subnets" /\ UNCHANGED work
    BY <1>2, <1>3 DEF Poll, Then
  <2> QED BY <2>1 DEF MendsLinks, MendsName, Starts, Reads
<1>12. CASE GetSubnets(n) \/ GetAccessInfo(n) \/ CreateSubnet(n)
  <2>1. wpc'[n] \in Reads \cup {"broken"} /\ work'[n].sys = s
    BY <1>1, <1>12 DEF GetSubnets, GetAccessInfo, CreateSubnet, Then, ThenCalled, Reads
  <2> QED BY <2>1 DEF MendsLinks, MendsName, Starts
<1>4. CASE GetInterfaces(n)
  <2>1. /\ wpc'[n] = "loop" /\ UNCHANGED <<links, named>>
        /\ work'[n].left = Iface /\ work'[n].links = links[s] /\ work'[n].named = named[s]
        /\ work'[n].sys = s
    BY <1>2, <1>4 DEF GetInterfaces, Then, machineVars
  <2> QED BY <2>1 DEF MendsLinks, MendsName, Tail
<1>5. CASE NextInterface(n)
  <2>1. wpc[n] = "loop" /\ UNCHANGED <<links, named>>
    BY <1>1, <1>5 DEF NextInterface, machineVars
  <2>2. CASE work[n].left = {} /\ UNCHANGED work
    BY <2>1, <2>2 DEF MendsLinks, MendsName, Starts, Tail, Reads
  <2>3. CASE work[n].left # {}
    <3>1. PICK j \in work[n].left :
            /\ work' = [work EXCEPT ![n].left = @ \ {j}, ![n].at = j, ![n].add = Target(n, j)]
            /\ wpc'[n] = IF work[n].links[j] # Target(n, j) THEN "disconnect"
                         ELSE IF j \in work[n].named THEN "loop" ELSE "rename"
      BY <1>5, <2>3 DEF NextInterface, Then
    <3>2. /\ work'[n].left = work[n].left \ {j} /\ work'[n].at = j /\ work'[n].sys = s
          /\ work'[n].links = work[n].links /\ work'[n].named = work[n].named
      BY <3>1
    <3>3. Fits(j, Target(n, j))
      BY TargetIsFit DEF TargetsFit
    <3> QED BY <2>1, <3>1, <3>2, <3>3 DEF MendsLinks, MendsName, Starts, Tail, Reads
  <2> QED BY <1>5, <2>2, <2>3 DEF NextInterface
<1>6. CASE Disconnect(n)
  <2>1. /\ wpc[n] = "disconnect" /\ UNCHANGED <<named, work>>
        /\ links' = [links EXCEPT ![s][work[n].at] = {}]
        /\ wpc'[n] \in {"broken", IF work[n].add = {} THEN AfterLinks(n) ELSE "link"}
    BY <1>2, <1>6 DEF Change, Disconnect, ThenCalled, Then, At
  <2>2. Fits(work[n].at, work[n].add)
    BY <2>1 DEF TargetsFit, TargetFits
  <2>3. /\ work[n].at = i => links'[s][i] = {}
        /\ work[n].at # i => links'[s][i] = links[s][i]
    BY <1>2, <2>1
  <2>4. wpc'[n] \in {"broken", "link"} \/ (wpc'[n] = AfterLinks(n) /\ Fits(work[n].at, {}))
    BY <2>1, <2>2
  <2>5. MendsLinks(n, i) => Fits(i, links'[s][i]) \/ MendsLinks(n, i)'
    BY <2>1, <2>2, <2>3, <2>4 DEF MendsLinks, Starts, Reads, Tail, AfterLinks
  <2>6. MendsName(n, i) => MendsName(n, i)'
    BY <2>1, <2>4 DEF MendsName, Starts, Reads, Tail, AfterLinks
  <2> QED BY <2>1, <2>5, <2>6
<1>7. CASE Link(n)
  <2>1. wpc[n] = "link"
    BY <1>7 DEF Change, Link, At
  <2>2. PICK x \in work[n].add :
             /\ links' = [links EXCEPT ![s][work[n].at] = @ \cup {x}] /\ UNCHANGED named
             /\ work' = [work EXCEPT ![n].add = @ \ {x}]
             /\ wpc'[n] \in {"broken", IF work[n].add = {x} THEN AfterLinks(n) ELSE "link"}
    <3>1. \A l : ThenCalled(n, l) => wpc'[n] \in {"broken", l}
      BY DEF ThenCalled, Then
    <3> QED BY <1>2, <1>7, <3>1 DEF Change, Link
  <2>3. /\ work'[n].add = work[n].add \ {x} /\ work'[n].left = work[n].left /\ work'[n].sys = s
        /\ work'[n].links = work[n].links /\ work'[n].named = work[n].named
        /\ work'[n].at = work[n].at
    BY <2>2
  <2>4. /\ work[n].at = i => links'[s][i] = links[s][i] \cup {x}
        /\ work[n].at # i => links'[s][i] = links[s][i]
    BY <1>2, <2>2
  <2>5. wpc'[n] \in {"broken", "link"} \/ (wpc'[n] = AfterLinks(n) /\ work[n].add = {x})
    BY <2>2
  <2>6. ASSUME MendsLinks(n, i) PROVE Fits(i, links'[s][i]) \/ MendsLinks(n, i)'
    <3>1. CASE work[n].at = i /\ Fits(i, links[s][i] \cup work[n].add)
      <4>1. links'[s][i] \cup work'[n].add = links[s][i] \cup work[n].add
        BY <2>2, <2>3, <2>4, <3>1
      <4>2. work[n].add = {x} => Fits(i, links'[s][i])
        BY <2>4, <3>1
      <4> QED BY <2>3, <2>5, <3>1, <4>1, <4>2 DEF MendsLinks, Starts
    <3>2. CASE i \in work[n].left /\ ~Fits(i, work[n].links[i])
      BY <2>3, <2>5, <3>2 DEF MendsLinks, Starts, Tail, AfterLinks
    <3> QED BY <2>1, <2>6, <3>1, <3>2 DEF MendsLinks, Starts, Reads
  <2>7. MendsName(n, i) => MendsName(n, i)'
    BY <2>1, <2>3, <2>5 DEF MendsName, Starts, Reads, Tail, AfterLinks
  <2> QED BY <2>3, <2>6, <2>7
<1>8. CASE Rename(n)
  <2>1. /\ wpc[n] = "rename" /\ UNCHANGED <<links, work>>
        /\ named' = [named EXCEPT ![s] = @ \cup {work[n].at}]
        /\ wpc'[n] \in {"broken", "loop"}
    BY <1>2, <1>8 DEF Change, Rename, ThenCalled, Then, At
  <2>2. named'[s] = named[s] \cup {work[n].at}
    BY <2>1
  <2> QED BY <2>1, <2>2 DEF MendsLinks, MendsName, Starts, Reads, Tail
<1>9. CASE WorkerCallFails(n)
  <2>1. wpc'[n] = "broken" /\ UNCHANGED work
    BY <1>1, <1>9 DEF WorkerCallFails, Then, Busy, Tail, Reads
  <2> QED BY <2>1 DEF MendsLinks, MendsName, Starts
<1>10. CASE MarkBroken(n)
  BY <1>1, <1>2, <1>10 DEF MarkBroken, Then, Conceals
<1>11. ~(WorkerFinds(n) \/ WorkerFindsNone(n) \/ WorkerCreates(n) \/ CommissionGuard(n) \/ Commission(n))
  BY <1>1 DEF WorkerFinds, WorkerFindsNone, WorkerCreates, CommissionGuard, Commission, Busy, Tail, Reads
<1> QED BY <1>3, <1>4, <1>5, <1>6, <1>7, <1>8, <1>9, <1>10, <1>11, <1>12 DEF Worker

\* Calls of a worker that make a machine InProgress or find it so, and none makes one Ready.
LEMMA WorkerStatus ==
    ASSUME Types, NEW n \in Name, Worker(n), ~Conceals(n), NEW s \in Request
    PROVE  /\ status'[s] = "Ready" => status[s] = "Ready"
           /\ InProgress(s)' => \/ work'[n].sys = s /\ wpc'[n] \in {"poll", "broken"}
                                \/ /\ InProgress(s)
                                   /\ ~(work[n].sys = s /\ wpc[n] \in {"poll", "broken"})
<1> USE DEF Types, WorkerTypes, MachineTypes, WorkRecord, InProgress, Exists
<1>1. \A l : At(n, l) => wpc[n] = l
  BY DEF At
<1>2. CASE Commission(n)
  <2>1. UNCHANGED work
    BY <1>2 DEF Commission
  <2>2. CASE UNCHANGED status
    BY <1>1, <1>2, <2>2 DEF Commission
  <2>3. CASE ~UNCHANGED status
    BY <1>2, <2>1, <2>3 DEF Commission, ThenCalled, Then
  <2> QED BY <2>2, <2>3
<1>3. CASE MarkBroken(n)
  BY <1>1, <1>3 DEF MarkBroken, Then, Conceals
<1>4. CASE Poll(n)
  BY <1>1, <1>4 DEF Poll, Then, machineVars
<1>5. CASE WorkerCallFails(n)
  BY <1>1, <1>5 DEF WorkerCallFails, Then, machineVars
<1>6. CASE WorkerCreates(n)
  BY <1>1, <1>6 DEF WorkerCreates, Register, machineVars
<1>7. CASE WorkerFinds(n) \/ WorkerFindsNone(n) \/ CommissionGuard(n) \/ NextInterface(n)
           \/ GetSubnets(n) \/ GetAccessInfo(n) \/ CreateSubnet(n) \/ GetInterfaces(n)
  BY <1>1, <1>7 DEF WorkerFinds, WorkerFindsNone, CommissionGuard, GetSubnets, GetAccessInfo,
     CreateSubnet, GetInterfaces, NextInterface,
     machineVars
<1>8. CASE Disconnect(n) \/ Link(n) \/ Rename(n)
  <2>1. UNCHANGED status /\ wpc[n] \notin {"poll", "broken"}
    BY <1>1, <1>8 DEF Change, Disconnect, Link, Rename
  <2> QED BY <2>1
<1> QED BY <1>2, <1>3, <1>4, <1>5, <1>6, <1>7, <1>8 DEF Worker

\* The machine is mended as before, by the worker that makes the call or by another.
LEMMA WorkerMends ==
    ASSUME Types, TargetsFit, NEW n \in Name, Worker(n), ~Conceals(n),
           NEW s \in Request, Attended(s), Mended(s)
    PROVE  Attended(s)' /\ Mended(s)'
<1>1. \A m \in Name \ {n} : wpc'[m] = wpc[m] /\ work'[m] = work[m]
  BY DEF Worker, WorkerFinds, WorkerFindsNone, WorkerCreates, CommissionGuard,
     Commission, Poll, GetSubnets, GetAccessInfo,
     CreateSubnet, GetInterfaces, NextInterface, Change, Disconnect, Link, Rename,
     WorkerCallFails, MarkBroken, Then, ThenCalled, Types, WorkerTypes
<1>2. Attended(s)'
  BY <1>1, WorkerStatus DEF Attended
<1>3. ASSUME status'[s] = "Ready", NEW i \in Iface
      PROVE  LinksMended(s, i)' /\ NameMended(s, i)'
  <2>1. status[s] = "Ready" /\ LinksMended(s, i) /\ NameMended(s, i)
    BY <1>3, WorkerStatus DEF Mended
  <2>2. NameMended(s, i)'
    <3>1. CASE i \in named[s]
      BY <3>1, WorkerTouches DEF NameMended
    <3>2. ASSUME NEW m \in Name \ {n}, work[m].sys = s, MendsName(m, i)
          PROVE  NameMended(s, i)'
      BY <1>1, <3>2 DEF NameMended, MendsName, Starts
    <3>3. CASE work[n].sys = s /\ MendsName(n, i)
      <4>1. Busy(n) BY <3>3 DEF MendsName, Starts, Busy, Tail, Reads
      <4> QED BY <1>3, <2>1, <3>3, <4>1, OwnMends DEF NameMended
    <3> QED BY <2>1, <3>1, <3>2, <3>3 DEF NameMended
  <2>3. LinksMended(s, i)'
    <3>1. CASE Fits(i, links[s][i])
      <4>1. Fits(i, links'[s][i]) \/ (work'[n].sys = s /\ MendsLinks(n, i)')
        <5>1. \/ links'[s][i] = links[s][i]
              \/ \E x \in Asked[i] \cup Kept(i) : links'[s][i] = links[s][i] \cup {x}
              \/ links'[s][i] = {} /\ (Fits(i, {}) \/ (work'[n].sys = s /\ MendsLinks(n, i)'))
          BY WorkerTouches
        <5> QED BY <3>1, <5>1 DEF Fits
      <4> QED BY <4>1 DEF LinksMended
    <3>2. ASSUME NEW m \in Name \ {n}, work[m].sys = s, MendsLinks(m, i)
          PROVE  LinksMended(s, i)'
      <4>1. wpc'[m] = wpc[m] /\ work'[m] = work[m]
        BY <1>1
      <4>2. CASE wpc[m] = "link" /\ work[m].at = i /\ Fits(i, links[s][i] \cup work[m].add)
        <5>1. ASSUME Fits(i, links'[s][i] \cup work[m].add)
              PROVE  LinksMended(s, i)'
          BY <3>2, <4>1, <4>2, <5>1 DEF LinksMended, MendsLinks
        <5>2. \/ Fits(i, links'[s][i] \cup work[m].add)
              \/ Fits(i, links'[s][i])
              \/ work'[n].sys = s /\ MendsLinks(n, i)'
          <6>1. \/ links'[s][i] = links[s][i]
                \/ \E x \in Asked[i] \cup Kept(i) : links'[s][i] = links[s][i] \cup {x}
                \/ links'[s][i] = {} /\ (Fits(i, {}) \/ (work'[n].sys = s /\ MendsLinks(n, i)'))
            BY WorkerTouches
          <6> QED BY <4>2, <6>1 DEF Fits
        <5> QED BY <5>1, <5>2 DEF LinksMended
      <4>3. CASE ~(wpc[m] = "link" /\ work[m].at = i /\ Fits(i, links[s][i] \cup work[m].add))
        BY <3>2, <4>1, <4>3 DEF LinksMended, MendsLinks, Starts
      <4> QED BY <4>2, <4>3
    <3>3. CASE work[n].sys = s /\ MendsLinks(n, i)
      <4>1. Busy(n) BY <3>3 DEF MendsLinks, Starts, Busy, Tail, Reads
      <4> QED BY <1>3, <2>1, <3>3, <4>1, OwnMends DEF LinksMended
    <3> QED BY <2>1, <3>1, <3>2, <3>3 DEF LinksMended
  <2> QED BY <2>2, <2>3
<1> QED BY <1>2, <1>3 DEF Mended

LEMMA MendStep ==
    Types /\ WorkersAreCounted /\ LoneInv /\ MendInv /\ [MNext /\ Observe]_<<allVars, histVars>>
        => MendInv'
<1> SUFFICES ASSUME Types, WorkersAreCounted, LoneInv, MendInv,
                    [MNext /\ Observe]_<<allVars, histVars>>
             PROVE  MendInv'
  OBVIOUS
<1>1. CASE UNCHANGED <<allVars, histVars>>
  <2>1. TargetsFit'
    BY <1>1, TargetsFitElsewhere DEF MendInv
  <2>2. UNCHANGED <<status, links, named, wpc, work, deserted>>
    BY <1>1 DEF allVars, machineVars, workerVars, histVars
  <2>3. \A n \in Name, i \in Iface : /\ MendsLinks(n, i)' <=> MendsLinks(n, i)
                                     /\ MendsName(n, i)' <=> MendsName(n, i)
    BY <2>2 DEF MendsLinks, MendsName, Starts
  <2> QED BY <2>1, <2>2, <2>3 DEF MendInv, Attended, Mended, LinksMended, NameMended, InProgress
<1>2. CASE Elsewhere /\ Observe
  BY <1>2, ElsewhereMends
<1>3. ASSUME NEW n \in Name, Worker(n), MNext, Observe PROVE MendInv'
  <2>1. TargetsFit'
    BY <1>3, WorkerTargetsFit DEF MendInv
  <2>2. ASSUME NEW s \in Request \ deserted' PROVE Attended(s)' /\ Mended(s)'
    <3>1. CASE s \notin deserted
      <4>1. Attended(s) /\ Mended(s) /\ TargetsFit
        BY <3>1 DEF MendInv
      <4>2. CASE ~Conceals(n)
        BY <1>3, <4>1, <4>2, WorkerMends
      <4>3. CASE Conceals(n)
        <5>1. work[n].sys # s
          BY <1>3, <2>2, <4>3 DEF Observe
        <5>2. MarkBroken(n)
          <6>1. wpc[n] = "broken" /\ wpc'[n] = "done"
            BY <4>3 DEF Conceals
          <6>2. \A l : At(n, l) => l = "broken"
            BY <6>1 DEF At
          <6> QED BY <1>3, <6>1, <6>2 DEF Worker, WorkerFinds, WorkerFindsNone, WorkerCreates,
             CommissionGuard, Commission, Poll, GetSubnets, GetAccessInfo,
             CreateSubnet, GetInterfaces, NextInterface, Change, Disconnect,
             Link, Rename, WorkerCallFails, Then
        <5>3. /\ UNCHANGED <<links, named, work>> /\ status'[s] = status[s]
              /\ \A m \in Name \ {n} : wpc'[m] = wpc[m]
          BY <5>1, <5>2 DEF MarkBroken, Then, Types, MachineTypes, WorkerTypes
        <5>4. \A m \in Name : work[m].sys = s => m # n
          BY <5>1
        <5>5. ASSUME NEW m \in Name, work[m].sys = s, NEW i \in Iface
              PROVE  /\ MendsLinks(m, i) => MendsLinks(m, i)'
                     /\ MendsName(m, i) => MendsName(m, i)'
          BY <5>3, <5>4, <5>5 DEF MendsLinks, MendsName, Starts
        <5> QED BY <4>1, <5>3, <5>4, <5>5 DEF Attended, Mended, LinksMended, NameMended, InProgress
      <4> QED BY <4>2, <4>3
    <3>2. CASE s \in deserted
      <4>1. PICK m \in Name \ shared : Finishes(m) /\ work[m].sys = s
        BY <1>3, <2>2, <3>2 DEF Observe
      <4>2. m = n
        BY <1>3, <4>1, WorkerCalls DEF Finishes
      <4>3. wpc[n] = "loop" /\ n \notin shared
        BY <4>1, <4>2 DEF Finishes
      <4>4. UNCHANGED machineVars
        <5>1. \A l : At(n, l) => l = "loop"
          BY <4>3 DEF At
        <5> QED BY <1>3, <5>1 DEF Worker, WorkerFinds, WorkerFindsNone, WorkerCreates,
             CommissionGuard, Commission, Poll, GetSubnets, GetAccessInfo,
             CreateSubnet, GetInterfaces, NextInterface, Change, Disconnect,
             Link, Rename, WorkerCallFails, MarkBroken
      <4>5. CASE Exists(s)
        <5>1. Configured(s)
          BY <1>3, <4>1, <4>5, EndConfigured DEF MNext, MendInv
        <5>2. ~InProgress(s)
          BY <4>1, <4>2, <4>3, <4>5 DEF LoneInv, Lone, Sound, AtRest, Tail
        <5> QED BY <4>4, <5>1, <5>2 DEF machineVars, Configured, Attended, Mended, LinksMended,
               NameMended, InProgress
      <4>6. CASE ~Exists(s)
        BY <4>4, <4>6 DEF machineVars, Exists, Attended, Mended, InProgress
      <4> QED BY <4>5, <4>6
    <3> QED BY <3>1, <3>2
  <2> QED BY <2>1, <2>2 DEF MendInv
<1> QED BY <1>1, <1>2, <1>3, StepIs DEF MNext

\* What Prompt makes of MendInv: a worker that still mends a machine keeps it Processing,
\* unless its job is another system's.
LEMMA CountedMends ==
    ASSUME WorkersAreCounted, NEW s \in Request, ~HasJob(s), ~Strayed(s)
    PROVE  \A n \in Name : ~IsAt(n, s)
<1> SUFFICES ASSUME NEW n \in Name, IsAt(n, s) PROVE FALSE
  OBVIOUS
<1>1. job[n] = "active" /\ n[1] = s
  BY DEF WorkersAreCounted, IsAt, Strayed
<1> QED BY <1>1 DEF HasJob, ActiveJobs, SameSystem

LEMMA MendedIsConfigured == WorkersAreCounted /\ Types /\ MendInv => ReadyIsConfigured
<1> SUFFICES ASSUME WorkersAreCounted, Types, MendInv, NEW s \in Request \ deserted,
                    ReadyStatus(s) = "Ready", ~Strayed(s)
             PROVE  Configured(s)
  BY DEF ReadyIsConfigured
<1>1. status[s] = "Ready" /\ ~HasJob(s)
  BY DEF ReadyStatus, ReadyFlow
<1>2. \A n \in Name : work[n].sys = s => ~Busy(n)
  BY <1>1, CountedMends DEF IsAt, Busy, Tail, Reads
<1>3. ASSUME NEW i \in Iface PROVE Fits(i, links[s][i]) /\ i \in named[s]
  <2>1. LinksMended(s, i) /\ NameMended(s, i)
    BY <1>1, <1>3 DEF MendInv, Mended
  <2>2. \A n \in Name : MendsLinks(n, i) \/ MendsName(n, i) => Busy(n)
    BY DEF MendsLinks, MendsName, Starts, Busy, Tail, Reads
  <2> QED BY <1>2, <2>1, <2>2 DEF LinksMended, NameMended
<1>4. links[s] \in [Iface -> SUBSET Subnet] /\ named[s] \subseteq Iface
  BY DEF Types, MachineTypes, Links
<1> QED BY <1>3, <1>4 DEF Configured

LEMMA MendInvariant ==
    ASSUME Prompt PROVE ObservedSpec => [](WorkersAreCounted /\ Types /\ LoneInv /\ MendInv)
<1>1. ObservedSpec => MSpec
  <2>1. [MNext /\ Observe]_<<allVars, histVars>> => [MNext]_allVars
    OBVIOUS
  <2> QED BY <2>1, PTL DEF ObservedSpec, MSpec
<1>2. MInit => LoneInv /\ MendInv
  BY TargetsFitInit DEF MInit, LoneInv, Lone, MendInv, Attended, Mended, InProgress
<1>3. ObservedSpec => [](WorkersAreCounted /\ Types)
  BY <1>1, CountedInvariant, PTL
<1> QED BY <1>2, <1>3, LoneStep, MendStep, PTL DEF ObservedSpec

\* A machine is shown as Ready only if it is configured, a worker has deserted it or one
\* of another system's job is at it: for any number of concurrent registrations, cancels
\* and deletions, whichever calls to MAAS fail and whichever workers die
\* (ReadyIsConfigured, under Prompt).
THEOREM ReadyConfigured == ASSUME Prompt PROVE ObservedSpec => []ReadyIsConfigured
BY MendInvariant, MendedIsConfigured, PTL

-----------------------------------------------------------------------------
(* The links of the boot interface *)

\* A worker holds the links MAAS gave the boot interface: the interface has them, or the
\* worker is to link it to them again; from its reading on it has them in its target.
Holds(n) ==
    LET have == links[work[n].sys][Boot] IN
    /\ wpc[n] \in Tail \cup {"interfaces"} => AutoLinks[Boot] \subseteq work[n].boot
    /\ wpc[n] = "disconnect" /\ work[n].at = Boot => AutoLinks[Boot] \subseteq work[n].add
    /\ \/ wpc[n] = "broken"
       \/ AutoLinks[Boot] \subseteq have
       \/ wpc[n] = "link" /\ work[n].at = Boot /\ AutoLinks[Boot] \subseteq have \cup work[n].add

\* One worker at most is at the links of a machine, and it holds those of the boot
\* interface; with none there the interface has them once MAAS has commissioned it.
Kind(s) ==
    /\ \A m, n \in Name : AtLinks(m, s) /\ AtLinks(n, s) => m = n
    /\ \A n \in Name : AtLinks(n, s) => Holds(n)
    /\ status[s] \in {"Testing", "Ready"} =>
         (\E n \in Name : AtLinks(n, s)) \/ AutoLinks[Boot] \subseteq links[s][Boot]
BootInv == \A s \in Request \ bereft : Kind(s)

LEMMA LinkingIs == Linking = Tail \cup Reads \cup {"broken"}
BY DEF Linking, Tail, Reads

\* A step elsewhere: workers stay, and MAAS gives the links back when it commissions.
LEMMA ElsewhereKeeps ==
    ASSUME Types, WorkersAreCounted, Elsewhere, NEW s \in Request, Kind(s), ~AtRisk(s)
    PROVE  Kind(s)'
<1>1. ASSUME NEW n \in Name, AtLinks(n, s)
      PROVE  wpc'[n] = wpc[n] /\ work'[n] = work[n]
  <2>1. Busy(n) /\ ~Dies(n)
    BY <1>1, LinkingIs DEF AtLinks, Busy, AtRisk
  <2> QED BY <2>1, BusyRests
<1>2. ASSUME NEW n \in Name, AtLinks(n, s)'
      PROVE  AtLinks(n, s) /\ wpc'[n] = wpc[n] /\ work'[n] = work[n]
  <2>1. wpc'[n] = wpc[n] /\ work'[n] = work[n]
    BY <1>2, WorkerRests DEF AtLinks, Linking
  <2> QED BY <1>2, <2>1 DEF AtLinks
<1>3. \A m, n \in Name : AtLinks(m, s)' /\ AtLinks(n, s)' => m = n
  BY <1>2 DEF Kind
<1>4. ASSUME NEW n \in Name, AtLinks(n, s)' PROVE Holds(n)'
  <2>1. Holds(n) /\ work[n].sys = s
    BY <1>2, <1>4 DEF Kind, AtLinks
  <2>2. links'[s] = links[s] \/ links'[s] = AutoLinks
    BY LinksRest
  <2> QED BY <1>2, <1>4, <2>1, <2>2 DEF Holds
<1>5. ASSUME status'[s] \in {"Testing", "Ready"}, ~\E n \in Name : AtLinks(n, s)'
      PROVE  AutoLinks[Boot] \subseteq links'[s][Boot]
  <2>1. CASE links'[s] = AutoLinks
    BY <2>1
  <2>2. CASE links'[s] = links[s] /\ status[s] \in {"Testing", "Ready"}
    <3>1. ~\E n \in Name : AtLinks(n, s)
      BY <1>1, <1>5 DEF AtLinks
    <3> QED BY <2>2, <3>1 DEF Kind
  <2> QED BY <1>5, <2>1, <2>2, LinksRest
<1> QED BY <1>3, <1>4, <1>5 DEF Kind

\* What a worker does to the boot interface, at its own machine only.
LEMMA WorkerKeepsLinks ==
    ASSUME Types, NEW n \in Name, Worker(n), NEW s \in Request, ~AtLinks(n, s)
    PROVE  /\ links'[s] = links[s]
           /\ AtLinks(n, s)' => \/ wpc'[n] = "broken"
                                \/ wpc'[n] = "subnets" /\ status[s] = "Ready"
<1> USE DEF Types, WorkerTypes, MachineTypes, WorkRecord
<1>1. \A l : At(n, l) => wpc[n] = l
  BY DEF At
<1>2. CASE Disconnect(n) \/ Link(n) \/ Rename(n)
  <2>1. wpc[n] \in {"disconnect", "link", "rename"}
    BY <1>1, <1>2 DEF Disconnect, Link, Rename, Change
  <2>2. work[n].sys # s
    BY <2>1 DEF AtLinks, Linking
  <2>3. work'[n].sys = work[n].sys
    BY <1>2 DEF Disconnect, Link, Rename, Change
  <2>4. links'[s] = links[s]
    BY <1>2, <2>2 DEF Disconnect, Link, Rename, Change
  <2> QED BY <2>2, <2>3, <2>4 DEF AtLinks
<1>3. CASE NextInterface(n) \/ GetSubnets(n) \/ GetAccessInfo(n) \/ CreateSubnet(n)
           \/ GetInterfaces(n) \/ MarkBroken(n)
  <2>1. work[n].sys # s
    BY <1>1, <1>3 DEF NextInterface, GetSubnets, GetAccessInfo, CreateSubnet, GetInterfaces,
       MarkBroken, AtLinks, Linking
  <2>2. work'[n].sys = work[n].sys /\ UNCHANGED links
    <3>1. CASE GetInterfaces(n)
      BY <3>1, SnapshotKeeps DEF machineVars
    <3>2. CASE NextInterface(n)
      BY <3>2 DEF NextInterface, machineVars
    <3>3. CASE GetSubnets(n) \/ GetAccessInfo(n) \/ CreateSubnet(n) \/ MarkBroken(n)
      BY <3>3 DEF GetSubnets, GetAccessInfo, CreateSubnet, MarkBroken, machineVars
    <3> QED BY <1>3, <3>1, <3>2, <3>3
  <2> QED BY <2>1, <2>2 DEF AtLinks
<1>4. CASE Poll(n)
  BY <1>4 DEF Poll, Then, machineVars, AtLinks
<1>5. CASE WorkerCallFails(n)
  BY <1>5 DEF WorkerCallFails, Then, machineVars, AtLinks, Linking
<1>6. CASE CommissionGuard(n) \/ Commission(n)
  BY <1>6 DEF CommissionGuard, Commission, Then, ThenCalled, machineVars, AtLinks, Linking
<1>7. CASE WorkerFinds(n) \/ WorkerFindsNone(n) \/ WorkerCreates(n)
  <2>1. wpc'[n] \in {"guard", "create", "failed"}
    BY <1>7 DEF WorkerFinds, WorkerFindsNone, WorkerCreates, Then
  <2>2. UNCHANGED links
    BY <1>7 DEF WorkerFinds, WorkerFindsNone, WorkerCreates, Register, machineVars
  <2> QED BY <2>1, <2>2 DEF AtLinks, Linking
<1> QED BY <1>2, <1>3, <1>4, <1>5, <1>6, <1>7 DEF Worker

\* The worker that is at the links goes on holding those of the boot interface, or ends
\* with the machine marked broken or with the links in place.
LEMMA WorkerHolds ==
    ASSUME Types, NEW n \in Name, Worker(n), NEW s \in Request, AtLinks(n, s), Holds(n),
           ~Conceals(n)
    PROVE  \/ AtLinks(n, s)' /\ Holds(n)'
           \/ ~AtLinks(n, s)' /\ (status'[s] = "Broken" \/ AutoLinks[Boot] \subseteq links'[s][Boot])
<1> USE DEF Types, WorkerTypes, MachineTypes, WorkRecord
<1>1. \A l : At(n, l) => wpc[n] = l
  BY DEF At
<1>2. work[n].sys = s /\ wpc[n] \in Linking /\ Boot \in Iface
      /\ links[s] \in [Iface -> SUBSET Subnet]
  BY MachineAssumption DEF AtLinks, Links
<1>3. CASE GetSubnets(n) \/ CreateSubnet(n)
  <2>1. /\ wpc[n] \in {"subnets", "interfaces"} /\ wpc'[n] \in {"access", "interfaces", "broken"}
        /\ wpc[n] = "subnets" => wpc'[n] = "access"
        /\ UNCHANGED links /\ work'[n].sys = s /\ work'[n].boot = work[n].boot
    BY <1>1, <1>2, <1>3 DEF GetSubnets, CreateSubnet, Then, ThenCalled, machineVars
  <2> QED BY <1>2, <2>1 DEF AtLinks, Holds, Linking, Tail
<1>4. CASE GetAccessInfo(n)
  <2>1. /\ wpc[n] = "access" /\ UNCHANGED links /\ work'[n].sys = s
        /\ wpc'[n] = "broken" \/ (wpc'[n] = "interfaces" /\ work'[n].boot = links[s][Boot])
    BY <1>1, <1>2, <1>4 DEF GetAccessInfo, Then, machineVars
  <2> QED BY <1>2, <2>1 DEF AtLinks, Holds, Linking, Tail
<1>5. CASE GetInterfaces(n)
  <2>1. /\ wpc[n] = "interfaces" /\ UNCHANGED links
        /\ (wpc'[n] = "broken" /\ UNCHANGED work) \/ wpc'[n] = "loop"
    BY <1>1, <1>5 DEF GetInterfaces, Then, machineVars
  <2>2. work'[n].sys = s /\ work'[n].boot = work[n].boot
    BY <1>2, <1>5, SnapshotKeeps
  <2> QED BY <1>2, <2>1, <2>2 DEF AtLinks, Holds, Linking, Tail
<1>6. CASE NextInterface(n)
  <2>1. wpc[n] = "loop" /\ UNCHANGED links
    BY <1>1, <1>6 DEF NextInterface, machineVars
  <2>2. AutoLinks[Boot] \subseteq links[s][Boot] /\ AutoLinks[Boot] \subseteq work[n].boot
    BY <1>2, <2>1 DEF Holds, Tail
  <2>3. CASE wpc'[n] = "done"
    BY <2>1, <2>2, <2>3 DEF AtLinks, Linking
  <2>4. CASE wpc'[n] # "done"
    <3>1. PICK i \in work[n].left :
            /\ work' = [work EXCEPT ![n].left = @ \ {i}, ![n].at = i, ![n].add = Target(n, i)]
            /\ wpc'[n] \in {"disconnect", "loop", "rename"}
      BY <1>6, <2>4 DEF NextInterface, Then
    <3>2. /\ work'[n].sys = s /\ work'[n].boot = work[n].boot
          /\ work'[n].at = i /\ work'[n].add = Target(n, i)
      BY <1>2, <3>1
    <3>3. i = Boot => AutoLinks[Boot] \subseteq Target(n, i)
      BY <2>2 DEF Target
    <3> QED BY <2>1, <2>2, <3>1, <3>2, <3>3 DEF AtLinks, Holds, Linking, Tail
  <2> QED BY <2>3, <2>4
<1>7. CASE Disconnect(n)
  <2>1. wpc[n] = "disconnect" /\ UNCHANGED work /\ (Then(n, "broken") => wpc'[n] = "broken")
    BY <1>1, <1>7 DEF Disconnect, Change, Then
  <2>2. CASE wpc'[n] = "broken"
    BY <1>2, <2>1, <2>2 DEF AtLinks, Holds, Linking, Tail
  <2>3. CASE wpc'[n] # "broken"
    <3>1. /\ links' = [links EXCEPT ![s][work[n].at] = {}]
          /\ wpc'[n] = IF work[n].add = {} THEN AfterLinks(n) ELSE "link"
      BY <1>2, <1>7, <2>1, <2>3 DEF Disconnect, Change, Then, ThenCalled
    <3>2. links'[s][Boot] = IF work[n].at = Boot THEN {} ELSE links[s][Boot]
      BY <1>2, <3>1
    <3>3. wpc'[n] \in {"link", "loop", "rename"} /\ (wpc'[n] # "link" => work[n].add = {})
      BY <3>1 DEF AfterLinks
    <3>4. work[n].at = Boot => AutoLinks[Boot] \subseteq work[n].add
      BY <1>2, <2>1 DEF Holds
    <3>5. work[n].at # Boot => AutoLinks[Boot] \subseteq links[s][Boot]
      BY <1>2, <2>1 DEF Holds
    <3> QED BY <1>2, <2>1, <3>2, <3>3, <3>4, <3>5 DEF AtLinks, Holds, Linking, Tail
  <2> QED BY <2>2, <2>3
<1>8. CASE Link(n)
  <2>1. wpc[n] = "link" /\ (Then(n, "broken") => wpc'[n] = "broken")
    BY <1>1, <1>8 DEF Link, Change, Then
  <2>2. work'[n].sys = s
    BY <1>2, <1>8 DEF Link, Change
  <2>3. CASE wpc'[n] = "broken"
    BY <2>2, <2>3 DEF AtLinks, Holds, Linking, Tail
  <2>4. CASE wpc'[n] # "broken"
    <3>1. PICK x \in work[n].add :
            /\ links' = [links EXCEPT ![s][work[n].at] = @ \cup {x}]
            /\ work' = [work EXCEPT ![n].add = @ \ {x}]
            /\ wpc'[n] = IF work[n].add = {x} THEN AfterLinks(n) ELSE "link"
      BY <1>2, <1>8, <2>1, <2>4 DEF Link, Change, Then, ThenCalled
    <3>2. links'[s][Boot] = IF work[n].at = Boot THEN links[s][Boot] \cup {x} ELSE links[s][Boot]
      BY <1>2, <3>1
    <3>3. /\ work'[n].add = work[n].add \ {x} /\ work'[n].at = work[n].at
          /\ work'[n].boot = work[n].boot
      BY <3>1
    <3>4. wpc'[n] \in {"link", "loop", "rename"} /\ (wpc'[n] # "link" => work[n].add = {x})
      BY <3>1 DEF AfterLinks
    <3>5. \/ AutoLinks[Boot] \subseteq links[s][Boot]
          \/ work[n].at = Boot /\ AutoLinks[Boot] \subseteq links[s][Boot] \cup work[n].add
      BY <1>2, <2>1 DEF Holds
    <3>6. AutoLinks[Boot] \subseteq work[n].boot
      BY <2>1 DEF Holds, Tail
    <3> QED BY <2>2, <3>2, <3>3, <3>4, <3>5, <3>6 DEF AtLinks, Holds, Linking, Tail
  <2> QED BY <2>3, <2>4
<1>9. CASE Rename(n)
  <2>1. wpc[n] = "rename" /\ UNCHANGED <<links, work>> /\ wpc'[n] \in {"loop", "broken"}
    BY <1>1, <1>9 DEF Rename, Change, Then, ThenCalled
  <2> QED BY <1>2, <2>1 DEF AtLinks, Holds, Linking, Tail
<1>10. CASE WorkerCallFails(n)
  <2>1. UNCHANGED work /\ wpc'[n] = "broken"
    BY <1>1, <1>2, <1>10 DEF WorkerCallFails, Then, Linking
  <2> QED BY <1>2, <2>1 DEF AtLinks, Holds, Linking, Tail
<1>11. CASE MarkBroken(n)
  <2>1. wpc[n] = "broken" /\ wpc'[n] = "done"
    BY <1>1, <1>11 DEF MarkBroken, Then
  <2> QED BY <1>2, <2>1 DEF AtLinks, Linking, Conceals
<1>12. ~(WorkerFinds(n) \/ WorkerFindsNone(n) \/ WorkerCreates(n) \/ CommissionGuard(n)
         \/ Commission(n) \/ Poll(n))
  BY <1>1, <1>2 DEF WorkerFinds, WorkerFindsNone, WorkerCreates, CommissionGuard, Commission, Poll,
     Linking
<1> QED BY <1>3, <1>4, <1>5, <1>6, <1>7, <1>8, <1>9, <1>10, <1>11, <1>12 DEF Worker

\* No worker's call ends MAAS' commissioning or testing but by marking the machine broken.
LEMMA WorkerTests ==
    ASSUME Types, NEW n \in Name, Worker(n), NEW s \in Request, status'[s] \in {"Testing", "Ready"}
    PROVE  status[s] = status'[s]
<1> USE DEF Types, WorkerTypes, MachineTypes, WorkRecord
<1>1. CASE Commission(n)
  BY <1>1 DEF Commission
<1>2. CASE MarkBroken(n)
  BY <1>2 DEF MarkBroken
<1>3. CASE WorkerCreates(n)
  BY <1>3 DEF WorkerCreates, Register, machineVars
<1>4. CASE ~(Commission(n) \/ MarkBroken(n) \/ WorkerCreates(n))
  <2>1. UNCHANGED status
    BY <1>4 DEF Worker, WorkerFinds, WorkerFindsNone, CommissionGuard, Poll, GetSubnets,
       GetAccessInfo, CreateSubnet, GetInterfaces, NextInterface, Change, Disconnect, Link, Rename,
       WorkerCallFails, machineVars
  <2> QED BY <2>1
<1> QED BY <1>1, <1>2, <1>3, <1>4

LEMMA WorkerStays ==
    ASSUME Types, NEW n \in Name, Worker(n), NEW s \in Request, Kind(s), ~AtRisk(s)
    PROVE  Kind(s)'
<1>1. \A m \in Name \ {n} : wpc'[m] = wpc[m] /\ work'[m] = work[m]
  BY DEF Worker, WorkerFinds, WorkerFindsNone, WorkerCreates, CommissionGuard,
     Commission, Poll, GetSubnets, GetAccessInfo,
     CreateSubnet, GetInterfaces, NextInterface, Change, Disconnect, Link, Rename,
     WorkerCallFails, MarkBroken, Then, ThenCalled, Types, WorkerTypes
<1>2. \A m \in Name \ {n} : AtLinks(m, s)' <=> AtLinks(m, s)
  BY <1>1 DEF AtLinks
<1>3. \A l, m \in Name : AtLinks(l, s)' /\ AtLinks(m, s)' => l = m
  BY DEF AtRisk
<1>4. CASE AtLinks(n, s)
  <2>1. \A m \in Name \ {n} : ~AtLinks(m, s)'
    BY <1>2, <1>4 DEF Kind
  <2>2. Holds(n) /\ ~Conceals(n)
    BY <1>4 DEF Kind, AtRisk
  <2>3. \/ AtLinks(n, s)' /\ Holds(n)'
        \/ ~AtLinks(n, s)' /\ (status'[s] = "Broken" \/ AutoLinks[Boot] \subseteq links'[s][Boot])
    BY <1>4, <2>2, WorkerHolds
  <2> QED BY <1>3, <2>1, <2>3 DEF Kind
<1>5. CASE ~AtLinks(n, s)
  <2>1. links'[s] = links[s]
    BY <1>5, WorkerKeepsLinks
  <2>2. ASSUME NEW m \in Name \ {n}, AtLinks(m, s)' PROVE Holds(m)'
    <3>1. Holds(m) /\ work[m].sys = s
      BY <1>2, <2>2 DEF Kind, AtLinks
    <3> QED BY <1>1, <2>1, <3>1 DEF Holds
  <2>3. ASSUME AtLinks(n, s)' PROVE Holds(n)'
    <3>1. work'[n].sys = s /\ ~\E m \in Name : AtLinks(m, s)
      BY <1>2, <1>3, <1>5, <2>3 DEF AtLinks
    <3>2. CASE wpc'[n] = "broken"
      BY <3>2 DEF Holds, Tail
    <3>3. CASE wpc'[n] = "subnets" /\ status[s] = "Ready"
      <4>1. AutoLinks[Boot] \subseteq links'[s][Boot]
        BY <2>1, <3>1, <3>3 DEF Kind
      <4> QED BY <3>1, <3>3, <4>1 DEF Holds, Tail
    <3> QED BY <1>5, <2>3, <3>2, <3>3, WorkerKeepsLinks
  <2>4. ASSUME status'[s] \in {"Testing", "Ready"}, ~\E m \in Name : AtLinks(m, s)'
        PROVE  AutoLinks[Boot] \subseteq links'[s][Boot]
    <3>1. ~\E m \in Name : AtLinks(m, s)
      BY <1>2, <1>5, <2>4
    <3>2. status[s] \in {"Testing", "Ready"}
      BY <2>4, WorkerTests
    <3> QED BY <2>1, <3>1, <3>2 DEF Kind
  <2> QED BY <1>3, <2>2, <2>3, <2>4 DEF Kind
<1> QED BY <1>4, <1>5

LEMMA BootStep ==
    Types /\ WorkersAreCounted /\ BootInv /\ [MNext /\ Observe]_<<allVars, histVars>> => BootInv'
<1> SUFFICES ASSUME Types, WorkersAreCounted, BootInv, [MNext /\ Observe]_<<allVars, histVars>>,
                    NEW s \in Request \ bereft'
             PROVE  Kind(s)'
  BY DEF BootInv
<1>1. CASE UNCHANGED <<allVars, histVars>>
  <2>1. UNCHANGED <<status, links, wpc, work, bereft>>
    BY <1>1 DEF allVars, machineVars, workerVars, histVars
  <2>2. \A n \in Name : (AtLinks(n, s)' <=> AtLinks(n, s)) /\ (Holds(n)' <=> Holds(n))
    BY <2>1 DEF AtLinks, Holds
  <2> QED BY <2>1, <2>2 DEF BootInv, Kind
<1>2. CASE MNext /\ Observe
  <2>1. ~AtRisk(s) /\ (s \notin bereft \/ Renewed(s))
    BY <1>2 DEF Observe
  <2>2. CASE s \notin bereft
    BY <1>2, <2>1, <2>2, ElsewhereKeeps, WorkerStays, StepIs DEF MNext, BootInv
  <2>3. CASE Renewed(s)
    <3>1. ~\E n \in Name : Worker(n)
      BY <2>3, WorkerTests DEF Renewed
    <3>2. links'[s] = AutoLinks
      BY <1>2, <2>3, <3>1, LinksRest, StepIs DEF MNext, Renewed
    <3> QED BY <2>3, <3>2 DEF Renewed, Kind
  <2> QED BY <2>1, <2>2, <2>3
<1> QED BY <1>1, <1>2

\* A machine shown as Ready has the links MAAS gave its boot interface, unless a worker
\* has died at it, or two have worked there at a time, since it was commissioned: for any
\* number of requests, and whichever calls to MAAS fail (BootLinksKept, under Prompt).
THEOREM BootLinksAreKept == ASSUME Prompt PROVE ObservedSpec => []BootLinksKept
<1>1. MInit => BootInv
  BY DEF MInit, BootInv, Kind, AtLinks, Linking
<1>2. WorkersAreCounted /\ BootInv => BootLinksKept
  <2> SUFFICES ASSUME WorkersAreCounted, BootInv, NEW s \in Request \ bereft,
                      ReadyStatus(s) = "Ready", ~Strayed(s)
               PROVE  AutoLinks[Boot] \subseteq links[s][Boot]
    BY DEF BootLinksKept
  <2>1. status[s] = "Ready" /\ ~HasJob(s)
    BY DEF ReadyStatus, ReadyFlow
  <2>2. \A n \in Name : ~AtLinks(n, s)
    BY <2>1, CountedMends DEF AtLinks, IsAt, Linking
  <2> QED BY <2>1, <2>2 DEF BootInv, Kind
<1> QED BY <1>1, <1>2, MendInvariant, BootStep, PTL DEF ObservedSpec

-----------------------------------------------------------------------------
(* The life of a host *)

\* A system that MAAS has not given out yet carries none of the request's names but those
\* it does not ask for.
Unnamed == \A s \in Request : status[s] = "unborn" => named[s] = Unasked

LifeInv == WorkersAreCounted /\ Types /\ LoneInv /\ MendInv /\ Unnamed

\* The step by which a machine appears.
Creates ==
    \/ \E c \in Call : RegisterCreates(c) \/ RegisterRefused(c)
    \/ \E n \in Name : WorkerCreates(n)

\* All other steps leave what is not there as it is, with its names.
LEMMA GoneRests ==
    ASSUME Types, Step \/ UNCHANGED allVars, ~Creates, NEW s \in Request, ~Exists(s)
    PROVE  status'[s] = status[s] /\ named'[s] = named[s]
<1> USE DEF Types, MachineTypes, Exists, InProgress
<1>1. ASSUME NEW n \in Name, Worker(n) PROVE status'[s] = status[s] /\ named'[s] = named[s]
  BY <1>1 DEF Creates, Worker, WorkerFinds, WorkerFindsNone, CommissionGuard,
     Commission, Poll, GetSubnets, GetAccessInfo,
     CreateSubnet, GetInterfaces, NextInterface, Change, Disconnect, Link, Rename,
     WorkerCallFails, MarkBroken, machineVars, WorkerTypes, WorkRecord
<1>2. CASE \E c \in Call : Abort(c) \/ MachineDelete(c)
  BY <1>2 DEF Abort, MachineDelete
<1>3. CASE \E t \in Request : MaasWorks(t)
  BY <1>3 DEF MaasWorks
<1>4. CASE UNCHANGED machineVars
  BY <1>4 DEF machineVars
<1>5. CASE Elsewhere
  BY <1>2, <1>3, <1>4, <1>5 DEF Elsewhere, Creates, Handler, Clock, JobController, StoreStep,
     WorkerExits, Killed, RegisterFinds, RegisterFindsNone, CancelBegins, CancelAborts,
     CancelReplies, ShowReads, ShowReplies
<1> QED BY <1>1, <1>4, <1>5, StepIs DEF allVars

\* A machine appears only where there is none.
LEMMA Appears ==
    ASSUME Types, Creates
    PROVE  \/ UNCHANGED machineVars
           \/ \E s \in Request : Register(s)
BY DEF Creates, RegisterCreates, RegisterRefused, WorkerCreates

\* A machine that is there stays, or is deleted.
LEMMA ThereStays ==
    ASSUME Types, Step \/ UNCHANGED allVars, NEW s \in Request, Exists(s), ~Exists(s)'
    PROVE  status'[s] = "deleted"
<1> USE DEF Types, MachineTypes, Exists
<1>1. ASSUME NEW n \in Name, Worker(n) PROVE Exists(s)'
  BY <1>1 DEF Worker, WorkerFinds, WorkerFindsNone, WorkerCreates, Register, CommissionGuard,
     Commission, Poll, GetSubnets, GetAccessInfo,
     CreateSubnet, GetInterfaces, NextInterface, Change, Disconnect, Link, Rename,
     WorkerCallFails, MarkBroken, machineVars, WorkerTypes, WorkRecord
<1>2. Elsewhere \/ UNCHANGED allVars
  BY <1>1, StepIs
<1> QED BY <1>2, MachineRests

LEMMA UnnamedStep ==
    ASSUME Types, Unnamed, Step \/ UNCHANGED allVars
    PROVE  Unnamed'
<1>1. CASE Creates
  BY <1>1, Appears DEF Unnamed, Register, machineVars, Types, MachineTypes
<1>2. CASE ~Creates
  <2> SUFFICES ASSUME NEW s \in Request, status'[s] = "unborn" PROVE named'[s] = Unasked
    BY DEF Unnamed
  <2>1. ~Exists(s)
    BY ThereStays DEF Exists
  <2> QED BY <1>2, <2>1, GoneRests DEF Unnamed
<1> QED BY <1>1, <1>2

\* A worker changes no machine but the one it is at.
LEMMA WorkerKeepsTo ==
    ASSUME Types, NEW n \in Name, Worker(n), NEW s \in Request, Exists(s), ~IsAt(n, s)
    PROVE  status'[s] = status[s] /\ links'[s] = links[s] /\ named'[s] = named[s]
<1> USE DEF Types, MachineTypes, WorkerTypes, WorkRecord
<1>1. \A l : At(n, l) => wpc[n] = l
  BY DEF At
<1>2. CASE Commission(n) \/ MarkBroken(n)
  BY <1>1, <1>2 DEF Commission, MarkBroken, IsAt
<1>3. CASE Disconnect(n) \/ Link(n) \/ Rename(n)
  <2>1. work[n].sys # s
    BY <1>1, <1>3 DEF Disconnect, Link, Rename, Change, IsAt
  <2>2. UNCHANGED status
    BY <1>3 DEF Disconnect, Link, Rename, Change
  <2>3. links'[s] = links[s] /\ named'[s] = named[s]
    BY <1>3, <2>1 DEF Disconnect, Link, Rename, Change
  <2> QED BY <2>2, <2>3
<1>4. CASE WorkerCreates(n)
  BY <1>4 DEF WorkerCreates, Register, machineVars
<1>5. CASE WorkerFinds(n) \/ WorkerFindsNone(n) \/ CommissionGuard(n) \/ Poll(n)
           \/ GetSubnets(n) \/ GetAccessInfo(n) \/ CreateSubnet(n) \/ GetInterfaces(n)
           \/ NextInterface(n) \/ WorkerCallFails(n)
  BY <1>5 DEF WorkerFinds, WorkerFindsNone, CommissionGuard, Poll, GetSubnets, GetAccessInfo,
     CreateSubnet, GetInterfaces, NextInterface,
     WorkerCallFails, machineVars
<1> QED BY <1>2, <1>3, <1>4, <1>5 DEF Worker

\* None makes its machine Ready.
LEMMA WorkerReadies ==
    ASSUME Types, NEW n \in Name, Worker(n), NEW s \in Request, status'[s] = "Ready"
    PROVE  status[s] = "Ready"
<1>1. CASE ~Conceals(n)
  BY <1>1, WorkerStatus
<1>2. CASE Conceals(n)
  <2>1. \A l : At(n, l) => l = "broken"
    BY <1>2 DEF Conceals, At
  <2>2. MarkBroken(n) \/ UNCHANGED machineVars
    BY <2>1 DEF Worker, WorkerFinds, WorkerFindsNone, WorkerCreates,
       CommissionGuard, Commission, Poll, GetSubnets, GetAccessInfo,
       CreateSubnet, GetInterfaces, NextInterface, Change, Disconnect,
       Link, Rename, WorkerCallFails
  <2> QED BY <2>2 DEF MarkBroken, machineVars, Types, MachineTypes, WorkerTypes, WorkRecord
<1> QED BY <1>1, <1>2

\* A deserted system that is left as such is configured.
LEMMA LeavesRepaired ==
    ASSUME Types, LoneInv, TargetsFit, Step, Observe, NEW s \in deserted \ deserted', Exists(s)
    PROVE  Configured(s)'
<1>1. PICK n \in Name \ shared : Finishes(n) /\ work[n].sys = s
  BY DEF Observe
<1>2. Configured(s)
  BY <1>1, EndConfigured
<1>3. UNCHANGED machineVars
  <2>1. ~Elsewhere
    BY <1>1, WorkerRests DEF Finishes
  <2>2. Worker(n)
    BY <1>1, <2>1, StepIs, WorkerCalls DEF Finishes
  <2>3. \A l : At(n, l) => l = "loop"
    BY <1>1 DEF At, Finishes
  <2> QED BY <2>2, <2>3 DEF Worker, WorkerFinds, WorkerFindsNone, WorkerCreates,
             CommissionGuard, Commission, Poll, GetSubnets, GetAccessInfo,
             CreateSubnet, GetInterfaces, NextInterface, Change, Disconnect,
             Link, Rename, WorkerCallFails, MarkBroken
<1> QED BY <1>2, <1>3 DEF Configured, machineVars

\* One step of the flow is, for each system, one of the life cycle.
LEMMA LifeStep ==
    ASSUME LifeInv, ReadyIsConfigured', Step, Observe, NEW s \in Request
    PROVE  \/ Lifecycle!Appear(s) \/ Lifecycle!Work(s) \/ Lifecycle!Complete(s)
           \/ Lifecycle!Keep(s) \/ Lifecycle!Stray(s) \/ Lifecycle!Delete(s) \/ Lifecycle!Absent(s)
<1> USE DEF LifeInv
<1>1. /\ \A t \in Request : Lifecycle!There(t) <=> Exists(t)
      /\ Lifecycle!There(s)' <=> Exists(s)'
  BY DEF Lifecycle!There, Shown, Exists, ReadyStatus, ReadyFlow
<1>2. CASE ~Exists(s) /\ ~Exists(s)'
  <2>1. status'[s] = status[s]
    BY <1>2, Appears, GoneRests DEF Register, Types, MachineTypes, machineVars, Exists
  <2> QED BY <1>1, <1>2, <2>1 DEF Lifecycle!Absent, Shown
<1>3. CASE ~Exists(s) /\ Exists(s)'
  <2>1. Creates
    BY <1>3, GoneRests DEF Exists
  <2>2. Register(s)
    BY <1>3, <2>1, Appears DEF Register, Types, MachineTypes, machineVars, Exists
  <2>3. /\ \A t \in Request : ~Exists(t)
        /\ status[s] = "unborn" /\ status'[s] = "New" /\ named'[s] = Unasked
    BY <2>2 DEF Register, Unnamed, Types, MachineTypes
  <2>4. ~Configured(s)'
    BY <2>3, MachineAssumption DEF Configured, Unasked
  <2>5. Shown(s) = "unborn" /\ Shown(s)' = "Processing"
    BY <1>3, <2>3 DEF Shown, ReadyStatus, ReadyFlow
  <2> QED BY <1>1, <2>3, <2>4, <2>5 DEF Lifecycle!Appear
<1>4. CASE Exists(s) /\ ~Exists(s)'
  BY <1>1, <1>4, ThereStays DEF Lifecycle!Delete, Shown
<1>5. CASE Exists(s) /\ Exists(s)'
  <2>1. Lifecycle!Repaired(s)
    BY <1>5, LeavesRepaired DEF Lifecycle!Repaired, MendInv
  <2>2. /\ Shown(s) = ReadyStatus(s) /\ ReadyStatus(s) \in {"Ready", "Processing", "Failed"}
        /\ Shown(s)' = ReadyStatus(s)' /\ ReadyStatus(s)' \in {"Ready", "Processing", "Failed"}
    BY <1>5 DEF Shown, ReadyStatus, ReadyFlow
  <2>3. CASE ReadyStatus(s) # "Ready" /\ ReadyStatus(s)' # "Ready"
    BY <2>1, <2>2, <2>3 DEF Lifecycle!Work
  <2>4. CASE ReadyStatus(s) # "Ready" /\ ReadyStatus(s)' = "Ready"
    <3>1. ReadyStatus(s) # "Failed"
      <4>1. status'[s] = "Ready"
        BY <2>4 DEF ReadyStatus, ReadyFlow
      <4>2. status[s] = "Ready" \/ InProgress(s)
        BY <1>5, <4>1, StepIs, MachineRests, WorkerReadies DEF Exists
      <4> QED BY <4>2 DEF ReadyStatus, ReadyFlow, InProgress
    <3>2. Configured(s)' \/ s \in deserted' \/ Strayed(s)'
      BY <1>5, <2>4 DEF ReadyIsConfigured
    <3> QED BY <1>5, <2>1, <2>2, <2>4, <3>1, <3>2 DEF Lifecycle!Complete, Lifecycle!Promised
  <2>5. CASE ReadyStatus(s) = "Ready" /\ Strayed(s)
    BY <1>1, <1>5, <2>1, <2>2, <2>5 DEF Lifecycle!Stray
  <2>6. CASE ReadyStatus(s) = "Ready" /\ ~Strayed(s)
    <3>1. status[s] = "Ready" /\ ~HasJob(s)
      BY <2>6 DEF ReadyStatus, ReadyFlow
    <3>2. \A n \in Name : ~IsAt(n, s)
      BY <2>6, <3>1, CountedMends
    <3>3. status'[s] = status[s] /\ links'[s] = links[s] /\ named'[s] = named[s]
      BY <1>5, <3>1, <3>2, StepIs, MachineRests, WorkerKeepsTo DEF InProgress, Exists
    <3>4. s \in deserted' <=> s \in deserted
      BY <3>2 DEF Observe, Finishes, Dies, Conceals, IsAt
    <3>5. ReadyStatus(s)' \in {"Ready", "Processing"}
      BY <3>1, <3>3 DEF ReadyStatus, ReadyFlow
    <3> QED BY <1>5, <2>2, <2>6, <3>3, <3>4, <3>5 DEF Lifecycle!Keep, Configured
  <2> QED BY <2>3, <2>4, <2>5, <2>6
<1> QED BY <1>2, <1>3, <1>4, <1>5

\* The registration flow keeps the life of a host that HostLifecycle describes, for any
\* number of requests, systems and interfaces, whichever calls to MAAS fail, whichever
\* workers die, and whoever cancels or deletes (ImplementsLifecycle, under Prompt).
THEOREM LifecycleImplemented == ASSUME Prompt PROVE ObservedSpec => ImplementsLifecycle
<1>1. MInit => Unnamed
  BY DEF MInit, Unnamed
<1>2. ObservedSpec => []LifeInv
  <2>1. Types /\ Unnamed /\ [MNext /\ Observe]_<<allVars, histVars>> => Unnamed'
    BY UnnamedStep DEF MNext
  <2> QED BY <1>1, <2>1, MendInvariant, PTL DEF ObservedSpec, LifeInv
<1>3. MInit /\ deserted = {} => Lifecycle!Init
  BY DEF MInit, Lifecycle!Init, Shown, Exists
<1>4. LifeInv /\ ReadyIsConfigured' /\ [MNext /\ Observe]_<<allVars, histVars>>
        => [Lifecycle!Next]_Lifecycle!lifeVars
  <2> SUFFICES ASSUME LifeInv, ReadyIsConfigured', [MNext /\ Observe]_<<allVars, histVars>>
               PROVE  [Lifecycle!Next]_Lifecycle!lifeVars
    OBVIOUS
  <2>1. CASE MNext /\ Observe
    BY <2>1, LifeStep DEF MNext, Lifecycle!Next
  <2>2. CASE UNCHANGED <<allVars, histVars>>
    <3>1. UNCHANGED <<status, links, named, job, wpc, work, deserted>>
      BY <2>2 DEF allVars, vars, jobVars, machineVars, workerVars, histVars
    <3>2. \A s \in Request :
             /\ Exists(s)' <=> Exists(s)
             /\ Shown(s)' = Shown(s)
             /\ Configured(s)' <=> Configured(s)
             /\ Strayed(s)' <=> Strayed(s)
      BY <3>1 DEF Exists, Shown, ReadyStatus, ReadyFlow, HasJob, ActiveJobs, Configured, Strayed,
         IsAt
    <3> QED BY <3>1, <3>2 DEF Lifecycle!lifeVars
  <2> QED BY <2>1, <2>2
<1> QED BY <1>2, <1>3, <1>4, ReadyConfigured, PTL DEF ObservedSpec, ImplementsLifecycle, Lifecycle!LifecycleSpec

=============================================================================
