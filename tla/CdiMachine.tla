----------------------------- MODULE CdiMachine -----------------------------
(***************************************************************************)
(* A composed machine under the CDI controller: MachineCreate,             *)
(* MachineDestroy and CardScaling of pg_cdi_controller.go, and the CDI     *)
(* manager they command through a playbook and CdiWrapper.sh.              *)
(*                                                                         *)
(* A modification and a power-off are accepted by the manager and carried  *)
(* out later; the controller polls the machine's status, for three minutes *)
(* at most.  CardScaling replies at once and works on a goroutine, so that *)
(* clients cannot know when it is over: handlers overlap.                  *)
(***************************************************************************)
EXTENDS FiniteSets

CONSTANTS
    Op,     \* handlers, and goroutines of CardScaling
    Card,   \* the resources of the pool
    Faults  \* what may go wrong, a subset of FaultKinds

\* login: the wrapper gets neither its lock in time nor a session, the command is not
\* run; answer: it is run but its end is not seen, so that it is run again and refused;
\* lateStatus: a status read right after a modification does not show it yet.
FaultKinds == {"login", "answer", "lateStatus"}

ASSUME CdiAssumption == Faults \subseteq FaultKinds

VARIABLES
    exists,  \* whether the manager has the machine
    power,   \* "on", "stopping", "off"
    error,   \* whether its status is ERROR
    cards,   \* the cards connected to it
    job,     \* the modification under way
    pc,      \* pc[o]: the next call of handler o
    add,     \* add[o]: the cards to add, requested and then resourcesToAdd
    rem,     \* rem[o]: the cards to remove, likewise
    alone,   \* history: alone[o]: handler o has had the machine to itself
    goal     \* history: goal[o]: the cards scaling o, once it has looked, is to bring about

manager == <<exists, power, error, cards, job>>
locals == <<add, rem>>
history == <<alone, goal>>
vars == <<manager, pc, locals, history>>

NoJob == [op |-> "none", set |-> {}]
Jobs == {NoJob} \cup [op : {"add", "remove"}, set : SUBSET Card]

Labels == {"idle", "createShow", "create",
           "power", "await", "force", "awaitForced", "destroy",
           "show", "add", "awaitAdd", "remove", "awaitRemove"}

Init ==
    /\ exists = FALSE /\ power = "off" /\ error = FALSE /\ cards = {} /\ job = NoJob
    /\ pc = [o \in Op |-> "idle"]
    /\ add = [o \in Op |-> {}]
    /\ rem = [o \in Op |-> {}]
    /\ alone = [o \in Op |-> FALSE]
    /\ goal = [o \in Op |-> {}]

\* mach_status_detail.
Status == CASE error -> "ERROR"
            [] ~error /\ job # NoJob -> "IN PROGRESS"
            [] ~error /\ job = NoJob /\ power = "off" -> "INACTIVE POFF"
            [] OTHER -> "ACTIVE PON"

\* Handler o goes on at l; when it is over its locals are dropped.
Goto(o, l) ==
    /\ pc' = [pc EXCEPT ![o] = l]
    /\ IF l = "idle"
       THEN /\ add' = [add EXCEPT ![o] = {}]
            /\ rem' = [rem EXCEPT ![o] = {}]
            /\ alone' = [alone EXCEPT ![o] = FALSE]
            /\ goal' = [goal EXCEPT ![o] = {}]
       ELSE UNCHANGED <<locals, history>>

\* A request arrives.
Begin(o, l) ==
    /\ pc[o] = "idle"
    /\ pc' = [pc EXCEPT ![o] = l]
    /\ alone' = [q \in Op |-> q = o /\ job = NoJob /\ \A p \in Op : pc[p] = "idle"]
    /\ UNCHANGED <<manager, goal>>

\* One run of CdiWrapper.sh, under the lock all its runs for one manager and user share:
\* the command is carried out, once as seen by others, if the manager takes it.  Any
\* error ends the handler.
Command(o, takes, effect, l) ==
    \/ takes /\ effect /\ Goto(o, l)
    \/ takes /\ effect /\ "answer" \in Faults /\ Goto(o, "idle")
    \/ ~takes /\ UNCHANGED manager /\ Goto(o, "idle")
    \/ "login" \in Faults /\ UNCHANGED manager /\ Goto(o, "idle")

\* MachineShow does not answer SUCCESS: the machine is not there, or the command fails.
ShowFails == ~exists \/ Faults \cap {"login", "answer"} # {}

\* The res_name list of a MachineShow that succeeds.
getMachineResources == cards

-----------------------------------------------------------------------------
\* MachineCreate.
BeginCreate(o) ==
    /\ Begin(o, "createShow")
    /\ \E s \in SUBSET Card : add' = [add EXCEPT ![o] = s]
    /\ UNCHANGED rem

\* A machine that MachineShow finds is taken for the one asked for; that it does not,
\* for whatever reason, means that there is none.
CreateShow(o) ==
    /\ pc[o] = "createShow"
    /\ \/ exists /\ Goto(o, "idle")
       \/ ShowFails /\ Goto(o, "create")
    /\ UNCHANGED manager

Create(o) ==
    /\ pc[o] = "create"
    /\ Command(o, ~exists,
               /\ exists' = TRUE /\ power' = "off" /\ error' = FALSE
               /\ cards' = add[o] /\ job' = NoJob, "idle")

-----------------------------------------------------------------------------
\* MachineDestroy: powerOffMachine.
BeginDestroy(o) == Begin(o, "power") /\ UNCHANGED locals

PowerOff(o) ==
    /\ pc[o] = "power"
    /\ Command(o, exists,
               /\ power' = IF power = "on" THEN "stopping" ELSE power
               /\ UNCHANGED <<exists, error, cards, job>>, "await")

\* A status that contains one of the targets ends the wait.
Polled(targets) ==
    /\ exists
    /\ \/ Status \in targets
       \/ "lateStatus" \in Faults /\ power = "off" /\ ~error /\ "INACTIVE POFF" \in targets

\* Mutant of TimesOut: a wait has no end of its own.
TimesOut_never(o, l) == FALSE

\* Three minutes are over, or all calls have failed: pollMachineStatus returns "".
TimesOut(o, l) == Goto(o, l)

\* The first wait decides whether the machine has to be forced off ...
Await(o) ==
    /\ pc[o] = "await"
    /\ \/ Polled({"ERROR"}) /\ Goto(o, "force")
       \/ Polled({"INACTIVE POFF"}) /\ Goto(o, "destroy")
       \/ TimesOut(o, "destroy")
    /\ UNCHANGED manager

ForceOff(o) ==
    /\ pc[o] = "force"
    /\ Command(o, exists,
               /\ power' = "off" /\ error' = FALSE
               /\ UNCHANGED <<exists, cards, job>>, "awaitForced")

\* ... what the second one returns is not looked at.
AwaitForced(o) ==
    /\ pc[o] = "awaitForced"
    /\ \/ Polled({"INACTIVE POFF"}) /\ Goto(o, "destroy")
       \/ TimesOut(o, "destroy")
    /\ UNCHANGED manager

Destroy(o) ==
    /\ pc[o] = "destroy"
    /\ Command(o, exists,
               /\ exists' = FALSE /\ power' = "off" /\ error' = FALSE
               /\ cards' = {} /\ job' = NoJob, "idle")

-----------------------------------------------------------------------------
\* CardScaling, which has replied ACCEPT already.  No card is both added and removed,
\* which the code does not check.
BeginScaling(o) ==
    /\ Begin(o, "show")
    /\ \E a, r \in SUBSET Card :
         /\ a \cap r = {}
         /\ add' = [add EXCEPT ![o] = a]
         /\ rem' = [rem EXCEPT ![o] = r]

\* Mutant of NextModify: whether there are cards to remove is not asked.
NextModify_always(a, r) == IF a # {} THEN "add" ELSE "remove"

\* Where a scaling goes on that has the cards a to add, or r to remove.
NextModify(a, r) ==
    IF a # {} THEN "add" ELSE IF r # {} THEN "remove" ELSE "idle"

\* Mutant of Show: a card that is there is added, one that is not is removed.
Show_inverted(o) ==
    /\ pc[o] = "show"
    /\ LET a == add[o] \cap getMachineResources
           r == rem[o] \ getMachineResources IN
       \/ /\ exists
          /\ IF NextModify(a, r) = "idle" THEN Goto(o, "idle")
             ELSE /\ pc' = [pc EXCEPT ![o] = NextModify(a, r)]
                  /\ add' = [add EXCEPT ![o] = a]
                  /\ rem' = [rem EXCEPT ![o] = r]
                  /\ goal' = [goal EXCEPT ![o] = (cards \cup add[o]) \ rem[o]]
                  /\ UNCHANGED alone
       \/ ShowFails /\ Goto(o, "idle")
    /\ UNCHANGED manager

\* getMachineResources; what is there is not added, what is not there is not removed.
Show(o) ==
    /\ pc[o] = "show"
    /\ LET a == add[o] \ getMachineResources
           r == rem[o] \cap getMachineResources IN
       \/ /\ exists
          /\ IF NextModify(a, r) = "idle" THEN Goto(o, "idle")
             ELSE /\ pc' = [pc EXCEPT ![o] = NextModify(a, r)]
                  /\ add' = [add EXCEPT ![o] = a]
                  /\ rem' = [rem EXCEPT ![o] = r]
                  /\ goal' = [goal EXCEPT ![o] = (cards \cup add[o]) \ rem[o]]
                  /\ UNCHANGED alone
       \/ ShowFails /\ Goto(o, "idle")
    /\ UNCHANGED manager

\* machine_modify.yaml; the manager takes one modification at a time.
Modify(o, op, set, l) ==
    Command(o, exists /\ job = NoJob /\ ~error,
            /\ job' = [op |-> op, set |-> set]
            /\ UNCHANGED <<exists, power, error, cards>>, l)

Add(o) == pc[o] = "add" /\ Modify(o, "add", add[o], "awaitAdd")
Remove(o) == pc[o] = "remove" /\ Modify(o, "remove", rem[o], "awaitRemove")

\* Mutant of AwaitModify: the status is not looked at.
AwaitModify_any(o, l) ==
    /\ \/ Polled({"INACTIVE POFF", "ERROR"}) /\ Goto(o, l)
       \/ Goto(o, "idle")
    /\ UNCHANGED manager

\* The scaling goes on only if the machine is INACTIVE POFF in time.
AwaitModify(o, l) ==
    /\ \/ Polled({"INACTIVE POFF"}) /\ Goto(o, l)
       \/ Goto(o, "idle")
    /\ UNCHANGED manager

AwaitAdd(o) == pc[o] = "awaitAdd" /\ AwaitModify(o, NextModify({}, rem[o]))
AwaitRemove(o) == pc[o] = "awaitRemove" /\ AwaitModify(o, "idle")

-----------------------------------------------------------------------------
\* The manager carries a modification out, or fails on the way.
ModifyEnds ==
    /\ job # NoJob
    /\ \/ /\ cards' = IF job.op = "add" THEN cards \cup job.set ELSE cards \ job.set
          /\ error' = error
       \/ cards' = cards /\ error' = TRUE
    /\ job' = NoJob
    /\ UNCHANGED <<exists, power, pc, locals, history>>

\* A machine that was told to stops, or fails to.
PowerDown ==
    /\ power = "stopping"
    /\ \/ power' = "off" /\ error' = error
       \/ power' = "on" /\ error' = TRUE
    /\ UNCHANGED <<exists, cards, job, pc, locals, history>>

\* An operator, or PowerON of the MaaS service, powers the machine on; neither knows of
\* the handlers here.
PowerOn ==
    /\ exists /\ power = "off" /\ job = NoJob /\ ~error
    /\ power' = "on"
    /\ UNCHANGED <<exists, error, cards, job, pc, locals, history>>

-----------------------------------------------------------------------------
CreateStep(o) == CreateShow(o) \/ Create(o)
DestroyStep(o) == PowerOff(o) \/ Await(o) \/ ForceOff(o) \/ AwaitForced(o) \/ Destroy(o)
ScalingStep(o) == Show(o) \/ Add(o) \/ AwaitAdd(o) \/ Remove(o) \/ AwaitRemove(o)
Continue(o) == CreateStep(o) \/ DestroyStep(o) \/ ScalingStep(o)

Next ==
    \/ \E o \in Op : BeginCreate(o) \/ BeginDestroy(o) \/ BeginScaling(o) \/ Continue(o)
    \/ ModifyEnds \/ PowerDown \/ PowerOn

Spec == Init /\ [][Next]_vars

\* A handler goes on; nothing is asked of the manager.
FairSpec == Spec /\ \A o \in Op : WF_vars(Continue(o))

-----------------------------------------------------------------------------
\* Type invariant of the machine and the handlers; a machine that does not exist has
\* nothing, and no modification of no cards is asked for.
CdiTypeOK ==
    /\ exists \in BOOLEAN /\ error \in BOOLEAN
    /\ power \in {"on", "stopping", "off"}
    /\ cards \subseteq Card
    /\ job \in Jobs
    /\ pc \in [Op -> Labels]
    /\ add \in [Op -> SUBSET Card] /\ rem \in [Op -> SUBSET Card]
    /\ alone \in [Op -> BOOLEAN]
    /\ goal \in [Op -> SUBSET Card]
    /\ ~exists => power = "off" /\ ~error /\ cards = {} /\ job = NoJob
    /\ \A o \in Op : /\ pc[o] \in {"add", "awaitAdd"} => add[o] # {}
                     /\ pc[o] \in {"remove", "awaitRemove"} => rem[o] # {}

\* A scaling removes cards only when those it adds are there (TestPgCDIController_-
\* CardScaling_AddOperationPollingErrorStatus_AbortsBeforeRemove), unless another
\* handler runs beside it.
RemovesAfterAdds ==
    [][\A o \in Op : Remove(o) /\ alone[o] => add[o] \subseteq cards]_vars

\* When the last wait of a scaling that has the machine to itself finds it INACTIVE POFF,
\* the cards are those it saw, with those it was asked to add and without those to remove.
LoneScalingDoes ==
    \A o \in Op :
        /\ alone[o] /\ Status = "INACTIVE POFF"
        /\ pc[o] = "awaitRemove" \/ (pc[o] = "awaitAdd" /\ rem[o] = {})
        => cards = goal[o]

\* Every handler ends, whatever the manager does: a wait is bounded.
CallsEnd == \A o \in Op : pc[o] # "idle" ~> pc[o] = "idle"
=============================================================================
