------------------------- MODULE CdiMachine_proofs -------------------------
(***************************************************************************)
(* Theorems about CdiMachine, for any number of handlers and cards: its    *)
(* type invariant, and that a scaling that has the machine to itself       *)
(* removes no card before those it adds are there, and does what it was    *)
(* asked, if a status read shows what is there.                            *)
(***************************************************************************)
EXTENDS CdiMachine, TLAPS

USE DEF manager, locals, history, getMachineResources

-----------------------------------------------------------------------------
\* The parts of the type invariant: the manager's state, ...
ManagerOK ==
    /\ exists \in BOOLEAN /\ error \in BOOLEAN
    /\ power \in {"on", "stopping", "off"}
    /\ cards \subseteq Card
    /\ job \in Jobs
    /\ ~exists => power = "off" /\ ~error /\ cards = {} /\ job = NoJob

\* ... and that of the handlers.
LocalsOK ==
    /\ add \in [Op -> SUBSET Card] /\ rem \in [Op -> SUBSET Card]
    /\ alone \in [Op -> BOOLEAN]
    /\ goal \in [Op -> SUBSET Card]

PcOK ==
    /\ pc \in [Op -> Labels]
    /\ \A o \in Op : /\ pc[o] \in {"add", "awaitAdd"} => add[o] # {}
                     /\ pc[o] \in {"remove", "awaitRemove"} => rem[o] # {}

\* CdiTypeOK is these parts.
LEMMA TypeParts == CdiTypeOK <=> ManagerOK /\ LocalsOK /\ PcOK
  BY DEF CdiTypeOK, ManagerOK, LocalsOK, PcOK

\* A handler that goes on at a label where nothing is modified keeps its part, and so
\* does one that goes on at a label whose cards it has.
LEMMA GotoTypes ==
    ASSUME LocalsOK, PcOK, NEW o \in Op, NEW l \in Labels, Goto(o, l),
           l \in {"add", "awaitAdd"} => add[o] # {},
           l \in {"remove", "awaitRemove"} => rem[o] # {}
    PROVE  LocalsOK' /\ PcOK'
  <1>1. CASE l = "idle" BY <1>1 DEF Goto, LocalsOK, PcOK, Labels
  <1>2. CASE l # "idle" BY <1>2 DEF Goto, LocalsOK, PcOK, Labels
  <1>3. QED BY <1>1, <1>2

\* Nothing a handler does disturbs the manager's part ...
LEMMA ManagerStep ==
    ASSUME CdiTypeOK, [Next]_vars
    PROVE  ManagerOK'
  <1> USE TypeParts DEF ManagerOK, Jobs, NoJob
  <1>1. ASSUME NEW o \in Op, BeginCreate(o) \/ BeginDestroy(o) \/ BeginScaling(o)
        PROVE  ManagerOK'
    BY <1>1 DEF BeginCreate, BeginDestroy, BeginScaling, Begin
  <1>2. ASSUME NEW o \in Op, CreateStep(o) PROVE ManagerOK'
    <2>1. \/ /\ exists' = TRUE /\ power' = "off" /\ error' = FALSE
             /\ cards' = add[o] /\ job' = NoJob
          \/ UNCHANGED manager
      BY <1>2 DEF CreateStep, CreateShow, Create, Command
    <2>2. CASE UNCHANGED manager BY <2>2
    <2>3. add[o] \subseteq Card BY DEF LocalsOK
    <2>4. QED BY <2>1, <2>2, <2>3
  <1>3. ASSUME NEW o \in Op, DestroyStep(o) PROVE ManagerOK'
    <2>1. CASE UNCHANGED manager BY <2>1
    <2>2. CASE PowerOff(o) BY <2>1, <2>2 DEF PowerOff, Command
    <2>3. CASE ForceOff(o) BY <2>1, <2>3 DEF ForceOff, Command
    <2>4. CASE Destroy(o) BY <2>1, <2>4 DEF Destroy, Command
    <2>5. CASE Await(o) \/ AwaitForced(o) BY <2>1, <2>5 DEF Await, AwaitForced
    <2>6. QED BY <1>3, <2>2, <2>3, <2>4, <2>5 DEF DestroyStep
  <1>4. ASSUME NEW o \in Op, ScalingStep(o) PROVE ManagerOK'
    <2>1. CASE Add(o) BY <2>1 DEF Add, Modify, Command, LocalsOK
    <2>2. CASE Remove(o) BY <2>2 DEF Remove, Modify, Command, LocalsOK
    <2>3. CASE Show(o) \/ AwaitAdd(o) \/ AwaitRemove(o)
      <3>1. UNCHANGED manager
        BY <2>3 DEF Show, AwaitAdd, AwaitRemove, AwaitModify
      <3>2. QED BY <3>1
    <2>4. QED BY <1>4, <2>1, <2>2, <2>3 DEF ScalingStep
  <1>5. CASE ModifyEnds BY <1>5 DEF ModifyEnds
  <1>6. CASE PowerDown BY <1>6 DEF PowerDown
  <1>7. CASE PowerOn BY <1>7 DEF PowerOn
  <1>8. CASE UNCHANGED vars BY <1>8 DEF vars
  <1>9. QED BY <1>1, <1>2, <1>3, <1>4, <1>5, <1>6, <1>7, <1>8 DEF Next, Continue

\* ... or the handlers'.
LEMMA HandlerStep ==
    ASSUME CdiTypeOK, [Next]_vars
    PROVE  LocalsOK' /\ PcOK'
  <1> DEFINE OK == LocalsOK /\ PcOK
  <1> USE TypeParts
  <1>1. ASSUME NEW o \in Op, BeginCreate(o) \/ BeginDestroy(o) \/ BeginScaling(o)
        PROVE  OK'
    <2>1. /\ add' \in [Op -> SUBSET Card] /\ rem' \in [Op -> SUBSET Card]
          /\ \A q \in Op \ {o} : add'[q] = add[q] /\ rem'[q] = rem[q]
      BY <1>1 DEF BeginCreate, BeginDestroy, BeginScaling, LocalsOK
    <2>2. /\ \E l \in {"createShow", "power", "show"} : pc' = [pc EXCEPT ![o] = l]
          /\ \E P \in [Op -> BOOLEAN] : alone' = P
          /\ UNCHANGED goal
      BY <1>1 DEF BeginCreate, BeginDestroy, BeginScaling, Begin
    <2>3. LocalsOK' BY <2>1, <2>2 DEF LocalsOK
    <2>4. PcOK' BY <2>1, <2>2 DEF PcOK, Labels
    <2>5. QED BY <2>3, <2>4
  <1>2. ASSUME NEW o \in Op, CreateStep(o) PROVE OK'
    <2>1. \E l \in {"idle", "create"} : Goto(o, l)
      BY <1>2 DEF CreateStep, CreateShow, Create, Command
    <2>2. QED BY <2>1, GotoTypes DEF Labels
  <1>3. ASSUME NEW o \in Op, DestroyStep(o) PROVE OK'
    <2>1. \E l \in {"idle", "await", "force", "awaitForced", "destroy"} : Goto(o, l)
      BY <1>3 DEF DestroyStep, PowerOff, Await, TimesOut, ForceOff, AwaitForced, Destroy, Command
    <2>2. QED BY <2>1, GotoTypes DEF Labels
  <1>4. ASSUME NEW o \in Op, ScalingStep(o) PROVE OK'
    <2>1. CASE Show(o)
      <3> DEFINE a == add[o] \ cards
                 r == rem[o] \cap cards
      <3>1. CASE Goto(o, "idle") BY <3>1, GotoTypes DEF Labels
      <3>2. CASE /\ NextModify(a, r) # "idle"
                 /\ pc' = [pc EXCEPT ![o] = NextModify(a, r)]
                 /\ add' = [add EXCEPT ![o] = a]
                 /\ rem' = [rem EXCEPT ![o] = r]
                 /\ goal' = [goal EXCEPT ![o] = (cards \cup add[o]) \ rem[o]]
                 /\ UNCHANGED alone
        <4>1. LocalsOK'
          BY <3>2 DEF LocalsOK, ManagerOK
        <4>2. PcOK'
          BY <3>2 DEF LocalsOK, PcOK, NextModify, Labels
        <4>3. QED BY <4>1, <4>2
      <3>3. QED BY <2>1, <3>1, <3>2 DEF Show
    <2>2. CASE Add(o)
      <3>1. pc[o] = "add" /\ \E l \in {"idle", "awaitAdd"} : Goto(o, l)
        BY <2>2 DEF Add, Modify, Command
      <3>2. QED BY <3>1, GotoTypes DEF Labels, PcOK
    <2>3. CASE Remove(o)
      <3>1. pc[o] = "remove" /\ \E l \in {"idle", "awaitRemove"} : Goto(o, l)
        BY <2>3 DEF Remove, Modify, Command
      <3>2. QED BY <3>1, GotoTypes DEF Labels, PcOK
    <2>4. CASE AwaitAdd(o) \/ AwaitRemove(o)
      <3>1. \E l \in {"idle", NextModify({}, rem[o])} : Goto(o, l)
        BY <2>4 DEF AwaitAdd, AwaitRemove, AwaitModify
      <3>2. QED BY <3>1, GotoTypes DEF Labels, NextModify
    <2>5. QED BY <1>4, <2>1, <2>2, <2>3, <2>4 DEF ScalingStep
  <1>5. CASE ModifyEnds \/ PowerDown \/ PowerOn \/ UNCHANGED vars
    BY <1>5 DEF ModifyEnds, PowerDown, PowerOn, vars, LocalsOK, PcOK
  <1>9. QED BY <1>1, <1>2, <1>3, <1>4, <1>5 DEF Next, Continue

\* Type correctness, for any number of handlers and cards, whatever goes wrong.
THEOREM CdiTypeCorrect == Spec => []CdiTypeOK
  <1>1. Init => CdiTypeOK
    BY DEF Init, CdiTypeOK, Jobs, NoJob, Labels
  <1>2. CdiTypeOK /\ [Next]_vars => CdiTypeOK'
    BY ManagerStep, HandlerStep, TypeParts DEF CdiTypeOK, ManagerOK, LocalsOK, PcOK
  <1>3. QED
    BY <1>1, <1>2, PTL DEF Spec

-----------------------------------------------------------------------------
\* The status of a machine that is on, in error or being modified is not INACTIVE POFF.
LEMMA StatusOff == Status = "INACTIVE POFF" => power = "off" /\ ~error /\ job = NoJob
  BY DEF Status

\* A scaling that has the machine to itself: no other handler runs, no modification but
\* its own is under way, and the cards are where it has brought them so far.
AloneAt(o) ==
    /\ \A q \in Op \ {o} : pc[q] = "idle"
    /\ pc[o] \in {"show", "add", "remove"} => job = NoJob
    /\ pc[o] = "show" => add[o] \cap rem[o] = {}
    /\ pc[o] = "add" => goal[o] = (cards \cup add[o]) \ rem[o]
    /\ pc[o] = "awaitAdd" =>
         \/ job = [op |-> "add", set |-> add[o]] /\ goal[o] = (cards \cup add[o]) \ rem[o]
         \/ job = NoJob /\ error
         \/ job = NoJob /\ add[o] \subseteq cards /\ goal[o] = cards \ rem[o]
    /\ pc[o] = "remove" => add[o] \subseteq cards /\ goal[o] = cards \ rem[o]
    /\ pc[o] = "awaitRemove" =>
         \/ job = [op |-> "remove", set |-> rem[o]] /\ goal[o] = cards \ rem[o]
         \/ job = NoJob /\ error
         \/ job = NoJob /\ goal[o] = cards

AloneInv == \A o \in Op : alone[o] => AloneAt(o)

\* Only its own steps matter to a handler that has the machine to itself.
LEMMA AloneMoves ==
    ASSUME CdiTypeOK, AloneInv, NEW o \in Op, pc[o] # "idle",
           \A q \in Op \ {o} : alone'[q] => alone[q],
           alone'[o] => AloneAt(o)'
    PROVE  AloneInv'
  BY DEF AloneInv, AloneAt

\* What Goto leaves of a handler that has the machine to itself.
LEMMA AloneGoes ==
    ASSUME CdiTypeOK, AloneInv, NEW o \in Op, pc[o] # "idle",
           NEW l \in Labels, Goto(o, l), l # "idle" /\ alone[o] => AloneAt(o)'
    PROVE  AloneInv'
  <1> USE TypeParts DEF LocalsOK
  <1>1. \A q \in Op \ {o} : alone'[q] => alone[q]
    BY DEF Goto
  <1>2. alone'[o] => alone[o] /\ l # "idle"
    BY DEF Goto
  <1>3. QED BY <1>1, <1>2, AloneMoves

\* A label at which nothing is said of the cards.
LEMMA AloneElsewhere ==
    ASSUME CdiTypeOK, AloneInv, NEW o \in Op, pc[o] # "idle",
           NEW l \in Labels \ {"show", "add", "awaitAdd", "remove", "awaitRemove"},
           pc' = [pc EXCEPT ![o] = l], \A q \in Op : alone'[q] => alone[q]
    PROVE  AloneInv'
  <1>1. alone[o] => AloneAt(o)'
    BY TypeParts DEF AloneInv, AloneAt, PcOK
  <1>2. QED BY <1>1, AloneMoves

\* AloneInv is inductive as long as a status read shows what is there.
LEMMA AloneStep ==
    ASSUME "lateStatus" \notin Faults, CdiTypeOK, AloneInv, [Next]_vars
    PROVE  AloneInv'
  <1> USE TypeParts DEF LocalsOK
  <1>1. ASSUME NEW o \in Op, BeginCreate(o) \/ BeginDestroy(o) \/ BeginScaling(o)
        PROVE  AloneInv'
    <2>1. /\ pc[o] = "idle" /\ UNCHANGED manager
          /\ \E l \in {"createShow", "power", "show"} :
               /\ pc' = [pc EXCEPT ![o] = l]
               /\ l = "show" => add'[o] \cap rem'[o] = {}
          /\ alone' = [q \in Op |-> q = o /\ job = NoJob /\ \A p \in Op : pc[p] = "idle"]
      BY <1>1 DEF BeginCreate, BeginDestroy, BeginScaling, Begin
    <2>2. \A q \in Op : alone'[q] => q = o /\ job = NoJob /\ \A p \in Op : pc[p] = "idle"
      BY <2>1
    <2>3. alone'[o] => AloneAt(o)'
      BY <2>1, <2>2 DEF AloneAt, PcOK
    <2>4. QED BY <2>2, <2>3 DEF AloneInv
  <1>2. ASSUME NEW o \in Op, pc[o] # "idle", Goto(o, "idle") PROVE AloneInv'
    BY <1>2, AloneGoes DEF Labels
  <1>3. ASSUME NEW o \in Op, CreateStep(o) PROVE AloneInv'
    <2>1. pc[o] # "idle" /\ \E l \in {"idle", "create"} : Goto(o, l)
      BY <1>3 DEF CreateStep, CreateShow, Create, Command
    <2>2. CASE Goto(o, "create")
      <3>1. pc' = [pc EXCEPT ![o] = "create"] /\ alone' = alone
        BY <2>2 DEF Goto
      <3>2. QED BY <2>1, <3>1, AloneElsewhere DEF Labels
    <2>3. QED BY <2>1, <2>2, <1>2
  <1>4. ASSUME NEW o \in Op, DestroyStep(o) PROVE AloneInv'
    <2>1. /\ pc[o] # "idle"
          /\ \/ \E l \in {"idle", "await", "force", "awaitForced", "destroy"} : Goto(o, l)
             \/ TimesOut(o, "destroy")
      BY <1>4 DEF DestroyStep, PowerOff, Await, ForceOff, AwaitForced, Destroy, Command
    <2>2. CASE ~Goto(o, "idle")
      <3>1. /\ \E l \in {"await", "force", "awaitForced", "destroy"} : pc' = [pc EXCEPT ![o] = l]
            /\ alone' = alone
        BY <2>1, <2>2 DEF Goto, TimesOut
      <3>2. QED BY <2>1, <3>1, AloneElsewhere DEF Labels
    <2>3. QED BY <2>1, <2>2, <1>2
  <1>5. ASSUME NEW o \in Op, ScalingStep(o) PROVE AloneInv'
    <2>1. CASE Show(o)
      <3>1. CASE Goto(o, "idle") BY <2>1, <3>1, <1>2 DEF Show
      <3> DEFINE a == add[o] \ cards
                 r == rem[o] \cap cards
      <3>2. CASE /\ NextModify(a, r) # "idle"
                 /\ pc' = [pc EXCEPT ![o] = NextModify(a, r)]
                 /\ add' = [add EXCEPT ![o] = a]
                 /\ rem' = [rem EXCEPT ![o] = r]
                 /\ goal' = [goal EXCEPT ![o] = (cards \cup add[o]) \ rem[o]]
                 /\ UNCHANGED alone
        <4>1. pc[o] = "show" /\ UNCHANGED manager BY <2>1 DEF Show
        <4>1a. alone[o] => (cards \cup add[o]) \ rem[o] = (cards \cup a) \ r
          BY <4>1 DEF AloneInv, AloneAt
        <4>2. CASE a # {}
          <5>1. pc' = [pc EXCEPT ![o] = "add"] BY <3>2, <4>2 DEF NextModify
          <5>2. alone[o] => goal'[o] = (cards \cup add'[o]) \ rem'[o] BY <3>2, <4>1a
          <5>3. alone[o] => AloneAt(o)' BY <4>1, <5>1, <5>2 DEF AloneInv, AloneAt, PcOK
          <5>4. QED BY <3>2, <4>1, <5>3, AloneMoves
        <4>3. CASE a = {}
          <5>1. pc' = [pc EXCEPT ![o] = "remove"] BY <3>2, <4>3 DEF NextModify
          <5>2. add'[o] = {} /\ (alone[o] => goal'[o] = cards \ rem'[o])
            BY <3>2, <4>3, <4>1a
          <5>3. alone[o] => AloneAt(o)' BY <4>1, <5>1, <5>2 DEF AloneInv, AloneAt, PcOK
          <5>4. QED BY <3>2, <4>1, <5>3, AloneMoves
        <4>4. QED BY <4>2, <4>3
      <3>3. QED BY <2>1, <3>1, <3>2 DEF Show
    <2>2. CASE Add(o)
      <3>1. CASE Goto(o, "idle") BY <2>2, <3>1, <1>2 DEF Add
      <3>2. CASE /\ job' = [op |-> "add", set |-> add[o]]
                 /\ UNCHANGED <<exists, power, error, cards>> /\ Goto(o, "awaitAdd")
        <4>1. pc[o] = "add" BY <2>2 DEF Add
        <4>2. alone[o] => AloneAt(o)' BY <3>2, <4>1 DEF Goto, AloneInv, AloneAt, PcOK
        <4>3. QED BY <3>2, <4>1, <4>2, AloneGoes DEF Labels
      <3>3. QED BY <2>2, <3>1, <3>2 DEF Add, Modify, Command
    <2>3. CASE Remove(o)
      <3>1. CASE Goto(o, "idle") BY <2>3, <3>1, <1>2 DEF Remove
      <3>2. CASE /\ job' = [op |-> "remove", set |-> rem[o]]
                 /\ UNCHANGED <<exists, power, error, cards>> /\ Goto(o, "awaitRemove")
        <4>1. pc[o] = "remove" BY <2>3 DEF Remove
        <4>2. alone[o] => AloneAt(o)' BY <3>2, <4>1 DEF Goto, AloneInv, AloneAt, PcOK
        <4>3. QED BY <3>2, <4>1, <4>2, AloneGoes DEF Labels
      <3>3. QED BY <2>3, <3>1, <3>2 DEF Remove, Modify, Command
    <2>4. CASE AwaitAdd(o)
      <3>1. CASE Goto(o, "idle") BY <2>4, <3>1, <1>2 DEF AwaitAdd
      <3>2. CASE Polled({"INACTIVE POFF"}) /\ Goto(o, "remove")
        <4>1. pc[o] = "awaitAdd" /\ UNCHANGED manager /\ ~error /\ job = NoJob
          BY <2>4, <3>2, StatusOff DEF AwaitAdd, AwaitModify, Polled
        <4>2. alone[o] => AloneAt(o)' BY <3>2, <4>1 DEF Goto, AloneInv, AloneAt, PcOK, NoJob
        <4>3. QED BY <3>2, <4>1, <4>2, AloneGoes DEF Labels
      <3>3. QED BY <2>4, <3>1, <3>2 DEF AwaitAdd, AwaitModify, NextModify
    <2>5. CASE AwaitRemove(o)
      BY <2>5, <1>2 DEF AwaitRemove, AwaitModify
    <2>6. QED BY <1>5, <2>1, <2>2, <2>3, <2>4, <2>5 DEF ScalingStep
  <1>6. CASE ModifyEnds
    <2>1. /\ job # NoJob /\ job' = NoJob /\ UNCHANGED <<pc, locals, history>>
          /\ \/ cards' = IF job.op = "add" THEN cards \cup job.set ELSE cards \ job.set
             \/ cards' = cards /\ error' = TRUE
      BY <1>6 DEF ModifyEnds
    <2>2. ASSUME NEW o \in Op, AloneAt(o) PROVE AloneAt(o)'
      <3>1. CASE pc[o] = "awaitAdd"
        BY <2>1, <2>2, <3>1 DEF AloneAt
      <3>2. CASE pc[o] = "awaitRemove"
        <4>1. job = [op |-> "remove", set |-> rem[o]] /\ goal[o] = cards \ rem[o]
          BY <2>1, <2>2, <3>2 DEF AloneAt
        <4>2. job.op = "remove" /\ job.set = rem[o]
          BY <4>1
        <4>3. goal'[o] = cards' \/ error'
          BY <2>1, <4>1, <4>2
        <4>4. QED BY <2>1, <2>2, <3>2, <4>3 DEF AloneAt
      <3>3. CASE pc[o] \notin {"awaitAdd", "awaitRemove"}
        BY <2>1, <2>2, <3>3 DEF AloneAt
      <3>4. QED BY <3>1, <3>2, <3>3
    <2>3. QED BY <2>1, <2>2 DEF AloneInv
  <1>7. CASE PowerDown \/ PowerOn \/ UNCHANGED vars
    <2>1. UNCHANGED <<cards, job, pc, locals, history>> /\ (error => error')
      BY <1>7 DEF PowerDown, PowerOn, vars
    <2>2. QED BY <2>1 DEF AloneInv, AloneAt
  <1>8. QED BY <1>1, <1>3, <1>4, <1>5, <1>6, <1>7 DEF Next, Continue

LEMMA AloneHolds ==
    ASSUME "lateStatus" \notin Faults
    PROVE  Spec => [](CdiTypeOK /\ AloneInv)
  <1>1. Init => AloneInv
    BY DEF Init, AloneInv
  <1>2. CdiTypeOK /\ AloneInv /\ [Next]_vars => AloneInv'
    BY AloneStep
  <1>3. QED BY <1>1, <1>2, CdiTypeCorrect, PTL DEF Spec

\* If a status read shows what is there, a scaling that has the machine to itself asks
\* for no removal before the cards it adds are connected.
THEOREM RemovalsWait ==
    ASSUME "lateStatus" \notin Faults
    PROVE  Spec => RemovesAfterAdds
  <1>1. CdiTypeOK /\ AloneInv =>
        [\A o \in Op : Remove(o) /\ alone[o] => add[o] \subseteq cards]_vars
    BY DEF AloneInv, AloneAt, Remove
  <1>2. QED BY <1>1, AloneHolds, PTL DEF RemovesAfterAdds

\* Likewise, when it is through its last wait, the cards are those asked for.
THEOREM LoneScalingCorrect ==
    ASSUME "lateStatus" \notin Faults
    PROVE  Spec => []LoneScalingDoes
  <1>1. CdiTypeOK /\ AloneInv => LoneScalingDoes
    <2> SUFFICES ASSUME AloneInv, NEW o \in Op, alone[o], Status = "INACTIVE POFF",
                        pc[o] = "awaitRemove" \/ (pc[o] = "awaitAdd" /\ rem[o] = {})
                 PROVE  cards = goal[o]
      BY DEF LoneScalingDoes
    <2>1. AloneAt(o) /\ ~error /\ job.op = "none"
      <3>1. job = NoJob /\ ~error BY StatusOff
      <3>2. AloneAt(o) BY DEF AloneInv
      <3>3. QED BY <3>1, <3>2 DEF NoJob
    <2>2. /\ job # [op |-> "add", set |-> add[o]]
          /\ job # [op |-> "remove", set |-> rem[o]]
      <3>1. /\ [op |-> "add", set |-> add[o]].op # "none"
            /\ [op |-> "remove", set |-> rem[o]].op # "none"
        OBVIOUS
      <3>2. QED BY <2>1, <3>1
    <2>3. CASE pc[o] = "awaitRemove" BY <2>1, <2>2, <2>3 DEF AloneAt
    <2>4. CASE pc[o] = "awaitAdd" /\ rem[o] = {} BY <2>1, <2>2, <2>4 DEF AloneAt
    <2>5. QED BY <2>3, <2>4
  <1>2. QED BY <1>1, AloneHolds, PTL
=============================================================================
