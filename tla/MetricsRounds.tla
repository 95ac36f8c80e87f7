--------------------------- MODULE MetricsRounds ---------------------------
(***************************************************************************)
(* The exporter's collection rounds for one kind of target, servers or     *)
(* network switches: the monitoring loop of exporter/cmd/server/main.go,   *)
(* Colloction (Collection) of server.go (network.go) and ServerList        *)
(* (NetworkList) of manager.go.  The two kinds share nothing but the tick  *)
(* and differ in what an answer may report.                                *)
(*                                                                         *)
(* Every tick starts a round on a goroutine of its own and does not wait   *)
(* for the last one.  A round writes the gauges of the targets that        *)
(* answer, then deletes those the list kept from the last round has and it *)
(* has not, and keeps its own list.                                        *)
(***************************************************************************)
EXTENDS FiniteSets

CONSTANTS
    Target,   \* the servers, or switches, the database may list
    Label,
    LabelsOf, \* LabelsOf[t]: what t has gauges for: cpu and memory, or its interfaces
    Round,    \* the rounds that may run at the same time
    Overlap,  \* of "rounds", "lists": what of two rounds may overlap
    DbFails   \* whether a query of the database may fail, or find nothing for a row

ASSUME RoundsAssumption ==
    /\ LabelsOf \in [Target -> SUBSET Label]
    /\ Overlap \subseteq {"rounds", "lists"}
    /\ DbFails \in BOOLEAN

Gauge == Target \X Label

VARIABLES
    kind,    \* "server" or "network", for good
    rows,    \* the targets the database lists
    gauges,  \* the gauges in Prometheus' registry
    kept,    \* the gauges written by the targets of m.serverList
    pc,      \* pc[r]: where round r is
    todo,    \* todo[r]: the targets of its list it has not asked yet
    pend,    \* pend[r]: the gauges it has still to write for the last answer
    wrote,   \* wrote[r]: the gauges it has written, WritedMetrics of updateTargetList
    dels,    \* dels[r]: the gauges it has still to delete
    alone    \* history: alone[r]: no other round has run beside r

round == <<pc, todo, pend, wrote, dels, alone>>
vars == <<kind, rows, gauges, kept, round>>

Idle(r) == pc[r] = "idle"
InList(r) == pc[r] = "clean"

Init ==
    /\ kind \in {"server", "network"}
    /\ rows = {} /\ gauges = {} /\ kept = {}
    /\ pc = [r \in Round |-> "idle"]
    /\ todo = [r \in Round |-> {}]
    /\ pend = [r \in Round |-> {}]
    /\ wrote = [r \in Round |-> {}]
    /\ dels = [r \in Round |-> {}]
    /\ alone = [r \in Round |-> FALSE]

-----------------------------------------------------------------------------
\* One query; nothing if it fails.
SelectNwSwitchTable(list) == list = rows \/ (DbFails /\ list = {})

\* Queries row by row.  If one fails, the rows before it are returned; what happens when
\* one finds nothing is Restart.
SelectServerTable(list) == list = rows \/ (DbFails /\ list \subseteq rows)

\* A tick: an error of the query is logged only, and the round starts on what the
\* query has returned.
Tick(r) ==
    /\ Idle(r)
    /\ "rounds" \in Overlap \/ \A q \in Round : Idle(q)
    /\ \E list \in SUBSET Target :
         /\ IF kind = "server" THEN SelectServerTable(list) ELSE SelectNwSwitchTable(list)
         /\ todo' = [todo EXCEPT ![r] = list]
    /\ pc' = [pc EXCEPT ![r] = "collect"]
    /\ alone' = [q \in Round |-> q = r /\ \A p \in Round : Idle(p)]
    /\ UNCHANGED <<kind, rows, gauges, kept, pend, wrote, dels>>

\* A tick that finds a row of the servers without its pool, CDI or OS row: the message
\* of an error that is nil is logged, the loop panics and takes the exporter with it,
\* the rounds of both kinds included, and the exporter is started again.
Restart ==
    /\ DbFails
    /\ kind = "server" => rows # {}
    /\ gauges' = {} /\ kept' = {}
    /\ pc' = [r \in Round |-> "idle"]
    /\ todo' = [r \in Round |-> {}]
    /\ pend' = [r \in Round |-> {}]
    /\ wrote' = [r \in Round |-> {}]
    /\ dels' = [r \in Round |-> {}]
    /\ alone' = [r \in Round |-> FALSE]
    /\ UNCHANGED <<kind, rows>>

\* getServerMetrics fails, or finds both values.
ServerReports(t) == {{}, LabelsOf[t]}

\* parseAndWriteMetrics takes a switch's interfaces line by line and skips those that
\* it cannot read.
SwitchReports(t) == SUBSET LabelsOf[t]

\* The labels an answer of t has values for; none if its playbook fails.
Reports(t) == IF kind = "server" THEN ServerReports(t) ELSE SwitchReports(t)

\* Mutant of Ask: the header line is taken for an interface.
Ask_header(r) ==
    /\ pc[r] = "collect" /\ pend[r] = {}
    /\ \E t \in todo[r] : \E report \in Reports(t) :
         /\ todo' = [todo EXCEPT ![r] = @ \ {t}]
         /\ pend' = [pend EXCEPT ![r] = {t} \X (report \cup {"IFACE"})]
    /\ UNCHANGED <<kind, rows, gauges, kept, pc, wrote, dels, alone>>

\* The playbook of the next target, and the values found in its output.
Ask(r) ==
    /\ pc[r] = "collect" /\ pend[r] = {}
    /\ \E t \in todo[r] : \E report \in Reports(t) :
         /\ todo' = [todo EXCEPT ![r] = @ \ {t}]
         /\ pend' = [pend EXCEPT ![r] = {t} \X report]
    /\ UNCHANGED <<kind, rows, gauges, kept, pc, wrote, dels, alone>>

\* Mutant of Write: what is written is not noted with the target.
Write_unnoted(r) ==
    /\ pc[r] = "collect"
    /\ \E g \in pend[r] :
         /\ gauges' = gauges \cup {g}
         /\ pend' = [pend EXCEPT ![r] = @ \ {g}]
    /\ UNCHANGED <<kind, rows, kept, pc, todo, wrote, dels, alone>>

\* Metrics.Write.
Write(r) ==
    /\ pc[r] = "collect"
    /\ \E g \in pend[r] :
         /\ gauges' = gauges \cup {g}
         /\ pend' = [pend EXCEPT ![r] = @ \ {g}]
         /\ wrote' = [wrote EXCEPT ![r] = @ \cup {g}]
    /\ UNCHANGED <<kind, rows, kept, pc, todo, dels, alone>>

\* Mutant of Compare: the two lists are swapped.
Compare_swapped(r) ==
    /\ pc[r] = "collect" /\ todo[r] = {} /\ pend[r] = {}
    /\ "lists" \in Overlap \/ ~\E q \in Round : InList(q)
    /\ dels' = [dels EXCEPT ![r] = wrote[r] \ kept]
    /\ pc' = [pc EXCEPT ![r] = "clean"]
    /\ UNCHANGED <<kind, rows, gauges, kept, todo, pend, wrote, alone>>

\* Mutant of Compare: only targets that are still there are cleaned up.
Compare_present(r) ==
    /\ pc[r] = "collect" /\ todo[r] = {} /\ pend[r] = {}
    /\ "lists" \in Overlap \/ ~\E q \in Round : InList(q)
    /\ dels' = [dels EXCEPT ![r] = {g \in kept \ wrote[r] : \E w \in wrote[r] : w[1] = g[1]}]
    /\ pc' = [pc EXCEPT ![r] = "clean"]
    /\ UNCHANGED <<kind, rows, gauges, kept, todo, pend, wrote, alone>>

\* Mutant of Compare: every gauge of the last round is deleted, to be written anew.
Compare_all(r) ==
    /\ pc[r] = "collect" /\ todo[r] = {} /\ pend[r] = {}
    /\ "lists" \in Overlap \/ ~\E q \in Round : InList(q)
    /\ dels' = [dels EXCEPT ![r] = kept]
    /\ pc' = [pc EXCEPT ![r] = "clean"]
    /\ UNCHANGED <<kind, rows, gauges, kept, todo, pend, wrote, alone>>

\* ServerList passes m.serverList to cleanupMetrics, which finds the gauges of targets
\* that are gone, and of targets still there those not written this time.
Compare(r) ==
    /\ pc[r] = "collect" /\ todo[r] = {} /\ pend[r] = {}
    /\ "lists" \in Overlap \/ ~\E q \in Round : InList(q)
    /\ dels' = [dels EXCEPT ![r] = kept \ wrote[r]]
    /\ pc' = [pc EXCEPT ![r] = "clean"]
    /\ UNCHANGED <<kind, rows, gauges, kept, todo, pend, wrote, alone>>

\* Metrics.Delete.
Delete(r) ==
    /\ pc[r] = "clean"
    /\ \E g \in dels[r] :
         /\ gauges' = gauges \ {g}
         /\ dels' = [dels EXCEPT ![r] = @ \ {g}]
    /\ UNCHANGED <<kind, rows, kept, pc, todo, pend, wrote, alone>>

\* Mutant of Keep: the list is not kept.
Keep_never(r) ==
    /\ pc[r] = "clean" /\ dels[r] = {}
    /\ pc' = [pc EXCEPT ![r] = "idle"]
    /\ wrote' = [wrote EXCEPT ![r] = {}]
    /\ alone' = [alone EXCEPT ![r] = FALSE]
    /\ UNCHANGED <<kind, rows, gauges, kept, todo, pend, dels>>

\* m.serverList = serverList: the round is over.
Keep(r) ==
    /\ pc[r] = "clean" /\ dels[r] = {}
    /\ kept' = wrote[r]
    /\ pc' = [pc EXCEPT ![r] = "idle"]
    /\ wrote' = [wrote EXCEPT ![r] = {}]
    /\ alone' = [alone EXCEPT ![r] = FALSE]
    /\ UNCHANGED <<kind, rows, gauges, todo, pend, dels>>

\* A target is put into the database, or taken out of it.
RowsChange ==
    /\ \E t \in Target : rows' \in {rows \cup {t}, rows \ {t}}
    /\ UNCHANGED <<kind, gauges, kept, round>>

-----------------------------------------------------------------------------
Step(r) == Ask(r) \/ Write(r) \/ Delete(r) \/ Keep(r)

Next ==
    \/ RowsChange \/ Restart
    \/ \E r \in Round : Tick(r) \/ Compare(r) \/ Step(r)

Spec == Init /\ [][Next]_vars

\* The ticker ticks and a round goes on.  That rounds wait for each other at Compare
\* is no lock of the code but an assumption on timing, hence the strong fairness.
Fairness ==
    /\ WF_vars(\E r \in Round : Tick(r))
    /\ \A r \in Round : WF_vars(Step(r)) /\ SF_vars(Compare(r))

FairSpec == Spec /\ Fairness

-----------------------------------------------------------------------------
\* Type invariant of the exporter's lists and rounds.
RoundsTypeOK ==
    /\ kind \in {"server", "network"}
    /\ rows \subseteq Target
    /\ gauges \subseteq Gauge /\ kept \subseteq Gauge
    /\ pc \in [Round -> {"idle", "collect", "clean"}]
    /\ todo \in [Round -> SUBSET Target]
    /\ pend \in [Round -> SUBSET Gauge]
    /\ wrote \in [Round -> SUBSET Gauge]
    /\ dels \in [Round -> SUBSET Gauge]
    /\ alone \in [Round -> BOOLEAN]

\* cleanupMetrics can find every gauge: whatever rounds overlap, a gauge is in the
\* list kept for the next comparison or in that of a round that has still to make its
\* own.  A gauge in neither would stay for ever.
NoGaugeForgotten == \A g \in gauges : g \in kept \/ \E r \in Round : g \in wrote[r]

\* What overlapping rounds do to each other's gauges (a late round deletes what a
\* newer one has written, or keeps a list of what is gone) is repaired by the first
\* round that runs alone: it ends with exactly the gauges it has written.
LoneRoundIsExact ==
    [][\A r \in Round : Keep(r) /\ alone[r] => gauges' = wrote[r]]_vars

\* "cleanupMetrics removes metrics for targets that are no longer monitored": the
\* gauges of a target that has left the database go and do not come back, whatever
\* queries fail, rounds overlap and exporters die.
RemovedGaugesGo ==
    \A t \in Target :
        <>[](t \notin rows) => <>[](\A g \in gauges : g[1] # t)

\* A target that stays in the database and answers gets its gauges for good, if the
\* queries succeed, and find what every row refers to, from some time on.
ListsAll == ~Restart /\ \A r \in Round : Tick(r) => todo'[r] = rows
Answers(t, l) ==
    \A r \in Round : Ask(r) /\ t \in todo[r] \ todo'[r] => <<t, l>> \in pend'[r]
AnsweredIsShown ==
    \A t \in Target, l \in Label :
        <>[](t \in rows) /\ <>[][ListsAll /\ Answers(t, l)]_vars => <>[](<<t, l>> \in gauges)
=============================================================================
