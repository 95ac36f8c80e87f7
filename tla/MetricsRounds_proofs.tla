------------------------ MODULE MetricsRounds_proofs ------------------------
(***************************************************************************)
(* The exporter's guarantees for any number of rounds and targets.         *)
(***************************************************************************)
EXTENDS MetricsRounds, TLAPS

USE DEF Gauge, Idle, InList, round, vars

\* The type invariant is inductive.
THEOREM RoundsTypeCorrect == Spec => []RoundsTypeOK
<1>1. Init => RoundsTypeOK
  BY DEF Init, RoundsTypeOK
<1>2. RoundsTypeOK /\ [Next]_vars => RoundsTypeOK'
  <2> SUFFICES ASSUME RoundsTypeOK, [Next]_vars PROVE RoundsTypeOK'
    OBVIOUS
  <2> USE DEF RoundsTypeOK
  <2>1. CASE RowsChange \/ Restart
    BY <2>1 DEF RowsChange, Restart
  <2>2. ASSUME NEW r \in Round, Tick(r) PROVE RoundsTypeOK'
    BY <2>2 DEF Tick
  <2>3. ASSUME NEW r \in Round, Compare(r) PROVE RoundsTypeOK'
    BY <2>3 DEF Compare
  <2>4. ASSUME NEW r \in Round, Ask(r) PROVE RoundsTypeOK'
    <3>1. PICK t \in todo[r] : \E report \in Reports(t) :
             /\ todo' = [todo EXCEPT ![r] = @ \ {t}]
             /\ pend' = [pend EXCEPT ![r] = {t} \X report]
      BY <2>4 DEF Ask
    <3>2. PICK report \in Reports(t) : pend' = [pend EXCEPT ![r] = {t} \X report]
      BY <3>1
    <3>3. t \in Target /\ report \subseteq Label
      BY RoundsAssumption DEF Reports, ServerReports, SwitchReports
    <3>4. pend' \in [Round -> SUBSET (Target \X Label)]
      BY <3>2, <3>3
    <3>5. todo' \in [Round -> SUBSET Target]
      BY <3>1
    <3> QED BY <2>4, <3>4, <3>5 DEF Ask
  <2>5. ASSUME NEW r \in Round, Write(r) PROVE RoundsTypeOK'
    BY <2>5 DEF Write
  <2>6. ASSUME NEW r \in Round, Delete(r) PROVE RoundsTypeOK'
    BY <2>6 DEF Delete
  <2>7. ASSUME NEW r \in Round, Keep(r) PROVE RoundsTypeOK'
    BY <2>7 DEF Keep
  <2>8. CASE UNCHANGED vars
    BY <2>8
  <2> QED BY <2>1, <2>2, <2>3, <2>4, <2>5, <2>6, <2>7, <2>8 DEF Next, Step
<1> QED BY <1>1, <1>2, PTL DEF Spec

-----------------------------------------------------------------------------
\* What a round that compares can rely on: no other one compares, and a gauge of the
\* kept list that is still there is its own, on its way out, or another round's.
ListsApart == \A r, q \in Round : InList(r) /\ InList(q) => r = q

CleanFinds ==
    \A r \in Round : InList(r) =>
        \A g \in gauges \cap kept :
            g \in wrote[r] \cup dels[r] \/ \E q \in Round \ {r} : g \in wrote[q]

FindInv == RoundsTypeOK /\ ListsApart /\ CleanFinds /\ NoGaugeForgotten

\* The guarantee of GaugesFound is inductive together with what Compare establishes.
LEMMA FindInvHolds ==
    ASSUME "lists" \notin Overlap
    PROVE  Spec => []FindInv
<1>1. Init => FindInv
  BY DEF Init, FindInv, RoundsTypeOK, ListsApart, CleanFinds, NoGaugeForgotten
<1>2. FindInv /\ RoundsTypeOK' /\ [Next]_vars => FindInv'
  <2> SUFFICES ASSUME FindInv, RoundsTypeOK', [Next]_vars
               PROVE  ListsApart' /\ CleanFinds' /\ NoGaugeForgotten'
    BY DEF FindInv
  <2> USE DEF FindInv
  <2>1. CASE RowsChange \/ Restart
    BY <2>1 DEF RowsChange, Restart, ListsApart, CleanFinds, NoGaugeForgotten
  <2>2. ASSUME NEW r \in Round, Tick(r)
        PROVE  ListsApart' /\ CleanFinds' /\ NoGaugeForgotten'
    BY <2>2 DEF Tick, RoundsTypeOK, ListsApart, CleanFinds, NoGaugeForgotten
  <2>3. ASSUME NEW r \in Round, Compare(r)
        PROVE  ListsApart' /\ CleanFinds' /\ NoGaugeForgotten'
    BY <2>3 DEF Compare, RoundsTypeOK, ListsApart, CleanFinds, NoGaugeForgotten
  <2>4. ASSUME NEW r \in Round, Ask(r)
        PROVE  ListsApart' /\ CleanFinds' /\ NoGaugeForgotten'
    BY <2>4 DEF Ask, RoundsTypeOK, ListsApart, CleanFinds, NoGaugeForgotten
  <2>5. ASSUME NEW r \in Round, Write(r)
        PROVE  ListsApart' /\ CleanFinds' /\ NoGaugeForgotten'
    <3>1. PICK g \in pend[r] : /\ gauges' = gauges \cup {g}
                               /\ wrote' = [wrote EXCEPT ![r] = @ \cup {g}]
      BY <2>5 DEF Write
    <3>2. \A q \in Round : wrote[q] \subseteq wrote'[q] /\ g \in wrote'[r]
      BY <3>1 DEF RoundsTypeOK
    <3>3. pc' = pc /\ dels' = dels /\ kept' = kept
      BY <2>5 DEF Write
    <3>4. ListsApart' /\ NoGaugeForgotten'
      BY <3>1, <3>2, <3>3 DEF ListsApart, NoGaugeForgotten
    <3>5. CleanFinds'
      BY <2>5, <3>1, <3>2, <3>3 DEF CleanFinds, Write
    <3> QED BY <3>4, <3>5
  <2>6. ASSUME NEW r \in Round, Delete(r)
        PROVE  ListsApart' /\ CleanFinds' /\ NoGaugeForgotten'
    BY <2>6 DEF Delete, RoundsTypeOK, ListsApart, CleanFinds, NoGaugeForgotten
  <2>7. ASSUME NEW r \in Round, Keep(r)
        PROVE  ListsApart' /\ CleanFinds' /\ NoGaugeForgotten'
    <3>1. \A q \in Round : ~InList(q)'
      BY <2>7 DEF Keep, RoundsTypeOK, ListsApart
    <3>2. \A q \in Round \ {r} : wrote'[q] = wrote[q]
      BY <2>7 DEF Keep, RoundsTypeOK
    <3>3. NoGaugeForgotten'
      BY <2>7, <3>2 DEF Keep, NoGaugeForgotten, CleanFinds
    <3> QED BY <3>1, <3>3 DEF ListsApart, CleanFinds
  <2>8. CASE UNCHANGED vars
    BY <2>8 DEF ListsApart, CleanFinds, NoGaugeForgotten
  <2> QED BY <2>1, <2>2, <2>3, <2>4, <2>5, <2>6, <2>7, <2>8 DEF Next, Step
<1> QED BY <1>1, <1>2, RoundsTypeCorrect, PTL DEF Spec

\* As long as no two rounds are in ServerList at the same time, no gauge is forgotten,
\* however many rounds overlap while they collect.
THEOREM GaugesFound ==
    ASSUME "lists" \notin Overlap
    PROVE  Spec => []NoGaugeForgotten
<1>1. FindInv => NoGaugeForgotten
  BY DEF FindInv
<1> QED BY <1>1, FindInvHolds, PTL

-----------------------------------------------------------------------------
\* A lone round has the gauges to itself.
IdleIsEmpty == \A r \in Round : Idle(r) => wrote[r] = {} /\ pend[r] = {} /\ ~alone[r]

AloneMeans ==
    \A r \in Round : alone[r] =>
        /\ \A q \in Round \ {r} : Idle(q)
        /\ wrote[r] \subseteq gauges

DeletesOthers == \A r \in Round : InList(r) => dels[r] \cap wrote[r] = {} /\ pend[r] = {}

AloneInv == IdleIsEmpty /\ AloneMeans /\ DeletesOthers

\* What the history variable says of the other rounds and of the gauges.
LEMMA AloneInvHolds == Spec => []AloneInv
<1>1. Init => AloneInv
  BY DEF Init, AloneInv, IdleIsEmpty, AloneMeans, DeletesOthers
<1>2. RoundsTypeOK /\ AloneInv /\ RoundsTypeOK' /\ [Next]_vars => AloneInv'
  <2> SUFFICES ASSUME RoundsTypeOK, AloneInv, RoundsTypeOK', [Next]_vars
               PROVE  IdleIsEmpty' /\ AloneMeans' /\ DeletesOthers'
    BY DEF AloneInv
  <2> USE DEF AloneInv
  <2>1. CASE RowsChange \/ Restart
    BY <2>1 DEF RowsChange, Restart, IdleIsEmpty, AloneMeans, DeletesOthers
  <2>2. ASSUME NEW r \in Round, Tick(r)
        PROVE  IdleIsEmpty' /\ AloneMeans' /\ DeletesOthers'
    BY <2>2 DEF Tick, RoundsTypeOK, IdleIsEmpty, AloneMeans, DeletesOthers
  <2>3. ASSUME NEW r \in Round, Compare(r)
        PROVE  IdleIsEmpty' /\ AloneMeans' /\ DeletesOthers'
    BY <2>3 DEF Compare, RoundsTypeOK, IdleIsEmpty, AloneMeans, DeletesOthers
  <2>4. ASSUME NEW r \in Round, Ask(r)
        PROVE  IdleIsEmpty' /\ AloneMeans' /\ DeletesOthers'
    BY <2>4 DEF Ask, RoundsTypeOK, IdleIsEmpty, AloneMeans, DeletesOthers
  <2>5. ASSUME NEW r \in Round, Write(r)
        PROVE  IdleIsEmpty' /\ AloneMeans' /\ DeletesOthers'
    BY <2>5 DEF Write, RoundsTypeOK, IdleIsEmpty, AloneMeans, DeletesOthers
  <2>6. ASSUME NEW r \in Round, Delete(r)
        PROVE  IdleIsEmpty' /\ AloneMeans' /\ DeletesOthers'
    BY <2>6 DEF Delete, RoundsTypeOK, IdleIsEmpty, AloneMeans, DeletesOthers
  <2>7. ASSUME NEW r \in Round, Keep(r)
        PROVE  IdleIsEmpty' /\ AloneMeans' /\ DeletesOthers'
    BY <2>7 DEF Keep, RoundsTypeOK, IdleIsEmpty, AloneMeans, DeletesOthers
  <2>8. CASE UNCHANGED vars
    BY <2>8 DEF IdleIsEmpty, AloneMeans, DeletesOthers
  <2> QED BY <2>1, <2>2, <2>3, <2>4, <2>5, <2>6, <2>7, <2>8 DEF Next, Step
<1> QED BY <1>1, <1>2, RoundsTypeCorrect, PTL DEF Spec

\* A round that runs alone leaves exactly the gauges it has written, whatever
\* overlapping rounds have left behind.
THEOREM LoneRoundRepairs ==
    ASSUME "lists" \notin Overlap
    PROVE  Spec => LoneRoundIsExact
<1> DEFINE A == \A r \in Round : Keep(r) /\ alone[r] => gauges' = wrote[r]
<1>1. FindInv /\ AloneInv /\ [Next]_vars => [A]_vars
  <2> SUFFICES ASSUME FindInv, AloneInv, NEW r \in Round, Keep(r), alone[r]
               PROVE  gauges' = wrote[r]
    OBVIOUS
  <2>1. \A q \in Round \ {r} : wrote[q] = {}
    BY DEF AloneInv, AloneMeans, IdleIsEmpty
  <2>2. gauges \subseteq wrote[r]
    BY <2>1 DEF Keep, FindInv, CleanFinds, NoGaugeForgotten
  <2>3. wrote[r] \subseteq gauges
    BY DEF AloneInv, AloneMeans
  <2> QED BY <2>2, <2>3 DEF Keep
<1>2. Spec => [][A]_vars
  BY <1>1, FindInvHolds, AloneInvHolds, PTL DEF Spec
<1> QED BY <1>2 DEF LoneRoundIsExact
=============================================================================
