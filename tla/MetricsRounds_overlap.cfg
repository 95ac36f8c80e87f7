CONSTANTS
    t1 = t1
    t2 = t2
    l1 = l1
    l2 = l2
    r1 = r1
    r2 = r2
    Target = {t1, t2}
    Label = {l1, l2}
    LabelsOf <- LabelsDef
    Round = {r1, r2}
    Overlap = {"rounds"}
    DbFails = TRUE
SPECIFICATION FairSpec
INVARIANTS
    RoundsTypeOK
    NoGaugeForgotten
PROPERTIES
    LoneRoundIsExact
    RemovedGaugesGo
    AnsweredIsShown
