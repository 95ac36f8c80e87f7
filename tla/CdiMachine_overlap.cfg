CONSTANTS
    o1 = o1
    o2 = o2
    c1 = c1
    c2 = c2
    Op = {o1, o2}
    Card = {c1, c2}
    Faults = {"login", "answer"}
SPECIFICATION FairSpec
INVARIANTS
    CdiTypeOK
    LoneScalingDoes
PROPERTIES
    RemovesAfterAdds
    CallsEnd
