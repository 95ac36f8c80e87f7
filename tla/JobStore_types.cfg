CONSTANTS
    c1 = c1
    c2 = c2
    c3 = c3
    r1 = r1
    r2 = r2
    r3 = r3
    Call = {c1, c2}
    Request = {r1, r2, r3}
    SystemOf <- SystemOfDef
    TypeOf <- TypeOfDef
    MaxSecond = 0
    BackoffLimit = 0
    ApiMayFail = FALSE
SPECIFICATION Spec
SYMMETRY Symmetry
INVARIANTS
    NothingStandsAtCreate
    CancelCoversStanding
PROPERTIES
    CancelTerminates
    RegisterLeavesJob
