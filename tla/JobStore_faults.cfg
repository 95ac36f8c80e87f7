CONSTANTS
    c1 = c1
    c2 = c2
    c3 = c3
    r1 = r1
    r2 = r2
    r3 = r3
    Call = {c1, c2}
    Request = {r1}
    SystemOf <- SystemOfDef
    TypeOf <- TypeOfDef
    MaxSecond = 1
    BackoffLimit = 1
    ApiMayFail = TRUE
SPECIFICATION FairSpec
INVARIANTS
    TypeOK
    PodsBelongToJobs
    NothingStandsAtCreate
PROPERTIES
    JobsFinish
    FilterClears
