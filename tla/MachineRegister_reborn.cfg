CONSTANTS
    c1 = c1
    c2 = c2
    s1 = s1
    s2 = s2
    boot = boot
    nic = nic
    a = a
    b = b
    Call = {c1}
    Request = {s1, s2}
    SystemOf <- SystemOfDef
    TypeOf <- TypeOfDef
    MaxSecond = 0
    BackoffLimit = 0
    ApiMayFail = FALSE
    Iface = {boot}
    Boot = boot
    Subnet = {a}
    Asked <- AskedAutoDef
    AutoLinks <- AutoDef
    Faults = {"worker", "deadline", "killLag"}
    Serves = {"delete"}
SPECIFICATION MSpec
INVARIANTS
    MTypeOK
PROPERTIES
    ImplementsStore
