CONSTANTS
    c1 = c1
    c2 = c2
    s1 = s1
    s2 = s2
    boot = boot
    nic = nic
    a = a
    b = b
    Call = {c1}
    Request = {s1}
    SystemOf <- SystemOfDef
    TypeOf <- TypeOfDef
    MaxSecond = 0
    BackoffLimit = 0
    ApiMayFail = FALSE
    Iface = {boot, nic}
    Boot = boot
    Subnet = {a, b}
    Asked <- AskedNicDef
    AutoLinks <- AutoDef
    Faults = {"maas"}
    Serves = {"show"}
SPECIFICATION MSpec
INVARIANTS
    ShowIsAtomic
