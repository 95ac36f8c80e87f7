CONSTANTS
    c1 = c1
    c2 = c2
    s1 = s1
    s2 = s2
    boot = boot
    nic = nic
    a = a
    b = b
    Call = {c1}
    Request = {s1}
    SystemOf <- SystemOfDef
    TypeOf <- TypeOfDef
    MaxSecond = 1
    BackoffLimit = 0
    ApiMayFail = FALSE
    Iface = {boot}
    Boot = boot
    Subnet = {a, b}
    Asked <- AskedDef
    AutoLinks <- AutoDef
    Faults = {}
    Serves = {"cancel", "show"}
SPECIFICATION MFairSpec
PROPERTIES
    CancelIsFinal
    Settles
