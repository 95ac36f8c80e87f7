SPECIFICATION RangesSpec
CONSTANTS
    c1 = c1
    v1 = v1
    v2 = v2
    n1 = n1
    n2 = n2
    Call = {c1}
    System = {v1, v2}
    Cidr = {n1, n2}
    NoSystem = NoSystem
    NoCidr = NoCidr
    Faults = {"call", "lost", "lookup", "job"}
    Modulus = 16
    Asked <- AskedDef
    NoAddress = NoAddress
SYMMETRY Symmetry
INVARIANTS
    VTypeOK
    ReleasesUnhosted
    HalfDoneIsOwned
    ReadyVmIsLinked
    SubnetsKeepTheRange
