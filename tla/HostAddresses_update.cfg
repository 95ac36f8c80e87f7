CONSTANTS
    o1 = o1
    o2 = o2
    h1 = h1
    h2 = h2
    n1 = n1
    n2 = n2
    s1 = s1
    s2 = s2
    Op = {o1, o2}
    Host = {h1, h2}
    Nic = {n1, n2}
    HostOf <- HostDef
    Subnet = {s1, s2}
    AddrOf <- AddrDef
    Fails = {"query", "reserve", "configure", "tag", "machine", "interfaces", "ipRelease"}
    Lost = {"reserve", "configure", "tag", "machine"}
    Exclusive = TRUE
SPECIFICATION Spec
SYMMETRY Symmetry
INVARIANTS
    TypeOK
    NoSharedAddress
    ConfiguredIsReserved
    TagsPointHome
PROPERTIES
    UpdateTellsTags
    ReleasesUnassigned
    OnlyFailuresLeak
    ImplementsPool
