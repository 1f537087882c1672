SPECIFICATION Spec
CONSTANTS
    v1 = v1
    v2 = v2
    alias = alias
    b1 = b1
    b2 = b2
    rr = rr
    wrr = wrr
    ip1 = ip1
    ip2 = ip2
    Absent = Absent
    Keys <- MCKeys
    Canon <- MCIdentity
    Proto <- MCProto
    Protos = {"tcp", "udp"}
    Backends <- MCBackends
    BadBackends = {}
    Flaky <- MCFlaky
    Scheds <- MCScheds
    Weights = {1, 2}
    Targets <- MCTargets
    Configs <- MCConfigs
    AdminServices <- MCAdminServices
    AdminKeys <- MCAdminKeys
INVARIANTS
    TypeOK
    OursIsManaged
    OkMeansInSync
    NoSelfInflictedError
    CleanupRemovesOurs
    NatCoversIpvs
PROPERTIES
    OthersUntouched
    ImplementsKernelSync
