SPECIFICATION FairSpec
CONSTANTS
    b1 = b1
    r1 = r1
    r2 = r2
    c1 = c1
    c2 = c2
    Backends <- MCBackends
    MaxIdles = {1, 2}
    Requests = {r1, r2}
    Conns = {c1, c2}
    Uploads = {r1}
    Chatty = {r1}
    Shapes <- MCShapes
    Nothing = Nothing
    Stale = Stale
INVARIANTS
    TypeOK
    OneOwner
    ResponseIsOwn
    StaleIsNotBlamed
    UploadedOnce
PROPERTIES
    IdleIsReaped
    RequestEnds
