SPECIFICATION Spec
CONSTANTS
    b1 = b1
    b2 = b2
    w1 = w1
    w2 = w2
    watcher = watcher
    admin = admin
    BadFile = BadFile
    Nobody = Nobody
    Backends <- MCBackends
    Configs <- MCConfigs
    Watcher = watcher
    Reloaders = {watcher, admin}
    Workers = {w1, w2}
    MaxEdits = 2
    KernelFails = FALSE
CHECK_DEADLOCK FALSE
INVARIANT CurrentIsFile
