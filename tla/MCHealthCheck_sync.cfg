SPECIFICATION Spec
CONSTANTS
    b1 = b1
    b2 = b2
    s1 = s1
    s2 = s2
    s3 = s3
    w1 = w1
    w2 = w2
    Absent = Absent
    Backends <- MCBackends
    Names = {s1, s2, s3}
    Files <- MCMoved
    Flaky = {b2}
    Workers = {w1, w2}
    MaxCount = 2
INVARIANT TargetsInSync
