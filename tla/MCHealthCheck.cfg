SPECIFICATION FairSpec
CONSTANTS
    b1 = b1
    b2 = b2
    s1 = s1
    s2 = s2
    s3 = s3
    w1 = w1
    w2 = w2
    Absent = Absent
    Backends <- MCBackends
    Names <- MCNames
    Files <- MCFiles
    Flaky <- MCFlaky
    Workers = {w1, w2}
    MaxCount = 2
INVARIANTS
    TypeOK
    OneLiveCheck
    AliveStaysUp
PROPERTIES
    
    VerdictSettles
