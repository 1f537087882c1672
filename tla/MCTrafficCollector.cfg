SPECIFICATION FairSpec
CONSTANTS
    k1 = k1
    Absent = Absent
    Keys <- MCKeys
    Width = 4
    MaxAbsentPolls = 2
    MaxTotal = 9
INVARIANTS
    TypeOK
    NeverOvercounts
    NothingMissed
PROPERTY GoneIsForgotten
