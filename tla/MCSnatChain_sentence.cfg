SPECIFICATION Spec
CONSTANTS
    k1 = k1
    k2 = k2
    ip1 = ip1
    ip2 = ip2
    Absent = Absent
    RuleKeys <- MCRuleKeys
    Targets <- MCTargets
INVARIANT CleanPassReconciles
