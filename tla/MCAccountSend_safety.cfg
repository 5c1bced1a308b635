SPECIFICATION Spec
CONSTANTS
    r1 = r1  r2 = r2  r3 = r3  None = None
    Replicas = {r1, r2}
    HourlyCap = 1
    SettingCap = 6
    PolicyCap = None
    FirstDay = 2
    LastDay = 3
    MaxFaults = 2
SYMMETRY ReplicaSymmetry
INVARIANTS
    LockExclusive
    CapsHold
    CooldownHolds
