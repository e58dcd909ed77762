CONSTANTS
    k1 = k1
    k2 = k2
    k3 = k3
    p1 = p1
    p2 = p2
    Keys = {k1, k2, k3}
    ImportKeys = {k2, k3}
    d1 = d1
    d2 = d2
    NoStake = NoStake
    Absent = Absent
    DelegateKeys = {d1, d2}
    OwnDelegates = {d1}
    Importers = {p1}
    SeedKey <- MCSeedKey
    MaxSeed <- MCMaxSeed
    MaxAddresses <- MCMaxAddresses
SPECIFICATION Spec
INVARIANT StakeMirrorsChain
CHECK_DEADLOCK FALSE
