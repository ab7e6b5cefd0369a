CONSTANTS
    p1 = p1  p2 = p2  p3 = p3
    v1 = v1  v2 = v2  v3 = v3
    t1 = t1  t2 = t2
    PFs = {p1, p2, p3}
    VFs = {v1, v2, v3}
    Topologies = {t1, t2}
    PfOf <- Parent
    PfNames <- Selected
    None = None
    MaxChanges = 2
    MaxFaults = 1
SPECIFICATION FairSpec
INVARIANTS
    TypeOK
    OnePassFollows
PROPERTIES
    DownIsEarned
    PodLinksFollow
