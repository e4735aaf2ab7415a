SPECIFICATION MCSpec
CONSTANTS
    s1 = s1
    s2 = s2
    s3 = s3
    n1 = n1
    n2 = n2
    s4 = s4
    n3 = n3
    n4 = n4
    c1 = c1
    Sites = {s1, s2, s3, s4}
    Nets = {n1, n2, n3, n4}
    Home <- MCHome
    Clients = {c1}
    FirstPlans <- MCFirstPlans
    EditPlans <- MCEditPlans
    MaxEdits = 1
    MaxHops = 4
    None = None
    k1 = k1
    k2 = k2
    k3 = k3
    k4 = k4
    k5 = k5
    Blocks <- MCBlocks
    Marks = {k1, k2, k3, k4, k5}
    DrawnPlans <- MCDrawnPlans
    DataPlans <- MCDataPlans
    NetworkTexts <- MCNetworkTexts
    Numbers <- MCNumbers
    Hosts = {"address", "name", "with port", "malformed"}
    InterfaceNames = {"wg1", "masquerade", "nftables", "sysctl", "wireguard", "include", "malformed"}
    Keys = {"canonical", "trailing bits"}
    Shapes <- MCShapes
    MaxChanges = 2
    VerdictPlans <- MCVerdictPlans
    MaxUpsets = 1
INVARIANTS OnePeerPerPrefix NoLoop DeliversPermitted SpofIsTrue HeldAsFarAsNeeded RefusedAsKnown ToldAsItIs
PROPERTY NewIsPermitted
