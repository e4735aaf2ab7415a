SPECIFICATION MCSpec
CONSTANTS
    \* LiveStreams
    Tabs = {tab1}
    Streams = {x1, x2}
    Tokens = {t1, t2}
    MaxPerSession = 2
    MaxStreams = 2
    MaxStops = 2
    MaxOrphans = 1
    None = None
    \* Alerts
    Sites <- TwoSites
    MaxOutages = 2
    MaxReplaced = 1
    MaxFailures = 1
    MaxRestarts = 1
    \* Reresolve
    p1 = p1
    p2 = p2
    Named <- TwoNamed
    Addresses = {here, there}
    Nowhere = Nowhere
    MaxMoves = 2
    MaxMishaps = 1
    \* Routes
    netA = netA
    netB = netB
    netC = netC
    tunnelNet = tunnelNet
    Prefixes = {netA, netB, netC, tunnelNet}
    Covered = {tunnelNet}
    Confs <- ThreeConfs
    MaxRefusals = 2
    MaxMeddling = 1
    MaxApplies = 2
INVARIANTS CountsMatch CleanStops RoutesRight
PROPERTIES PageLeaves AlertsAreTrue PeerFound
