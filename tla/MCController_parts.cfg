SPECIFICATION MCSpec
CONSTANTS
    \* Sessions
    Admins = {u1, u2}
    Tokens = {t1, t2}
    Calls = {q1, q2}
    MaxHashes = 3
    MaxCodes = 2
    NoAccount = NoAccount
    \* Throttle
    a1 = a1
    a2 = a2
    Sources = {d, a1, a2}
    Addresses = {a1, a2}
    Attempts = {n1, n2}
    PerSource = 1
    GlobalMax = 2
    MaxTracked = 2
    PruneTo = 2
    Nobody = Nobody
    \* Invites
    Clients = {c1}
    Links = {l1, l2, l3}
    Requests = {r1, r2}
    MaxKeys = 2
    None = None
    \* Fleet
    Sites = {s1, s2}
    Nets = {net1, net2}
    Gateways = {g1, g2}
    EnrolTokens = {e1, e2}
    k1 = k1
    k2 = k2
    Keys = {k1, k2, kc}
    ClientKeys = {kc}
    SettingsValues = {set1, set2}
    Nothing = Nothing
    \* Telemetry
    Minute = 2
    Hour = 4
    KeepRaw = 2
    KeepMinutes = 4
    KeepHours = 4
    RateGap = 2
    MaxTime = 5
    MaxBack = 1
    MaxPending = 1
    MaxStored = 2
    \* Checks
    Remote = {remote}
    Wait = 1
    Window = 3
    LastTick = 3
    MaxAsked = 2
    MaxPosts = 1
    MaxKills = 1
    Unset = Unset
    \* Addresses
    Homes = {b1, b2}
    Devices = {d1, d2}
    Ranges <- ThreeRanges
    NoIp = NoIp
    \* Install
    InstallTokens = {f1, f2}
    MaxRuns = 3
    Absent = Absent
    \* Reporting
    Intervals <- TwoIntervals
    Part = 6
    FastGrace = 4
    LongestPause = 16
    StepBack = 6
    MaxTrouble = 1
    MaxSwitches = 2
    \* DataDir
    Secrets = {x1, x2}
    Missing = Missing
    Damaged = Damaged
    \* MailSettings
    MailTabs = {m1, m2}
    Accounts <- ThreeAccounts
    NoPassword = NoPassword
    MaxSaves = 2
SYMMETRY Symmetry
INVARIANTS OneAdmin OldPasswordOut LimitHolds NothingLost ServedIsGood
    LiveIsInMesh AllOrNothing ObedientIsKept DataSurvives PasswordStaysHome
PROPERTIES GivenIsCurrent LinksAreOneShot TokensAreOneShot ShownIsFound AddressesHold
