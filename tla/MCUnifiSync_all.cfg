SPECIFICATION MCSpec
CONSTANTS
  n1 = n1
  n2 = n2
  hop = hop
  old = old
  None = None
  Nets = {n1, n2}
  Hops = {hop, old}
  Ids <- Ten
  Duplicates = FALSE
  Syncs = {"pass", "now"}
  Unlinks = {TRUE}
  FailAt = {"list", "step", "policy", "unlink"}
  MaxFaults = 1
  MaxChanges = 3
  MaxDeletes = 1
  MaxClicks = 2
  Plans <- Moving
  Existing <- Shared
  \* Console
  Hosts = {"name", "ip"}
  Certificates = {"own", "other", "signed", "renewed"}
  Public <- ForName
  FirstShown <- OwnOrSigned
  MaxRenewals = 2
  MaxProbes = 2
  NoCert = "none"
  \* ConsoleCalls
  MaxCalls = 2
  MaxExpired = 2
INVARIANTS TrustIsKept CarriedOutOnce
PROPERTIES OnlyOwn Settles ChangeIsSeen
