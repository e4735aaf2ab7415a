CONSTANTS
  v1 = v1
  v2 = v2
  v3 = v3
  v4 = v4
  wg0 = wg0
  wg1 = wg1
  s1 = s1
  s2 = s2
  Versions = {v1}
  Ifaces = {wg0}
  Sections = {s1, s2}
  IfaceOf <- MCOneIface
  SectionOf <- MCSectionOf
  PortOf <- MCPortOf
  DefaultIface = wg0
  None = None
  Empty = Empty
  CliOps = {"down"}
  Externals = {}
  Interleave = TRUE
  FailAt = {}
  CrashAt = {}
  MaxFaults = 1
SPECIFICATION Spec
PROPERTY NeverOpensBare
