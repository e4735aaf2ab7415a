CONSTANTS
  v1 = v1
  v2 = v2
  v3 = v3
  v4 = v4
  wg0 = wg0
  wg1 = wg1
  s1 = s1
  s2 = s2
  Versions = {v1, v2, v3, v4}
  Ifaces = {wg0, wg1}
  Sections = {s1, s2}
  IfaceOf <- MCRename
  SectionOf <- MCSectionOf
  PortOf <- MCPortOf
  DefaultIface = wg0
  None = None
  Empty = Empty
  CliOps = {"up", "down", "rollback"}
  Externals = {"flush", "linkdown", "reboot"}
  Interleave = FALSE
  FailAt <- EverythingFails
  CrashAt <- EverythingFails
  MaxFaults = 1
SPECIFICATION Spec
INVARIANT AppliedIsRunning
PROPERTY FailsClosed
PROPERTY UndoRestoresFiles
