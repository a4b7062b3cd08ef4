SPECIFICATION FairSpec
CONSTANTS
  p1 = p1
  p2 = p2
  root1 = root1
  tracked = tracked
  untracked = untracked
  Nobody = Nobody
  Process = {p1, p2}
  Caller = {p1}
  Root = {root1}
  File = {tracked, untracked}
  Source = {tracked}
  Modes = {"local", "docker"}
  Ops = {"run", "replace", "patch", "inspect"}
  TaskLimit = 1
  DefaultLimit = 2
  MaxAge = 2
  Faults = {"crash", "acquire", "disk"}
INVARIANTS
  TypeOK
  WorkspacesApart
  LimitHeld
PROPERTIES
  EditsAreWhole
  DiskGuarded
  CallsEnd
