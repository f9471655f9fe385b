SPECIFICATION ScenarioSpec
CONSTANTS
  a = a  b = b  c = c  d = d  x = x  y = y  bad = bad  big = big  w1 = w1  w2 = w2
  Paths <- FourPaths
  Contents = {x, y, bad, big}
  ProjectOf <- TwoProjects
  SizeOf <- SameSize
  NoChunks = NoChunks  NoFile = NoFile  NoContent = NoContent
  MaxIndexRetries = 2  Grain = 2
  Workers = {w1, w2}
  Moves <- MoveAcross
  BadContents = {bad}  Documents = {b, d}  NoTool = {d}
  MaxFileSize = 8
  QueueCap = 2  MaxOps = 3  MaxFaults = 1
SYMMETRY Alike
\* Nothing need happen in a workspace.
CHECK_DEADLOCK FALSE
INVARIANTS
  TypeOK
  UnsharedSkipSound
  UnsharedServedMatchesHash
  ProjectIsolation
